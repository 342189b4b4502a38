----------------------- MODULE DynamicSearcher_proofs -----------------------
(***************************************************************************)
(* Proofs about DynamicSearcher, for any number of client and worker       *)
(* threads, vectors, heads, stripes and jobs, and with calls of the store  *)
(* failing or not.  Eight inductive invariants, each resting on the ones   *)
(* before it:                                                              *)
(*   TInv      what the shared tables and the hands of a thread may hold;  *)
(*   LockInv   which thread holds which stripe in which phase;             *)
(*   SizeInv   the posting sizes against the lists, and against what a     *)
(*             thread has written and not yet published;                   *)
(*   BoundInv  the lengths of the lists and of what a thread is about to   *)
(*             write.                                                      *)
(*   PursuedInv  for every head on the list of splitting or merging heads  *)
(*             the job or the thread that will take it off;                *)
(*   OrderInv  what a thread was told to do, and what its lock protects;   *)
(*   QueuedInv at most one merge, queued or under way, for each head on    *)
(*             the list of merging heads;                                  *)
(*   LostInv   for every vector one of the ways in which it is carried.    *)
(***************************************************************************)
EXTENDS DynamicSearcher, FiniteSetTheorems, SequenceTheorems, WellFoundedInduction, TLAPS

-----------------------------------------------------------------------------
(***************************************************************************)
(* Filter.  Its recursion is over positions, so that the least position at *)
(* which a statement fails takes the place of an induction.                *)
(***************************************************************************)
Before == {p \in Nat \X Nat : p[1] < p[2]}

LEMMA NotBefore ==
    ASSUME NEW m \in Nat, NEW n \in Nat, <<m, n>> \notin Before
    PROVE  n <= m
BY DEF Before

LEMMA BeforeWellFounded == IsWellFoundedOn(Before, Nat)
BY NatLessThanWellFounded DEF OpToRel, Before

LEMMA Least ==
    ASSUME NEW A \in SUBSET Nat, A # {}
    PROVE  \E n \in A : \A m \in A : n <= m
<1>1. PICK n \in A : \A m \in A : ~ (<<m, n>> \in Before)
  BY BeforeWellFounded, WFMin
<1>2. \A m \in A : n <= m
  <2> TAKE m \in A
  <2> QED BY <1>1, NotBefore
<1> QED BY <1>2

\* A set of numbers that contains 0 and the successor of each of its elements below N.
LEMMA UpTo ==
    ASSUME NEW N \in Nat, NEW G, 0 \in G,
           \A n \in 0 .. N : n + 1 \in 0 .. N /\ n \in G => n + 1 \in G
    PROVE  \A n \in 0 .. N : n \in G
<1> DEFINE A == {n \in 0 .. N : n \notin G}
<1> SUFFICES ASSUME A # {} PROVE FALSE
  OBVIOUS
<1>1. A \in SUBSET Nat
  OBVIOUS
<1>2. PICK n \in A : \A m \in A : n <= m
  <2> HIDE DEF A
  <2> QED BY <1>1, Least
<1>3. n \in 0 .. N /\ n \notin G /\ n # 0
  BY <1>2
<1>4. n - 1 \in 0 .. N /\ (n - 1) + 1 = n /\ ~(n <= n - 1)
  BY <1>3
<1>5. n - 1 \in G
  BY <1>2, <1>4
<1> QED BY <1>3, <1>4, <1>5

\* The lists of kept entries, one for each prefix of the list.
Steps(list, S, F) ==
    F = [i \in 0 .. Len(list) |->
            IF i = 0 THEN << >>
            ELSE IF list[i] \in S THEN Append(F[i - 1], list[i]) ELSE F[i - 1]]

\* The same up to position n, for the proof that Steps has a solution.
StepsTo(list, S, n, F) ==
    /\ DOMAIN F = 0 .. n
    /\ F = [i \in 0 .. n |->
              IF i = 0 THEN << >>
              ELSE IF list[i] \in S THEN Append(F[i - 1], list[i]) ELSE F[i - 1]]

LEMMA StepsExist ==
    ASSUME NEW T, NEW list \in Seq(T), NEW S
    PROVE  \E F : Steps(list, S, F)
<1> DEFINE N == Len(list)
           G == {n \in 0 .. N : \E F : StepsTo(list, S, n, F)}
<1>1. N \in Nat
  OBVIOUS
<1>2. 0 \in G
  <2> DEFINE F0 == [i \in 0 .. 0 |-> << >>]
  <2>1. StepsTo(list, S, 0, F0)
    BY DEF StepsTo
  <2> QED BY <2>1, <1>1
<1>3. ASSUME NEW n \in 0 .. N, n + 1 \in 0 .. N, n \in G
      PROVE  n + 1 \in G
  <2>1. PICK F : StepsTo(list, S, n, F)
    BY <1>3
  <2> DEFINE x == IF list[n + 1] \in S THEN Append(F[n], list[n + 1]) ELSE F[n]
             H == [i \in 0 .. n + 1 |-> IF i = n + 1 THEN x ELSE F[i]]
  <2>2. ASSUME NEW i \in 0 .. n + 1
        PROVE  H[i] = IF i = 0 THEN << >>
                      ELSE IF list[i] \in S THEN Append(H[i - 1], list[i]) ELSE H[i - 1]
    <3>1. CASE i = n + 1
      <4>1. i # 0 /\ i - 1 = n /\ H[i - 1] = F[n] /\ H[i] = x
        BY <3>1
      <4> QED BY <4>1, <3>1
    <3>2. CASE i # n + 1
      <4>1. i \in 0 .. n /\ H[i] = F[i]
        BY <3>2
      <4>2. i # 0 => i - 1 \in 0 .. n + 1 /\ i - 1 # n + 1 /\ H[i - 1] = F[i - 1]
        BY <4>1
      <4>3. F[i] = IF i = 0 THEN << >>
                   ELSE IF list[i] \in S THEN Append(F[i - 1], list[i]) ELSE F[i - 1]
        BY <2>1, <4>1 DEF StepsTo
      <4> HIDE DEF H
      <4> QED BY <4>1, <4>2, <4>3
    <3> QED BY <3>1, <3>2
  <2>3. StepsTo(list, S, n + 1, H)
    <3>1. DOMAIN H = 0 .. n + 1
      OBVIOUS
    <3>2. H = [i \in 0 .. n + 1 |-> H[i]]
      OBVIOUS
    <3> HIDE DEF H
    <3> QED BY <2>2, <3>1, <3>2 DEF StepsTo
  <2> QED BY <2>3, <1>3
<1>4. N \in G
  <2> HIDE DEF G
  <2>1. \A n \in 0 .. N : n \in G
    BY <1>1, <1>2, <1>3, UpTo
  <2> QED BY <2>1, <1>1
<1>5. PICK F : StepsTo(list, S, N, F)
  BY <1>4
<1> QED BY <1>5 DEF Steps, StepsTo

\* What Filter returns: a list of entries of the list that are in S, and no longer.
LEMMA FilterFacts ==
    ASSUME NEW T, NEW list \in Seq(T), NEW S
    PROVE  /\ Filter(list, S) \in Seq(T)
           /\ Len(Filter(list, S)) <= Len(list)
           /\ Range(Filter(list, S)) \subseteq Range(list) \cap S
<1> DEFINE F == CHOOSE F : Steps(list, S, F)
           N == Len(list)
           G == {n \in 0 .. N : /\ F[n] \in Seq(T)
                                /\ Len(F[n]) <= n
                                /\ \A i \in 1 .. Len(F[n]) : F[n][i] \in Range(list) \cap S}
<1>1. Filter(list, S) = F[N]
  BY DEF Filter, Steps
<1>2. Steps(list, S, F)
  BY StepsExist
<1> HIDE DEF F
<1>3. \A n \in 0 .. N : F[n] = IF n = 0 THEN << >>
                               ELSE IF list[n] \in S THEN Append(F[n - 1], list[n]) ELSE F[n - 1]
  BY <1>2 DEF Steps
<1>4. N \in Nat
  OBVIOUS
<1>5. 0 \in G
  <2>1. F[0] = << >>
    BY <1>3, <1>4
  <2>2. F[0] \in Seq(T) /\ Len(F[0]) = 0
    BY <2>1
  <2>3. 1 .. 0 = {} /\ 0 <= 0 /\ 0 \in 0 .. N
    BY <1>4
  <2> QED BY <2>2, <2>3
<1>6. ASSUME NEW n \in 0 .. N, n + 1 \in 0 .. N, n \in G
      PROVE  n + 1 \in G
  <2>1. /\ F[n] \in Seq(T) /\ Len(F[n]) <= n
        /\ \A i \in 1 .. Len(F[n]) : F[n][i] \in Range(list) \cap S
    BY <1>6
  <2>2. n + 1 # 0 /\ (n + 1) - 1 = n /\ n + 1 \in 1 .. N
    BY <1>4, <1>6
  <2>3. F[n + 1] = IF list[n + 1] \in S THEN Append(F[n], list[n + 1]) ELSE F[n]
    BY <1>3, <1>6, <2>2
  <2>4. list[n + 1] \in T /\ list[n + 1] \in Range(list)
    BY <2>2 DEF Range
  <2>5. CASE list[n + 1] \in S
    <3>1. F[n + 1] = Append(F[n], list[n + 1])
      BY <2>3, <2>5
    <3>2. F[n + 1] \in Seq(T) /\ Len(F[n + 1]) = Len(F[n]) + 1
      BY <3>1, <2>1, <2>4
    <3>3. \A i \in 1 .. Len(F[n + 1]) : F[n + 1][i] \in Range(list) \cap S
      BY <3>1, <3>2, <2>1, <2>4, <2>5
    <3> QED BY <3>2, <3>3, <2>1, <1>6
  <2>6. CASE list[n + 1] \notin S
    BY <2>6, <2>3, <2>1, <1>6
  <2> QED BY <2>5, <2>6
<1>7. N \in G
  <2> HIDE DEF G
  <2>1. \A n \in 0 .. N : n \in G
    BY <1>4, <1>5, <1>6, UpTo
  <2> QED BY <2>1, <1>4
<1>8. /\ F[N] \in Seq(T) /\ Len(F[N]) <= N
      /\ \A i \in 1 .. Len(F[N]) : F[N][i] \in Range(list) \cap S
  BY <1>7
<1>9. Range(F[N]) \subseteq Range(list) \cap S
  <2>1. DOMAIN F[N] = 1 .. Len(F[N])
    BY <1>8
  <2> QED BY <2>1, <1>8 DEF Range
<1> QED BY <1>1, <1>8, <1>9


\* Entries of vectors that have been added, and heads that have become visible.
Known == {e \in Entries : version[e.vid] # NoVersion}
Placed == {h \in HeadIds : head[h] \in {"visible", "deleted"}}

EntryPcs == {"next", "append", "appendlock", "appended", "reassign", "reassigncheck", "inc"}
Creating == {"center", "put", "addrow"}
SplitPcs == {"cluster", "center", "put", "addrow", "erase", "collect"}
MergePcs == {"merge", "mergelock", "candidate", "mergeother", "merged"}
HeadPcs == {"append", "appendlock", "appended", "split"} \cup SplitPcs \cup MergePcs
Pcs == {"idle"} \cup EntryPcs \cup HeadPcs

\* The records of threads and the jobs, for the heads P and the entries K.
ThreadT(P, K) ==
    [pc : Pcs, head : P \cup {NoHead}, e : K \cup {NoEntry}, sel : Seq(P),
     slack : Nat, reassign : BOOLEAN, ret : {"idle", "append", "next"}, nested : BOOLEAN,
     parts : Seq(Seq(K)), same : 0 .. 2, news : Seq(P), cand : SUBSET P,
     other : HeadIds \cup {NoHead}]

ReassignT(P, K) == [type : {"reassign"}, e : K, prev : P \cup {NoHead}]

JobT(P, K) == [type : {"split", "merge"}, head : P, reassign : BOOLEAN] \cup ReassignT(P, K)

BudgetT == [deletes : Nat, merges : Nat, moves : Nat]

\* What the phase of a thread says about its record.
Shape(r) ==
    /\ r.pc \in HeadPcs => r.head # NoHead
    /\ r.pc \in EntryPcs \/ r.ret # "idle" => r.e # NoEntry
    /\ r.pc \in SplitPcs \cup {"candidate", "mergeother"} => Len(r.parts) = 2
    /\ r.pc = "cluster" => Len(r.news) <= 2
    /\ r.pc \in Creating => Len(r.news) <= 1 /\ r.other \in HeadIds
    /\ r.pc \in {"erase", "collect", "merged"} => Len(r.news) = 2
    /\ r.pc = "center" => ExcludeHead
    /\ r.pc = "mergeother" => r.other \in r.cand
    /\ r.pc = "merged" => Len(r.parts) = 1
    /\ r.pc \in {"candidate", "mergeother"} => Len(r.parts[1]) <= Len(r.parts[2])

StoreT ==
    /\ head \in [HeadIds -> {"free", "added", "visible", "deleted"}]
    /\ translate \in [HeadIds -> Vectors \cup {NoVector}]
    /\ version \in [Vectors -> 0 .. NoVersion]
    /\ db \in [HeadIds -> Seq(Known)]
    /\ sizes \in [HeadIds -> Nat]
    /\ rows \in Nat

RestT ==
    /\ rwLocks \in [0 .. Stripes - 1 -> Threads \cup {NoThread}]
    /\ mergeLock \in Threads \cup {NoThread}
    /\ splitList \subseteq HeadIds
    /\ mergeList \subseteq HeadIds
    /\ jobs \in Seq(JobT(Placed, Known))
    /\ budget \in BudgetT

ThreadsT == th \in [Threads -> ThreadT(Placed, Known)] /\ \A t \in Threads : Shape(th[t])

\* Heads are numbered in the order of their creation.
Numbered == \E n \in 0 .. MaxHeads : \A h \in HeadIds : head[h] = "free" <=> h >= n

HeadVectors ==
    \A h \in HeadIds :
        /\ translate[h] # NoVector => version[translate[h]] # NoVersion
        /\ ExcludeHead /\ head[h] # "free" => translate[h] \in Vectors

\* Each head that is being made is made by one thread.
Pending ==
    \A t \in Threads :
        th[t].pc \in Creating =>
            /\ head[th[t].other] = "added"
            /\ \A u \in Threads \ {t} : th[u].pc \in Creating => th[u].other # th[t].other

TInv == StoreT /\ RestT /\ ThreadsT /\ Numbered /\ HeadVectors /\ Pending

-----------------------------------------------------------------------------
(***************************************************************************)
(* Types and heads.                                                        *)
(***************************************************************************)
LEMMA SeqMono ==
    ASSUME NEW A, NEW B, A \subseteq B
    PROVE  Seq(A) \subseteq Seq(B)
OBVIOUS

LEMMA SetsGrow ==
    ASSUME NEW P, NEW K, NEW Q, NEW L, P \subseteq Q, K \subseteq L
    PROVE  /\ ThreadT(P, K) \subseteq ThreadT(Q, L)
           /\ Seq(JobT(P, K)) \subseteq Seq(JobT(Q, L))
           /\ Seq(K) \subseteq Seq(L)
<1>1. Seq(K) \subseteq Seq(L) /\ Seq(P) \subseteq Seq(Q)
  BY SeqMono
<1>2. Seq(Seq(K)) \subseteq Seq(Seq(L))
  BY <1>1, SeqMono
<1>3. JobT(P, K) \subseteq JobT(Q, L)
  BY DEF JobT, ReassignT
<1>4. ThreadT(P, K) \subseteq ThreadT(Q, L)
  BY <1>1, <1>2 DEF ThreadT
<1> QED BY <1>1, <1>3, <1>4, SeqMono

\* A head may be deleted; no head is made.
HeadsKept ==
    /\ head' \in [HeadIds -> {"free", "added", "visible", "deleted"}]
    /\ Placed' = Placed
    /\ \A h \in HeadIds : /\ head'[h] = "free" <=> head[h] = "free"
                          /\ head[h] = "added" => head'[h] = "added"

LEMMA HeadUnchanged ==
    ASSUME TInv, UNCHANGED head
    PROVE  HeadsKept
BY DEF TInv, StoreT, HeadsKept, Placed

LEMMA HeadDeleted ==
    ASSUME TInv, NEW h \in Placed, head' = [head EXCEPT ![h] = "deleted"]
    PROVE  HeadsKept
<1>1. h \in HeadIds /\ head[h] \in {"visible", "deleted"}
  BY DEF Placed
<1>2. \A k \in HeadIds : head'[k] = IF k = h THEN "deleted" ELSE head[k]
  BY <1>1 DEF TInv, StoreT
<1> QED BY <1>1, <1>2 DEF TInv, StoreT, HeadsKept, Placed

\* The step of one thread that makes no head and changes no version.
LEMMA CalmStep ==
    ASSUME TInv, HeadsKept, UNCHANGED <<translate, version>>,
           db' \in [HeadIds -> Seq(Known)], sizes' \in [HeadIds -> Nat], rows' \in Nat,
           RestT', NEW t \in Threads, NEW r \in ThreadT(Placed, Known), Shape(r),
           th' = [th EXCEPT ![t] = r],
           r.pc \in Creating => th[t].pc \in Creating /\ r.other = th[t].other
    PROVE  TInv'
<1>1. Known' = Known /\ Placed' = Placed
  BY DEF Known, HeadsKept
<1>2. StoreT'
  BY <1>1 DEF StoreT, TInv, HeadsKept
<1>3. \A u \in Threads : th'[u] = IF u = t THEN r ELSE th[u]
  BY DEF TInv, ThreadsT
<1>4. ThreadsT'
  BY <1>1, <1>3 DEF ThreadsT, TInv
<1>5. Numbered'
  BY DEF Numbered, TInv, HeadsKept
<1>6. HeadVectors'
  BY DEF HeadVectors, TInv, HeadsKept
<1>7. Pending'
  <2> SUFFICES ASSUME NEW u \in Threads, th'[u].pc \in Creating
               PROVE  /\ head'[th'[u].other] = "added"
                      /\ \A v \in Threads \ {u} :
                            th'[v].pc \in Creating => th'[v].other # th'[u].other
    BY DEF Pending
  <2>1. \A v \in Threads : th'[v].pc \in Creating =>
                              th[v].pc \in Creating /\ th'[v].other = th[v].other
    BY <1>3
  <2>2. head[th[u].other] = "added" /\ th[u].other \in HeadIds
    BY <2>1 DEF TInv, Pending, ThreadsT, Shape
  <2>3. head'[th'[u].other] = "added"
    BY <2>1, <2>2 DEF HeadsKept
  <2> QED BY <2>1, <2>3 DEF TInv, Pending
<1> QED BY <1>2, <1>4, <1>5, <1>6, <1>7 DEF TInv

\* The step of one thread that gives a vector another version.
LEMMA VersionStep ==
    ASSUME TInv, UNCHANGED <<head, translate, db, sizes, rows, locks, lists, jobs>>,
           budget' \in BudgetT, version' \in [Vectors -> 0 .. NoVersion],
           \A v \in Vectors : version[v] # NoVersion => version'[v] # NoVersion,
           NEW t \in Threads, NEW r, r \in ThreadT(Placed, Known'), Shape(r),
           th' = [th EXCEPT ![t] = r],
           r.pc \in Creating => th[t].pc \in Creating /\ r.other = th[t].other
    PROVE  TInv'
<1>1. Placed' = Placed
  BY DEF Placed
<1>2. Known \subseteq Known'
  BY DEF Known, Entries
<1>3. /\ ThreadT(Placed, Known) \subseteq ThreadT(Placed, Known')
      /\ Seq(JobT(Placed, Known)) \subseteq Seq(JobT(Placed, Known'))
      /\ Seq(Known) \subseteq Seq(Known')
  BY <1>2, SetsGrow
<1>4. StoreT'
  BY <1>3 DEF StoreT, TInv
<1>5. RestT'
  BY <1>1, <1>3 DEF RestT, TInv, locks, lists
<1>6. \A u \in Threads : th'[u] = IF u = t THEN r ELSE th[u]
  BY DEF TInv, ThreadsT
<1>7. ThreadsT'
  BY <1>1, <1>3, <1>6 DEF ThreadsT, TInv
<1>8. Numbered'
  BY DEF Numbered, TInv
<1>9. HeadVectors'
  BY DEF HeadVectors, TInv, StoreT
<1>10. Pending'
  <2>1. \A v \in Threads : th'[v].pc \in Creating =>
                              th[v].pc \in Creating /\ th'[v].other = th[v].other
    BY <1>6
  <2> QED BY <2>1 DEF TInv, Pending
<1> QED BY <1>4, <1>5, <1>7, <1>8, <1>9, <1>10 DEF TInv

LEMMA IdleOK ==
    ASSUME NEW P, NEW K
    PROVE  IdleThread \in ThreadT(P, K) /\ Shape(IdleThread) /\ IdleThread.pc = "idle"
BY DEF IdleThread, ThreadT, Shape, Pcs, EntryPcs, HeadPcs, SplitPcs, MergePcs, Creating

\* The new record of a thread in a step that touches neither versions nor lists in the store.
LEMMA LocalStep ==
    ASSUME TInv, UNCHANGED store, RestT', NEW t \in Threads,
           NEW r \in ThreadT(Placed, Known), Shape(r), th' = [th EXCEPT ![t] = r],
           r.pc \notin Creating
    PROVE  TInv'
<1>1. HeadsKept
  BY HeadUnchanged DEF store
<1>2. UNCHANGED <<translate, version>> /\ db' \in [HeadIds -> Seq(Known)]
      /\ sizes' \in [HeadIds -> Nat] /\ rows' \in Nat
  BY DEF store, TInv, StoreT
<1> QED BY <1>1, <1>2, CalmStep

\* RestT is about variables and two sets that such a step leaves alone.
LEMMA RestUnchanged ==
    ASSUME TInv, UNCHANGED <<head, version>>
    PROVE  Placed' = Placed /\ Known' = Known
BY DEF Placed, Known

LEMMA RestKept ==
    ASSUME TInv, UNCHANGED <<head, version>>, UNCHANGED <<locks, lists, jobs, ghosts>>
    PROVE  RestT'
BY RestUnchanged DEF TInv, RestT, locks, lists, ghosts

\* A thread that only goes on to another phase.
LEMMA GotoStep ==
    ASSUME TInv, UNCHANGED store, RestT', NEW t \in Threads,
           NEW p \in Pcs, p \notin Creating, Goto(t, p), Shape([th[t] EXCEPT !.pc = p])
    PROVE  TInv'
<1> DEFINE r == [th[t] EXCEPT !.pc = p]
<1>1. th[t] \in ThreadT(Placed, Known)
  BY DEF TInv, ThreadsT
<1>2. r \in ThreadT(Placed, Known) /\ r.pc = p
  BY <1>1 DEF ThreadT
<1>3. th' = [th EXCEPT ![t] = r]
  BY DEF Goto
<1> QED BY <1>2, <1>3, LocalStep

LEMMA JobsOK ==
    /\ \A h \in Placed : SplitJob(h) \in JobT(Placed, Known)
    /\ \A h \in Placed, d \in BOOLEAN : MergeJob(h, d) \in JobT(Placed, Known)
    /\ \A e \in Known, h \in Placed \cup {NoHead} : ReassignJob(e, h) \in ReassignT(Placed, Known)
    /\ ReassignT(Placed, Known) \subseteq JobT(Placed, Known)
BY DEF SplitJob, MergeJob, ReassignJob, JobT, ReassignT

LEMMA HeadOfThread ==
    ASSUME TInv, NEW t \in Threads, th[t].pc \in HeadPcs
    PROVE  th[t].head \in Placed /\ th[t].head \in HeadIds
BY DEF TInv, ThreadsT, ThreadT, Shape, Placed

LEMMA EntryOfThread ==
    ASSUME TInv, NEW t \in Threads, th[t].pc \in EntryPcs
    PROVE  th[t].e \in Known
BY DEF TInv, ThreadsT, ThreadT, Shape

LEMMA SplitCalled ==
    ASSUME NEW P, NEW K, NEW r \in ThreadT(P, K), NEW b \in BOOLEAN, NEW d \in BOOLEAN,
           NEW p \in {"append", "next"}
    PROVE  [r EXCEPT !.pc = "split", !.nested = b, !.ret = p, !.reassign = d] \in ThreadT(P, K)
BY DEF ThreadT, Pcs, HeadPcs

LEMMA SelectionType ==
    ASSUME NEW k, NEW s \in RNGSelection(k)
    PROVE  s \in Seq(Placed)
<1>1. PICK n \in 1 .. ReplicaCount : s \in [1 .. n -> Visible \ {k}]
  BY DEF RNGSelection
<1>2. n \in Nat
  BY Configuration
<1>3. \A i \in 1 .. n : s[i] \in Placed
  BY <1>1 DEF Visible, Placed
<1>4. s \in [1 .. n -> Placed]
  BY <1>1, <1>3
<1> QED BY <1>2, <1>4

-----------------------------------------------------------------------------
LEMMA AppendTypes ==
    ASSUME TInv, NEW t \in Threads, AppendStep(t)
    PROVE  TInv'
<1> DEFINE R == ThreadT(Placed, Known)
<1>0. /\ th[t] \in R /\ Shape(th[t]) /\ IdleThread \in R /\ Shape(IdleThread)
      /\ IdleThread.pc \notin Creating
  BY IdleOK DEF TInv, ThreadsT, Creating
<1>n. CASE NextReplica(t)
  <2>1. UNCHANGED store /\ RestT'
    BY <1>n, RestKept DEF NextReplica, store
  <2>2. CASE Finish(t)
    BY <1>0, <2>1, <2>2, LocalStep DEF Finish
  <2>3. CASE /\ th[t].sel # << >>
             /\ th' = [th EXCEPT ![t].pc = "append", ![t].head = Head(th[t].sel), ![t].sel = Tail(@)]
    <3> DEFINE r == [th[t] EXCEPT !.pc = "append", !.head = Head(th[t].sel), !.sel = Tail(@)]
    <3>1. th' = [th EXCEPT ![t] = r]
      BY <2>3
    <3>2. Head(th[t].sel) \in Placed /\ Tail(th[t].sel) \in Seq(Placed)
      BY <1>0, <2>3 DEF ThreadT
    <3>3. r \in R
      BY <1>0, <3>2 DEF ThreadT, Pcs, EntryPcs
    <3>4. Shape(r) /\ r.pc \notin Creating
      BY <1>0, <3>2, <1>n DEF ThreadT, Shape, Creating, NextReplica, EntryPcs, HeadPcs, SplitPcs, MergePcs, NoHead, Placed, HeadIds
    <3> QED BY <3>1, <3>3, <3>4, <2>1, LocalStep
  <2> QED BY <1>n, <2>2, <2>3 DEF NextReplica
<1>h. CASE AppendHeadMiss(t)
  <2>1. th[t].head \in Placed /\ th[t].e \in Known
    BY <1>h, HeadOfThread, EntryOfThread DEF AppendHeadMiss, HeadPcs, EntryPcs
  <2>2. jobs' \in Seq(JobT(Placed, Known))
    <3>1. ReassignJob(th[t].e, th[t].head) \in JobT(Placed, Known)
      BY <2>1, JobsOK
    <3>2. jobs \in Seq(JobT(Placed, Known))
      BY DEF TInv, RestT
    <3> QED BY <1>h, <3>1, <3>2 DEF AppendHeadMiss
  <2>3. UNCHANGED store /\ RestT'
    BY <1>h, <2>2, RestUnchanged DEF AppendHeadMiss, store, TInv, RestT, locks, lists, ghosts
  <2>4. Shape([th[t] EXCEPT !.pc = "next"])
    BY <1>h, <1>0 DEF AppendHeadMiss, Shape, ThreadT, HeadPcs, EntryPcs, SplitPcs, MergePcs, Creating
  <2> QED BY <1>h, <2>3, <2>4, GotoStep DEF AppendHeadMiss, Pcs, EntryPcs, Creating
<1>c. CASE AppendCheck(t)
  <2>1. UNCHANGED store /\ RestT'
    BY <1>c, RestKept DEF AppendCheck, store
  <2>2. Shape([th[t] EXCEPT !.pc = "appendlock"])
    BY <1>c, <1>0 DEF AppendCheck, Shape, ThreadT, HeadPcs, EntryPcs, SplitPcs, MergePcs, Creating
  <2> QED BY <1>c, <2>1, <2>2, GotoStep DEF AppendCheck, Pcs, EntryPcs, Creating
<1>r. CASE AppendRecheck(t)
  <2>1. UNCHANGED store /\ RestT'
    BY <1>r, RestKept DEF AppendRecheck, store
  <2>2. Shape([th[t] EXCEPT !.pc = "append"])
    BY <1>r, <1>0 DEF AppendRecheck, Shape, ThreadT, HeadPcs, EntryPcs, SplitPcs, MergePcs, Creating
  <2> QED BY <1>r, <2>1, <2>2, GotoStep DEF AppendRecheck, Pcs, EntryPcs, Creating
<1>f. CASE AppendFull(t)
  <2> DEFINE r == [th[t] EXCEPT !.pc = "split", !.nested = TRUE, !.ret = "append",
                                !.reassign = ~DisableReassign]
  <2>1. rwLocks' \in [0 .. Stripes - 1 -> Threads \cup {NoThread}]
    BY <1>f DEF AppendFull, TInv, RestT
  <2>2. UNCHANGED store /\ RestT'
    BY <1>f, <2>1, RestUnchanged DEF AppendFull, store, TInv, RestT, lists, ghosts
  <2>3. th' = [th EXCEPT ![t] = r]
    BY <1>f DEF AppendFull
  <2>4. r \in R
    BY <1>0 DEF ThreadT, Pcs, HeadPcs
  <2>5. Shape(r) /\ r.pc \notin Creating
    BY <1>f, <1>0 DEF AppendFull, Shape, ThreadT, HeadPcs, EntryPcs, SplitPcs, MergePcs, Creating
  <2> QED BY <2>2, <2>3, <2>4, <2>5, LocalStep
<1>m. CASE AppendMerge(t)
  <2> DEFINE r == [th[t] EXCEPT !.pc = "appended"]
             h == th[t].head
  <2>1. h \in HeadIds /\ th[t].e \in Known
    BY <1>m, HeadOfThread, EntryOfThread DEF AppendMerge, HeadPcs, EntryPcs
  <2>2. db' \in [HeadIds -> Seq(Known)] /\ sizes' \in [HeadIds -> Nat]
    <3>1. db' = [db EXCEPT ![h] = Append(db[h], th[t].e)] /\ sizes' = [sizes EXCEPT ![h] = sizes[h] + 1]
      BY <1>m DEF AppendMerge
    <3>2. db \in [HeadIds -> Seq(Known)] /\ sizes \in [HeadIds -> Nat]
      BY DEF TInv, StoreT
    <3> HIDE DEF h
    <3>3. Append(db[h], th[t].e) \in Seq(Known) /\ sizes[h] + 1 \in Nat
      BY <3>2, <2>1
    <3> QED BY <3>1, <3>2, <3>3
  <2>3. RestT' /\ HeadsKept /\ UNCHANGED <<translate, version>> /\ rows' \in Nat
    BY <1>m, RestKept, HeadUnchanged DEF AppendMerge, TInv, StoreT
  <2>4. th' = [th EXCEPT ![t] = r]
    BY <1>m DEF AppendMerge, Goto
  <2>5. r \in R /\ r.pc \notin Creating
    BY <1>0 DEF ThreadT, Pcs, EntryPcs, Creating
  <2>6. Shape(r)
    BY <1>m, <1>0 DEF AppendMerge, Shape, ThreadT, HeadPcs, EntryPcs, SplitPcs, MergePcs, Creating
  <2> HIDE DEF r
  <2> QED BY <2>2, <2>3, <2>4, <2>5, <2>6, CalmStep
<1>x. CASE AppendFails(t)
  <2>1. UNCHANGED store /\ RestT'
    BY <1>x, RestKept DEF AppendFails, store
  <2> QED BY <1>x, <1>0, <2>1, LocalStep DEF AppendFails, Finish
<1>e. CASE AppendEnd(t)
  <2>0. th[t].pc = "appended" /\ UNCHANGED store /\ UNCHANGED <<locks, mergeList, ghosts>>
    BY <1>e DEF AppendEnd
  <2>1. th[t].head \in Placed /\ th[t].head \in HeadIds
    BY <2>0, HeadOfThread DEF HeadPcs
  <2>2. Shape([th[t] EXCEPT !.pc = "next"])
    BY <2>0, <1>0 DEF Shape, ThreadT, HeadPcs, EntryPcs, SplitPcs, MergePcs, Creating
  <2>3. CASE UNCHANGED <<splitList, jobs>>
    <3>1. RestT'
      BY <2>0, <2>3, RestKept DEF store, lists
    <3>2. CASE Goto(t, "next")
      BY <2>0, <2>2, <3>1, <3>2, GotoStep DEF Pcs, EntryPcs, Creating
    <3>3. CASE th' = [th EXCEPT ![t].pc = "split", ![t].nested = FALSE, ![t].ret = "next",
                                ![t].reassign = ~DisableReassign]
      <4> DEFINE r == [th[t] EXCEPT !.pc = "split", !.nested = FALSE, !.ret = "next",
                                    !.reassign = ~DisableReassign]
      <4>1. th' = [th EXCEPT ![t] = r]
        BY <3>3
      <4>2. r \in R
        BY <1>0, SplitCalled
      <4>3. Shape(r) /\ r.pc \notin Creating
        BY <2>0, <1>0 DEF Shape, ThreadT, HeadPcs, EntryPcs, SplitPcs, MergePcs, Creating
      <4> QED BY <2>0, <3>1, <4>1, <4>2, <4>3, LocalStep
    <3> QED BY <1>e, <3>2, <3>3 DEF AppendEnd
  <2>4. CASE /\ splitList' = splitList \cup {th[t].head} /\ jobs' = Append(jobs, SplitJob(th[t].head))
             /\ Goto(t, "next")
    <3>1. SplitJob(th[t].head) \in JobT(Placed, Known) /\ jobs \in Seq(JobT(Placed, Known))
      BY <2>1, JobsOK DEF TInv, RestT
    <3>2. jobs' \in Seq(JobT(Placed, Known))
      BY <2>4, <3>1
    <3>3. RestT'
      BY <2>0, <2>1, <2>4, <3>2, RestUnchanged DEF store, TInv, RestT, locks, ghosts
    <3> QED BY <2>0, <2>2, <2>4, <3>3, GotoStep DEF Pcs, EntryPcs, Creating
  <2> QED BY <1>e, <2>3, <2>4 DEF AppendEnd
<1> QED BY <1>n, <1>h, <1>c, <1>r, <1>f, <1>m, <1>x, <1>e DEF AppendStep

-----------------------------------------------------------------------------
LEMMA ReleasedType ==
    ASSUME TInv, NEW t \in Threads
    PROVE  Released(t) \in [0 .. Stripes - 1 -> Threads \cup {NoThread}]
BY DEF Released, TInv, RestT

LEMMA ClusterRecord ==
    ASSUME NEW P, NEW K, NEW r \in ThreadT(P, K), NEW p \in Seq(Seq(K)), NEW n \in Seq(P),
           NEW z \in 0 .. 2
    PROVE  [r EXCEPT !.pc = "cluster", !.same = z, !.news = n, !.parts = p] \in ThreadT(P, K)
BY DEF ThreadT, Pcs, HeadPcs, SplitPcs

LEMMA ReturnRecord ==
    ASSUME NEW P, NEW K, NEW r \in ThreadT(P, K), NEW p \in Seq(Seq(K)), NEW n \in Seq(P),
           NEW z \in 0 .. 2, NEW q \in {"append", "next"}
    PROVE  [r EXCEPT !.pc = q, !.ret = "idle", !.nested = FALSE, !.reassign = FALSE, !.parts = p,
                     !.same = z, !.news = n, !.other = NoHead] \in ThreadT(P, K)
BY DEF ThreadT, Pcs, EntryPcs

\* Where Split leaves its thread.
LEMMA SplitReturned ==
    ASSUME TInv, NEW t \in Threads, th[t].pc \in HeadPcs, SplitReturn(t)
    PROVE  /\ rwLocks' \in [0 .. Stripes - 1 -> Threads \cup {NoThread}]
           /\ \E r \in ThreadT(Placed, Known) :
                 Shape(r) /\ r.pc \notin Creating /\ th' = [th EXCEPT ![t] = r]
<1>1. rwLocks' \in [0 .. Stripes - 1 -> Threads \cup {NoThread}]
  BY ReleasedType DEF SplitReturn
<1>2. th[t] \in ThreadT(Placed, Known) /\ Shape(th[t])
  BY DEF TInv, ThreadsT
<1>3. CASE th[t].ret = "idle"
  <2>1. th' = [th EXCEPT ![t] = IdleThread]
    BY <1>3 DEF SplitReturn
  <2> QED BY <1>1, <2>1, IdleOK DEF Creating
<1>4. CASE th[t].ret # "idle"
  <2> DEFINE r == [th[t] EXCEPT !.pc = th[t].ret, !.ret = "idle", !.nested = FALSE,
                                !.reassign = FALSE, !.parts = << >>, !.same = 0,
                                !.news = << >>, !.other = NoHead]
  <2>1. th' = [th EXCEPT ![t] = r]
    BY <1>4 DEF SplitReturn
  <2>2. th[t].ret \in {"append", "next"} /\ r.pc = th[t].ret
    BY <1>2, <1>4 DEF ThreadT
  <2>3. r \in ThreadT(Placed, Known)
    <3>1. << >> \in Seq(Placed) /\ << >> \in Seq(Seq(Known)) /\ 0 \in 0 .. 2
      OBVIOUS
    <3> QED BY <1>2, <2>2, <3>1, ReturnRecord
  <2>4. r.head = th[t].head /\ r.e = th[t].e /\ r.ret = "idle"
    BY <1>2 DEF ThreadT
  <2>5. th[t].head # NoHead /\ th[t].e # NoEntry
    BY <1>2, <1>4 DEF Shape
  <2> HIDE DEF r
  <2>6. Shape(r) /\ r.pc \notin Creating
    BY <2>2, <2>4, <2>5 DEF Shape, EntryPcs, SplitPcs, Creating
  <2> QED BY <1>1, <2>1, <2>3, <2>6
<1> QED BY <1>3, <1>4

\* Live keeps entries of its list only.
LEMMA LiveFacts ==
    ASSUME NEW K, NEW list \in Seq(K)
    PROVE  Live(list) \in Seq(K) /\ Len(Live(list)) <= Len(list) /\ Len(Live(list)) \in Nat
<1>1. Live(list) \in Seq(K) /\ Len(Live(list)) <= Len(list)
  BY FilterFacts DEF Live
<1> QED BY <1>1

\* A split that ends at once, with a new list for its head or without.
LEMMA SplitEndsWith ==
    ASSUME TInv, NEW t \in Threads, th[t].pc \in HeadPcs, SplitReturn(t), HeadsKept,
           UNCHANGED <<translate, version, rows, mergeLock, mergeList>>,
           splitList' \subseteq HeadIds, jobs' \in Seq(JobT(Placed, Known)), budget' \in BudgetT,
           db' \in [HeadIds -> Seq(Known)], sizes' \in [HeadIds -> Nat]
    PROVE  TInv'
<1>1. PICK r \in ThreadT(Placed, Known) :
         Shape(r) /\ r.pc \notin Creating /\ th' = [th EXCEPT ![t] = r]
  BY SplitReturned
<1>2. Placed' = Placed /\ Known' = Known
  BY DEF HeadsKept, Known
<1>3. RestT'
  BY <1>2, SplitReturned DEF TInv, RestT
<1>4. rows' \in Nat
  BY DEF TInv, StoreT
<1> QED BY <1>1, <1>3, <1>4, CalmStep

LEMMA SplitEnds ==
    ASSUME TInv, NEW t \in Threads, th[t].pc \in HeadPcs, SplitReturn(t), HeadsKept,
           UNCHANGED <<translate, version, rows, mergeLock, mergeList, jobs, budget>>,
           splitList' \subseteq HeadIds,
           db' \in [HeadIds -> Seq(Known)], sizes' \in [HeadIds -> Nat]
    PROVE  TInv'
<1>1. jobs' \in Seq(JobT(Placed, Known)) /\ budget' \in BudgetT
  BY DEF TInv, RestT
<1> QED BY <1>1, SplitEndsWith

LEMMA ListWritten ==
    ASSUME TInv, NEW h \in HeadIds, NEW list \in Seq(Known),
           db' = [db EXCEPT ![h] = list], sizes' = [sizes EXCEPT ![h] = Len(list)]
    PROVE  db' \in [HeadIds -> Seq(Known)] /\ sizes' \in [HeadIds -> Nat]
<1>1. Len(list) \in Nat
  OBVIOUS
<1> QED BY <1>1 DEF TInv, StoreT

LEMMA SplitEntryTypes ==
    ASSUME TInv, NEW t \in Threads,
           \/ SplitMissing(t) \/ SplitFails(t) \/ SplitCollectGarbage(t) \/ SplitOneCluster(t)
           \/ SplitClusters(t)
    PROVE  TInv'
<1> DEFINE h == th[t].head
           live == Live(db[h])
<1>0. th[t].pc = "split"
  BY DEF SplitMissing, SplitFails, SplitCollectGarbage, SplitOneCluster, SplitClusters, MayEnterSplit
<1>1. th[t].pc \in HeadPcs /\ h \in HeadIds /\ db[h] \in Seq(Known)
  BY <1>0, HeadOfThread DEF HeadPcs, TInv, StoreT
<1>2. live \in Seq(Known) /\ Len(live) \in Nat
  BY <1>1, LiveFacts
<1>3. splitList \ {h} \subseteq HeadIds /\ splitList \subseteq HeadIds
  BY DEF TInv, RestT
<1>m. CASE SplitMissing(t) \/ SplitFails(t)
  <2>1. UNCHANGED store /\ SplitReturn(t) /\ UNCHANGED <<mergeLock, lists, jobs, ghosts>>
    BY <1>m DEF SplitMissing, SplitFails
  <2>2. HeadsKept
    BY <2>1, HeadUnchanged DEF store
  <2>3. db' \in [HeadIds -> Seq(Known)] /\ sizes' \in [HeadIds -> Nat]
    BY <2>1 DEF store, TInv, StoreT
  <2> QED BY <1>1, <1>3, <2>1, <2>2, <2>3, SplitEnds DEF store, lists, ghosts
<1>g. CASE SplitCollectGarbage(t)
  <2>1. db' = [db EXCEPT ![h] = live] /\ sizes' = [sizes EXCEPT ![h] = Len(live)]
    BY <1>g DEF SplitCollectGarbage
  <2> HIDE DEF live
  <2>2. db' \in [HeadIds -> Seq(Known)] /\ sizes' \in [HeadIds -> Nat]
    BY <1>1, <1>2, <2>1, ListWritten
  <2>3. HeadsKept
    BY <1>g, HeadUnchanged DEF SplitCollectGarbage
  <2> QED BY <1>g, <1>1, <1>3, <2>2, <2>3, SplitEnds DEF SplitCollectGarbage, ghosts
<1>o. CASE SplitOneCluster(t)
  <2> DEFINE cut == IF OneClusterCutMax THEN PostingSizeLimit ELSE 1
  <2>1. PICK s \in [1 .. cut -> DOMAIN live] : db' = [db EXCEPT ![h] = [i \in 1 .. cut |-> live[s[i]]]]
    BY <1>o DEF SplitOneCluster
  <2>2. sizes' = [sizes EXCEPT ![h] = cut]
    BY <1>o DEF SplitOneCluster
  <2>3. cut \in Nat
    BY Configuration
  <2> DEFINE list == [i \in 1 .. cut |-> live[s[i]]]
  <2>4. list \in Seq(Known) /\ Len(list) = cut
    <3> HIDE DEF live, cut
    <3>1. \A i \in 1 .. cut : live[s[i]] \in Known
      BY <1>2
    <3> QED BY <3>1, <2>3
  <2>5. db' = [db EXCEPT ![h] = list] /\ sizes' = [sizes EXCEPT ![h] = Len(list)]
    BY <2>1, <2>2, <2>4
  <2> HIDE DEF list
  <2>6. db' \in [HeadIds -> Seq(Known)] /\ sizes' \in [HeadIds -> Nat]
    BY <1>1, <2>4, <2>5, ListWritten
  <2>7. HeadsKept
    BY <1>o, HeadUnchanged DEF SplitOneCluster
  <2> QED BY <1>o, <1>1, <1>3, <2>6, <2>7, SplitEnds DEF SplitOneCluster, ghosts
<1>c. CASE SplitClusters(t)
  <2>1. PICK S \in (SUBSET Range(live)) \ {{}, Range(live)}, same \in 0 .. 2 :
           th' = [th EXCEPT ![t].pc = "cluster", ![t].same = same, ![t].news = << >>,
                            ![t].parts = <<Filter(live, S), Filter(live, Range(live) \ S)>>]
    BY <1>c DEF SplitClusters
  <2> DEFINE p == <<Filter(live, S), Filter(live, Range(live) \ S)>>
             r == [th[t] EXCEPT !.pc = "cluster", !.same = same, !.news = << >>, !.parts = p]
  <2>2. th' = [th EXCEPT ![t] = r]
    BY <2>1
  <2>3. Filter(live, S) \in Seq(Known) /\ Filter(live, Range(live) \ S) \in Seq(Known)
    <3> HIDE DEF live
    <3> QED BY <1>2, FilterFacts
  <2>4. p \in Seq(Seq(Known)) /\ Len(p) = 2
    BY <2>3
  <2>5. th[t] \in ThreadT(Placed, Known) /\ Shape(th[t])
    BY DEF TInv, ThreadsT
  <2> HIDE DEF p, live
  <2>6. r \in ThreadT(Placed, Known) /\ r.pc = "cluster"
    <3>1. << >> \in Seq(Placed)
      OBVIOUS
    <3>2. r \in ThreadT(Placed, Known)
      BY <2>4, <2>5, <3>1, ClusterRecord
    <3> QED BY <2>5, <3>2 DEF ThreadT
  <2>7. Shape(r) /\ r.pc \notin Creating
    BY <1>0, <2>4, <2>5 DEF ThreadT, Shape, EntryPcs, HeadPcs, SplitPcs, Creating
  <2>8. UNCHANGED store
    BY <1>c DEF SplitClusters
  <2>9. rwLocks' \in [0 .. Stripes - 1 -> Threads \cup {NoThread}]
    BY <1>c DEF SplitClusters, TInv, RestT
  <2>10. RestT'
    BY <1>c, <2>8, <2>9, RestUnchanged DEF SplitClusters, TInv, RestT, lists, ghosts, store
  <2> QED BY <2>2, <2>6, <2>7, <2>8, <2>10, LocalStep
<1> QED BY <1>m, <1>g, <1>o, <1>c

-----------------------------------------------------------------------------
LEMMA ImageFinite ==
    ASSUME NEW S, IsFiniteSet(S), NEW f, DOMAIN f = S
    PROVE  IsFiniteSet({f[x] : x \in S})
<1> DEFINE T == {f[x] : x \in S}
           g == [x \in S |-> f[x]]
<1>1. g \in Surjection(S, T)
  BY DEF Surjection
<1> QED BY <1>1, FS_Surjection

LEMMA RangeFinite ==
    ASSUME NEW T, NEW s \in Seq(T)
    PROVE  IsFiniteSet(Range(s))
<1>1. DOMAIN s = 1 .. Len(s) /\ Len(s) \in Nat
  OBVIOUS
<1>2. IsFiniteSet(1 .. Len(s))
  BY <1>1, FS_Interval
<1> QED BY <1>1, <1>2, ImageFinite DEF Range

LEMMA SetToSeqType ==
    ASSUME NEW S, IsFiniteSet(S), NEW T, S \subseteq T
    PROVE  SetToSeq(S) \in Seq(T)
<1>1. Cardinality(S) \in Nat /\ ExistsBijection(1 .. Cardinality(S), S)
  BY FS_CardinalityType
<1>2. \E f \in [1 .. Cardinality(S) -> S] : IsInjective(f)
  BY <1>1 DEF ExistsBijection, Bijection, Injection, IsInjective
<1>3. SetToSeq(S) \in [1 .. Cardinality(S) -> S]
  BY <1>2 DEF SetToSeq
<1> QED BY <1>1, <1>3

LEMMA ReassignsType ==
    ASSUME NEW M, IsFiniteSet(M), \A m \in M : m[1] \in Known /\ m[2] \in Placed
    PROVE  Reassigns(M) \in Seq(ReassignT(Placed, Known))
<1> DEFINE f == [m \in M |-> ReassignJob(m[1], m[2])]
           J == {ReassignJob(m[1], m[2]) : m \in M}
<1>1. {f[m] : m \in M} = J
  OBVIOUS
<1>2. IsFiniteSet(J)
  <2>1. DOMAIN f = M
    OBVIOUS
  <2> HIDE DEF f, J
  <2> QED BY <1>1, <2>1, ImageFinite
<1>3. J \subseteq ReassignT(Placed, Known)
  BY JobsOK
<1> HIDE DEF J
<1>4. SetToSeq(J) \in Seq(ReassignT(Placed, Known))
  BY <1>2, <1>3, SetToSeqType
<1> QED BY <1>4 DEF Reassigns, J

\* The entries of a list, each with the head h.
LEMMA PairsFinite ==
    ASSUME NEW T, NEW s \in Seq(T), NEW h
    PROVE  IsFiniteSet({<<e, h>> : e \in Range(s)})
<1> DEFINE f == [e \in Range(s) |-> <<e, h>>]
<1>1. {f[e] : e \in Range(s)} = {<<e, h>> : e \in Range(s)}
  OBVIOUS
<1>2. IsFiniteSet({f[e] : e \in Range(s)})
  BY RangeFinite, ImageFinite
<1> QED BY <1>1, <1>2

LEMMA HeadVectorJobType ==
    ASSUME TInv, NEW h \in HeadIds
    PROVE  HeadVectorJob(h) \in Seq(ReassignT(Placed, Known))
<1> DEFINE v == translate[h]
<1>1. CASE ExcludeHead /\ v # NoVector /\ ~Deleted(v)
  <2>1. v \in Vectors /\ version[v] # NoVersion /\ version[v] # DeletedVersion /\ version[v] \in 0 .. NoVersion
    BY <1>1 DEF TInv, StoreT, HeadVectors, Deleted
  <2>2. VersionMask \in Nat
    BY Configuration
  <2>3. version[v] \in 0 .. FirstVersion
    BY <2>1, <2>2 DEF NoVersion, FirstVersion, DeletedVersion
  <2>4. Entry(v, version[v]) \in Known
    BY <2>1, <2>3 DEF Entry, Known, Entries
  <2>5. ReassignJob(Entry(v, version[v]), NoHead) \in ReassignT(Placed, Known)
    BY <2>4, JobsOK
  <2>6. HeadVectorJob(h) = <<ReassignJob(Entry(v, version[v]), NoHead)>>
    BY <1>1 DEF HeadVectorJob
  <2> QED BY <2>5, <2>6
<1>2. CASE ~(ExcludeHead /\ v # NoVector /\ ~Deleted(v))
  <2>1. HeadVectorJob(h) = << >>
    BY <1>2 DEF HeadVectorJob
  <2> QED BY <2>1
<1> QED BY <1>1, <1>2

\* Moves are finitely many, and within their budget.
LEMMA MovesFacts ==
    ASSUME TInv, NEW C, IsFiniteSet(C), NEW M \in Moves(C)
    PROVE  /\ IsFiniteSet(M) /\ M \subseteq C
           /\ [budget EXCEPT !.moves = @ - Cardinality(M)] \in BudgetT
<1>1. M \subseteq C /\ Cardinality(M) <= budget.moves
  BY DEF Moves
<1>2. IsFiniteSet(M)
  BY <1>1, FS_Subset
<1>3. Cardinality(M) \in Nat
  BY <1>2, FS_CardinalityType
<1>4. budget \in BudgetT
  BY DEF TInv, RestT
<1>5. budget.moves \in Nat /\ budget.moves - Cardinality(M) \in Nat
  BY <1>1, <1>3, <1>4 DEF BudgetT
<1> QED BY <1>1, <1>2, <1>4, <1>5 DEF BudgetT

\* The part of the list that belongs to the cluster in hand.
LEMMA PartOfThread ==
    ASSUME TInv, NEW t \in Threads, th[t].pc \in SplitPcs
    PROVE  /\ th[t].parts \in Seq(Seq(Known)) /\ Len(th[t].parts) = 2
           /\ Cluster(t) \in Nat /\ Cluster(t) > 0
           /\ Cluster(t) <= 2 => th[t].parts[Cluster(t)] \in Seq(Known)
           /\ th[t].pc \in Creating => Cluster(t) <= 2
<1>1. th[t].parts \in Seq(Seq(Known)) /\ th[t].news \in Seq(Placed)
  BY DEF TInv, ThreadsT, ThreadT
<1>2. Len(th[t].parts) = 2 /\ (th[t].pc \in Creating => Len(th[t].news) <= 1)
  BY DEF TInv, ThreadsT, Shape
<1>3. Cluster(t) = Len(th[t].news) + 1 /\ Len(th[t].news) \in Nat
  BY <1>1 DEF Cluster
<1>4. \A i \in 1 .. 2 : th[t].parts[i] \in Seq(Known)
  BY <1>1, <1>2
<1>5. Cluster(t) \in Nat /\ Cluster(t) > 0 /\ (th[t].pc \in Creating => Cluster(t) <= 2)
  BY <1>2, <1>3
<1>6. Cluster(t) <= 2 => Cluster(t) \in 1 .. 2
  BY <1>5
<1> QED BY <1>1, <1>2, <1>4, <1>5, <1>6

LEMMA SuccessorType ==
    ASSUME NEW n \in 0 .. NoVersion
    PROVE  Successor(n) \in 0 .. FirstVersion /\ Successor(n) # NoVersion /\ Successor(n) # DeletedVersion
<1>1. VersionMask \in Nat /\ VersionMask > 0
  BY Configuration
<1>2. n \in Nat
  BY <1>1 DEF NoVersion, DeletedVersion
<1>3. (n + 1) % (VersionMask + 1) \in 0 .. VersionMask
  BY <1>1, <1>2
<1> QED BY <1>1, <1>3 DEF Successor, NoVersion, FirstVersion, DeletedVersion

\* The next head is a free one.
LEMMA NextHead ==
    ASSUME TInv, NumSamples < MaxHeads
    PROVE  /\ NumSamples \in HeadIds
           /\ \A h \in HeadIds : head[h] = "free" <=> h >= NumSamples
<1>1. PICK n \in 0 .. MaxHeads : \A h \in HeadIds : head[h] = "free" <=> h >= n
  BY DEF TInv, Numbered
<1>2. MaxHeads \in Nat
  BY Configuration
<1>3. {h \in HeadIds : head[h] # "free"} = 0 .. n - 1
  BY <1>1, <1>2 DEF HeadIds
<1>4. Cardinality(0 .. n - 1) = n
  BY <1>2, FS_Interval
<1>5. NumSamples = n
  BY <1>3, <1>4 DEF NumSamples
<1> QED BY <1>1, <1>2, <1>5 DEF HeadIds

LEMMA NewHeadTypes ==
    ASSUME TInv, NEW t \in Threads, SplitNewHead(t)
    PROVE  TInv'
<1> DEFINE n == NumSamples
           p == th[t].parts[Cluster(t)]
<1>0. th[t].pc = "cluster" /\ Cluster(t) <= 2 /\ n < MaxHeads /\ head' = [head EXCEPT ![n] = "added"]
  BY DEF SplitNewHead
<1>1. n \in HeadIds /\ \A h \in HeadIds : head[h] = "free" <=> h >= n
  BY <1>0, NextHead
<1>2. PICK v \in (IF ExcludeHead THEN Vids(p) ELSE {NoVector}) :
         /\ translate' = [translate EXCEPT ![n] = v]
         /\ th' = [th EXCEPT ![t].other = n, ![t].pc = IF ExcludeHead /\ ~Deleted(v) THEN "center" ELSE "put"]
  BY DEF SplitNewHead
<1>3. p \in Seq(Known)
  BY <1>0, PartOfThread DEF SplitPcs
<1>4. ExcludeHead => v \in Vectors /\ version[v] # NoVersion
  <2> SUFFICES ASSUME ExcludeHead PROVE v \in Vectors /\ version[v] # NoVersion
    OBVIOUS
  <2> HIDE DEF p
  <2>1. PICK i \in DOMAIN p : v = p[i].vid
    BY <1>2 DEF Vids
  <2>2. p[i] \in Known
    BY <1>3, <2>1
  <2> QED BY <2>1, <2>2 DEF Known, Entries
<1>5. ~ExcludeHead => v = NoVector
  BY <1>2
<1>6. UNCHANGED <<version, db, sizes, rows, locks, lists, jobs, ghosts>>
  BY DEF SplitNewHead
<1> HIDE DEF p, n
<1>7. \A h \in HeadIds : head'[h] = IF h = n THEN "added" ELSE head[h]
  BY <1>0, <1>1 DEF TInv, StoreT
<1>8. Placed' = Placed /\ Known' = Known
  <2>1. head[n] = "free"
    BY <1>1, Configuration DEF HeadIds
  <2> QED BY <1>6, <1>7, <2>1 DEF Placed, Known
<1>9. StoreT'
  <2>1. head' \in [HeadIds -> {"free", "added", "visible", "deleted"}]
    BY <1>0, <1>1 DEF TInv, StoreT
  <2>2. translate' \in [HeadIds -> Vectors \cup {NoVector}]
    BY <1>2, <1>4, <1>5 DEF TInv, StoreT
  <2> QED BY <1>6, <1>8, <2>1, <2>2 DEF TInv, StoreT
<1>10. RestT'
  BY <1>6, <1>8 DEF TInv, RestT, locks, lists, ghosts
<1> DEFINE q == IF ExcludeHead /\ ~Deleted(v) THEN "center" ELSE "put"
           r == [th[t] EXCEPT !.other = n, !.pc = q]
<1>11. th' = [th EXCEPT ![t] = r]
  BY <1>2
<1>12. th[t] \in ThreadT(Placed, Known) /\ Shape(th[t])
  BY DEF TInv, ThreadsT
<1>13. q \in {"center", "put"} /\ (q = "center" => ExcludeHead)
  OBVIOUS
<1> HIDE DEF q
<1>14. r \in ThreadT(Placed, Known) /\ r.pc = q /\ r.other = n
  BY <1>12, <1>13, <1>1 DEF ThreadT, Pcs, HeadPcs, SplitPcs
<1>15. Shape(r)
  <2>1. Len(th[t].news) <= 1
    <3>1. Len(th[t].news) \in Nat
      BY <1>12 DEF ThreadT
    <3> QED BY <1>0, <3>1 DEF Cluster
  <2>2. r.head = th[t].head /\ r.parts = th[t].parts /\ r.news = th[t].news /\ r.ret = th[t].ret /\ r.e = th[t].e
    BY <1>12 DEF ThreadT
  <2> HIDE DEF r
  <2> QED BY <1>0, <1>1, <1>12, <1>13, <1>14, <2>1, <2>2 DEF Shape, SplitPcs, HeadPcs, EntryPcs, Creating
<1> HIDE DEF r
<1>16. \A u \in Threads : th'[u] = IF u = t THEN r ELSE th[u]
  BY <1>11 DEF TInv, ThreadsT
<1>17. ThreadsT'
  BY <1>8, <1>11, <1>14, <1>15, <1>16 DEF ThreadsT, TInv
<1>18. Numbered'
  <2>1. n + 1 \in 0 .. MaxHeads
    BY <1>0, <1>1, Configuration DEF HeadIds
  <2>2. \A h \in HeadIds : head'[h] = "free" <=> h >= n + 1
    BY <1>1, <1>7, Configuration DEF HeadIds
  <2> QED BY <2>1, <2>2 DEF Numbered
<1>19. HeadVectors'
  <2>1. \A h \in HeadIds : translate'[h] = IF h = n THEN v ELSE translate[h]
    BY <1>1, <1>2 DEF TInv, StoreT
  <2> QED BY <1>4, <1>5, <1>6, <1>7, <2>1 DEF TInv, HeadVectors
<1>20. Pending'
  <2>1. \A u \in Threads : th[u].pc \in Creating => th[u].other \in HeadIds /\ head[th[u].other] = "added" /\ th[u].other # n
    <3>1. head[n] = "free"
      BY <1>1, Configuration DEF HeadIds
    <3> QED BY <3>1 DEF TInv, Pending, ThreadsT, Shape
  <2>2. th[t].pc \notin Creating
    BY <1>0 DEF Creating
  <2> QED BY <1>1, <1>7, <1>14, <1>16, <2>1, <2>2 DEF TInv, Pending
<1> QED BY <1>9, <1>10, <1>17, <1>18, <1>19, <1>20 DEF TInv

LEMMA AddRowTypes ==
    ASSUME TInv, NEW t \in Threads, SplitAddRow(t)
    PROVE  TInv'
<1> DEFINE o == th[t].other
           p == th[t].parts[Cluster(t)]
           r == [th[t] EXCEPT !.pc = "cluster", !.news = Append(th[t].news, o)]
<1>0. /\ th[t].pc = "addrow" /\ rows' = rows + 1
      /\ sizes' = [sizes EXCEPT ![o] = Len(p)] /\ head' = [head EXCEPT ![o] = "visible"]
      /\ UNCHANGED <<translate, version, db, locks, lists, jobs, ghosts>>
  BY DEF SplitAddRow
<1>1. o \in HeadIds /\ head[o] = "added"
  BY <1>0 DEF TInv, ThreadsT, Shape, Creating, Pending
<1>2. p \in Seq(Known) /\ Len(p) \in Nat
  <2>1. p \in Seq(Known)
    BY <1>0, PartOfThread DEF SplitPcs, Creating
  <2> HIDE DEF p
  <2> QED BY <2>1
<1>3. th' = [th EXCEPT ![t] = r]
  BY DEF SplitAddRow
<1>4. th[t] \in ThreadT(Placed, Known) /\ Shape(th[t])
  BY DEF TInv, ThreadsT
<1> HIDE DEF p
<1>5. \A h \in HeadIds : head'[h] = IF h = o THEN "visible" ELSE head[h]
  BY <1>0, <1>1 DEF TInv, StoreT
<1>6. Placed' = Placed \cup {o} /\ Known' = Known
  BY <1>0, <1>1, <1>5 DEF Placed, Known
<1>7. /\ ThreadT(Placed, Known) \subseteq ThreadT(Placed', Known)
      /\ Seq(JobT(Placed, Known)) \subseteq Seq(JobT(Placed', Known))
  <2>1. Placed \subseteq Placed' /\ Known \subseteq Known
    BY <1>6
  <2> HIDE DEF o
  <2> QED BY <2>1, SetsGrow
<1>8. StoreT'
  <2>1. head' \in [HeadIds -> {"free", "added", "visible", "deleted"}]
    BY <1>0, <1>1 DEF TInv, StoreT
  <2>2. sizes' \in [HeadIds -> Nat] /\ rows' \in Nat
    BY <1>0, <1>1, <1>2 DEF TInv, StoreT
  <2> QED BY <1>0, <1>6, <2>1, <2>2 DEF TInv, StoreT
<1>9. RestT'
  BY <1>0, <1>6, <1>7 DEF TInv, RestT, locks, lists, ghosts
<1>10. r \in ThreadT(Placed', Known) /\ r.pc = "cluster"
  <2>1. th[t] \in ThreadT(Placed', Known) /\ o \in Placed'
    BY <1>4, <1>6, <1>7
  <2>2. Append(th[t].news, o) \in Seq(Placed')
    BY <2>1 DEF ThreadT
  <2> QED BY <2>1, <2>2 DEF ThreadT, Pcs, HeadPcs, SplitPcs
<1>11. Shape(r)
  <2>1. th[t].news \in Seq(Placed) /\ Len(th[t].news) <= 1
    BY <1>0, <1>4 DEF ThreadT, Shape, Creating
  <2>2. Len(Append(th[t].news, o)) <= 2
    BY <2>1
  <2>3. /\ r.head = th[t].head /\ r.parts = th[t].parts /\ r.news = Append(th[t].news, o)
        /\ r.ret = th[t].ret /\ r.e = th[t].e
    BY <1>4 DEF ThreadT
  <2> HIDE DEF r
  <2> QED BY <1>0, <1>4, <1>10, <2>2, <2>3 DEF Shape, SplitPcs, HeadPcs, EntryPcs, Creating
<1> HIDE DEF r
<1>12. \A u \in Threads : th'[u] = IF u = t THEN r ELSE th[u]
  BY <1>3 DEF TInv, ThreadsT
<1>13. ThreadsT'
  BY <1>3, <1>6, <1>7, <1>10, <1>11, <1>12 DEF ThreadsT, TInv
<1>14. Numbered'
  BY <1>1, <1>5 DEF TInv, Numbered
<1>15. HeadVectors'
  BY <1>0, <1>1, <1>5 DEF TInv, HeadVectors
<1>16. Pending'
  <2>1. \A u \in Threads \ {t} : th[u].pc \in Creating => th[u].other # o /\ th[u].other \in HeadIds
    BY <1>0 DEF TInv, Pending, ThreadsT, Shape, Creating
  <2>2. r.pc \notin Creating
    BY <1>10 DEF Creating
  <2>3. \A u \in Threads : th'[u].pc \in Creating => u # t /\ th'[u] = th[u] /\ th[u].pc \in Creating
    BY <1>12, <2>2
  <2> HIDE DEF o
  <2> QED BY <1>5, <2>1, <2>3 DEF TInv, Pending
<1> QED BY <1>8, <1>9, <1>13, <1>14, <1>15, <1>16 DEF TInv

LEMMA SplitLaterTypes ==
    ASSUME TInv, NEW t \in Threads,
           \/ SplitSameHead(t) \/ SplitIncVersion(t) \/ SplitPut(t) \/ SplitPutFails(t)
           \/ SplitOldHead(t) \/ SplitDeleteFails(t) \/ SplitErase(t)
    PROVE  TInv'
<1> DEFINE h == th[t].head
           p == th[t].parts[Cluster(t)]
<1>0. th[t].pc \in SplitPcs
  BY DEF SplitSameHead, SplitIncVersion, SplitPut, SplitPutFails, SplitOldHead, SplitDeleteFails,
         SplitErase, SplitPcs
<1>1. th[t].pc \in HeadPcs /\ h \in HeadIds /\ h \in Placed
  BY <1>0, HeadOfThread DEF HeadPcs
<1>2. th[t] \in ThreadT(Placed, Known) /\ Shape(th[t])
  BY DEF TInv, ThreadsT
<1>3. splitList \ {h} \subseteq HeadIds /\ splitList \subseteq HeadIds
  BY DEF TInv, RestT
<1>4. db \in [HeadIds -> Seq(Known)] /\ sizes \in [HeadIds -> Nat] /\ rows \in Nat
  BY DEF TInv, StoreT
<1>s. CASE SplitSameHead(t)
  <2> DEFINE r == [th[t] EXCEPT !.news = Append(th[t].news, h)]
  <2>1. /\ th[t].pc = "cluster" /\ Cluster(t) <= 2
        /\ db' = [db EXCEPT ![h] = p] /\ sizes' = [sizes EXCEPT ![h] = Len(p)]
    BY <1>s DEF SplitSameHead
  <2>2. p \in Seq(Known)
    BY <1>0, <2>1, PartOfThread
  <2>3. th' = [th EXCEPT ![t] = r]
    BY <1>s DEF SplitSameHead
  <2> HIDE DEF p
  <2>4. db' \in [HeadIds -> Seq(Known)] /\ sizes' \in [HeadIds -> Nat]
    BY <1>1, <2>1, <2>2, ListWritten
  <2>5. Append(th[t].news, h) \in Seq(Placed) /\ Len(Append(th[t].news, h)) <= 2
    <3>1. th[t].news \in Seq(Placed)
      BY <1>2 DEF ThreadT
    <3> QED BY <3>1, <1>1, <2>1 DEF Cluster
  <2>6. r \in ThreadT(Placed, Known) /\ r.pc = "cluster"
    BY <1>2, <2>1, <2>5 DEF ThreadT
  <2>7. Shape(r) /\ r.pc \notin Creating
    <3>1. /\ r.head = h /\ r.parts = th[t].parts /\ r.news = Append(th[t].news, h)
          /\ r.ret = th[t].ret /\ r.e = th[t].e
      BY <1>2 DEF ThreadT
    <3> HIDE DEF r
    <3> QED BY <1>1, <1>2, <2>1, <2>5, <2>6, <3>1 DEF Shape, SplitPcs, HeadPcs, EntryPcs, Creating
  <2>8. RestT' /\ HeadsKept /\ UNCHANGED <<translate, version>> /\ rows' \in Nat
    BY <1>s, <1>4, RestKept, HeadUnchanged DEF SplitSameHead
  <2> HIDE DEF r
  <2> QED BY <2>3, <2>4, <2>6, <2>7, <2>8, CalmStep
<1>i. CASE SplitIncVersion(t)
  <2> DEFINE v == translate[th[t].other]
             r == [th[t] EXCEPT !.pc = "put"]
  <2>1. th[t].pc = "center" /\ version' = [version EXCEPT ![v] = Successor(version[v])]
    BY <1>i DEF SplitIncVersion, IncVersion
  <2>2. v \in Vectors
    BY <2>1 DEF TInv, ThreadsT, Shape, Creating, Pending, HeadVectors
  <2>3. Successor(version[v]) \in 0 .. NoVersion /\ Successor(version[v]) # NoVersion
    <3>1. version[v] \in 0 .. NoVersion
      BY <2>2 DEF TInv, StoreT
    <3>2. Successor(version[v]) \in 0 .. FirstVersion /\ Successor(version[v]) # NoVersion
      BY <3>1, SuccessorType
    <3> QED BY <3>2, Configuration DEF FirstVersion, NoVersion, DeletedVersion
  <2>4. /\ version' \in [Vectors -> 0 .. NoVersion]
        /\ \A w \in Vectors : version[w] # NoVersion => version'[w] # NoVersion
    <3> HIDE DEF v
    <3>1. version \in [Vectors -> 0 .. NoVersion]
      BY DEF TInv, StoreT
    <3> QED BY <2>1, <2>2, <2>3, <3>1
  <2>5. th' = [th EXCEPT ![t] = r]
    BY <1>i DEF SplitIncVersion, Goto
  <2>6. Known \subseteq Known'
    BY <2>4 DEF Known, Entries
  <2>7. r \in ThreadT(Placed, Known) /\ r.pc = "put" /\ r.other = th[t].other
    BY <1>2 DEF ThreadT, Pcs, HeadPcs, SplitPcs
  <2>8. r \in ThreadT(Placed, Known')
    BY <2>6, <2>7, SetsGrow
  <2>9. Shape(r)
    BY <2>1, <1>2 DEF ThreadT, Shape, SplitPcs, HeadPcs, EntryPcs, Creating
  <2>10. UNCHANGED <<head, translate, db, sizes, rows, locks, lists, jobs>> /\ budget' \in BudgetT
    BY <1>i DEF SplitIncVersion, ghosts, TInv, RestT
  <2>11. th[t].pc \in Creating
    BY <2>1 DEF Creating
  <2> HIDE DEF r, v
  <2> QED BY <2>4, <2>5, <2>7, <2>8, <2>9, <2>10, <2>11, VersionStep
<1>p. CASE SplitPut(t)
  <2> DEFINE r == [th[t] EXCEPT !.pc = "addrow"]
             o == th[t].other
  <2>1. th[t].pc = "put" /\ db' = [db EXCEPT ![o] = p]
    BY <1>p DEF SplitPut
  <2>2. p \in Seq(Known)
    BY <1>0, <2>1, PartOfThread DEF Creating
  <2> HIDE DEF p
  <2>3. db' \in [HeadIds -> Seq(Known)] /\ sizes' \in [HeadIds -> Nat]
    BY <1>p, <1>4, <2>1, <2>2 DEF SplitPut
  <2>4. th' = [th EXCEPT ![t] = r]
    BY <1>p DEF SplitPut, Goto
  <2>5. r \in ThreadT(Placed, Known) /\ r.pc = "addrow" /\ r.other = th[t].other
    BY <1>2 DEF ThreadT, Pcs, HeadPcs, SplitPcs
  <2>6. Shape(r) /\ th[t].pc \in Creating
    BY <2>1, <1>2 DEF ThreadT, Shape, SplitPcs, HeadPcs, EntryPcs, Creating
  <2>7. RestT' /\ HeadsKept /\ UNCHANGED <<translate, version>> /\ rows' \in Nat
    BY <1>p, <1>4, RestKept, HeadUnchanged DEF SplitPut
  <2> HIDE DEF r, o
  <2> QED BY <2>3, <2>4, <2>5, <2>6, <2>7, CalmStep
<1>f. CASE SplitPutFails(t)
  <2>1. UNCHANGED store /\ SplitReturn(t) /\ UNCHANGED <<mergeLock, lists, jobs, ghosts>>
    BY <1>f DEF SplitPutFails
  <2>2. HeadsKept
    BY <2>1, HeadUnchanged DEF store
  <2>3. db' \in [HeadIds -> Seq(Known)] /\ sizes' \in [HeadIds -> Nat]
    BY <2>1, <1>4 DEF store
  <2> QED BY <1>1, <1>3, <2>1, <2>2, <2>3, SplitEnds DEF store, lists, ghosts
<1>o. CASE SplitOldHead(t)
  <2> DEFINE r == [th[t] EXCEPT !.pc = "erase"]
  <2>1. /\ th[t].pc = "cluster" /\ Cluster(t) = 3
        /\ UNCHANGED <<translate, version, rows, mergeLock, lists, jobs, ghosts>>
    BY <1>o DEF SplitOldHead
  <2>2. HeadsKept
    <3>1. CASE th[t].same = 0
      BY <1>o, <1>1, <3>1, HeadDeleted DEF SplitOldHead, RemoveHead
    <3>2. CASE th[t].same # 0
      BY <1>o, <3>2, HeadUnchanged DEF SplitOldHead
    <3> QED BY <3>1, <3>2
  <2>3. db' \in [HeadIds -> Seq(Known)] /\ sizes' \in [HeadIds -> Nat]
    <3>1. << >> \in Seq(Known) /\ 0 \in Nat
      OBVIOUS
    <3> QED BY <1>o, <1>1, <1>4, <3>1 DEF SplitOldHead, RemoveHead
  <2>4. rwLocks' \in [0 .. Stripes - 1 -> Threads \cup {NoThread}]
    BY <1>o, ReleasedType DEF SplitOldHead, TInv, RestT
  <2>5. RestT'
    <3>1. Placed' = Placed /\ Known' = Known
      BY <2>1, <2>2 DEF HeadsKept, Known
    <3> QED BY <2>1, <2>4, <3>1 DEF TInv, RestT, lists, ghosts
  <2>6. th' = [th EXCEPT ![t] = r]
    BY <1>o DEF SplitOldHead, Goto
  <2>7. r \in ThreadT(Placed, Known) /\ r.pc = "erase"
    BY <1>2 DEF ThreadT, Pcs, HeadPcs, SplitPcs
  <2>8. Shape(r) /\ r.pc \notin Creating
    <3>1. Len(th[t].news) = 2
      <4>1. th[t].news \in Seq(Placed)
        BY <1>2 DEF ThreadT
      <4>2. PICK n \in Nat : n = Len(th[t].news)
        BY <4>1
      <4>3. n + 1 = 3
        BY <2>1, <4>2 DEF Cluster
      <4>4. n = 2
        BY <4>3
      <4> QED BY <4>2, <4>4
    <3> QED BY <2>1, <3>1, <1>2 DEF ThreadT, Shape, SplitPcs, HeadPcs, EntryPcs, Creating
  <2>9. rows' \in Nat
    BY <2>1, <1>4
  <2> HIDE DEF r
  <2> QED BY <2>1, <2>2, <2>3, <2>5, <2>6, <2>7, <2>8, <2>9, CalmStep
<1>d. CASE SplitDeleteFails(t)
  <2>1. HeadsKept
    BY <1>d, <1>1, HeadDeleted DEF SplitDeleteFails, RemoveHead
  <2>2. db' \in [HeadIds -> Seq(Known)] /\ sizes' \in [HeadIds -> Nat]
    BY <1>d, <1>1, <1>4 DEF SplitDeleteFails, RemoveHead
  <2> QED BY <1>d, <1>1, <1>3, <2>1, <2>2, SplitEnds DEF SplitDeleteFails, lists, ghosts
<1>e. CASE SplitErase(t)
  <2>1. /\ th[t].pc = "erase" /\ splitList' = splitList \ {h}
        /\ UNCHANGED <<store, mergeLock, mergeList, jobs, ghosts>>
    BY <1>e DEF SplitErase
  <2>2. CASE SplitReturn(t)
    <3>1. HeadsKept
      BY <2>1, HeadUnchanged DEF store
    <3>2. db' \in [HeadIds -> Seq(Known)] /\ sizes' \in [HeadIds -> Nat]
      BY <2>1, <1>4 DEF store
    <3> QED BY <1>1, <1>3, <2>1, <2>2, <3>1, <3>2, SplitEnds DEF store, ghosts
  <2>3. CASE Goto(t, "collect") /\ UNCHANGED rwLocks
    <3>1. RestT'
      BY <1>3, <2>1, <2>3, RestUnchanged DEF TInv, RestT, store, ghosts
    <3>2. Shape([th[t] EXCEPT !.pc = "collect"])
      BY <2>1, <1>2 DEF ThreadT, Shape, SplitPcs, HeadPcs, EntryPcs, Creating
    <3> QED BY <2>1, <2>3, <3>1, <3>2, GotoStep DEF Pcs, HeadPcs, SplitPcs, Creating
  <2> QED BY <1>e, <2>2, <2>3 DEF SplitErase
<1> QED BY <1>s, <1>i, <1>p, <1>f, <1>o, <1>d, <1>e

\* What CollectReAssign adds to the queue.
LEMMA CollectJobs ==
    ASSUME TInv, NEW t \in Threads, CollectReAssign(t)
    PROVE  /\ \E A, B \in Seq(ReassignT(Placed, Known)) :
                 jobs' = jobs \o A \o B /\ (th[t].same = 0 => A = HeadVectorJob(th[t].head))
           /\ budget' \in BudgetT /\ budget'.merges = budget.merges
<1> DEFINE h == th[t].head
           C(i) == {<<e, th[t].news[i]>> : e \in Range(Live(th[t].parts[i]))}
           D == UNION {C(i) : i \in 1 .. 2}
           J == IF th[t].same = 0 THEN HeadVectorJob(h) ELSE << >>
<1>0. th[t].pc = "collect" /\ SplitReturn(t) /\ UNCHANGED <<store, mergeLock, lists, erased>>
  BY DEF CollectReAssign
<1>1. th[t].pc \in HeadPcs /\ h \in HeadIds
  BY <1>0, HeadOfThread DEF HeadPcs, SplitPcs
<1>2. PICK M \in Moves(D) : /\ jobs' = jobs \o J \o Reassigns(M)
                            /\ budget' = [budget EXCEPT !.moves = @ - Cardinality(M)]
  BY DEF CollectReAssign
<1>3. \A i \in 1 .. 2 : th[t].parts[i] \in Seq(Known) /\ th[t].news[i] \in Placed
  <2>1. /\ th[t].parts \in Seq(Seq(Known)) /\ th[t].news \in Seq(Placed)
        /\ Len(th[t].parts) = 2 /\ Len(th[t].news) = 2
    BY <1>0 DEF TInv, ThreadsT, ThreadT, Shape, SplitPcs
  <2> QED BY <2>1
<1>4. \A i \in 1 .. 2 : IsFiniteSet(C(i)) /\ \A m \in C(i) : m[1] \in Known /\ m[2] \in Placed
  <2> TAKE i \in 1 .. 2
  <2>1. Live(th[t].parts[i]) \in Seq(Known)
    BY <1>3, LiveFacts
  <2>2. Range(Live(th[t].parts[i])) \subseteq Known
    BY <2>1 DEF Range
  <2>3. IsFiniteSet(C(i))
    BY <2>1, PairsFinite
  <2>4. \A m \in C(i) : m[1] \in Known /\ m[2] \in Placed
    BY <1>3, <2>2
  <2> HIDE DEF C
  <2> QED BY <2>3, <2>4
<1>5. D = C(1) \cup C(2)
  OBVIOUS
<1>6. IsFiniteSet(D) /\ \A m \in D : m[1] \in Known /\ m[2] \in Placed
  <2>1. IsFiniteSet(C(1)) /\ IsFiniteSet(C(2)) /\ \A m \in C(1) \cup C(2) : m[1] \in Known /\ m[2] \in Placed
    BY <1>4
  <2> HIDE DEF C, D
  <2> QED BY <1>5, <2>1, FS_Union
<1> HIDE DEF D
<1>7. IsFiniteSet(M) /\ M \subseteq D /\ budget' \in BudgetT
  BY <1>2, <1>6, MovesFacts
<1>8. Reassigns(M) \in Seq(ReassignT(Placed, Known))
  BY <1>6, <1>7, ReassignsType
<1>9. J \in Seq(ReassignT(Placed, Known))
  <2>1. << >> \in Seq(ReassignT(Placed, Known))
    OBVIOUS
  <2> QED BY <1>1, <2>1, HeadVectorJobType
<1>10. budget'.merges = budget.merges
  BY <1>2 DEF TInv, RestT, BudgetT
<1>11. th[t].same = 0 => J = HeadVectorJob(th[t].head)
  OBVIOUS
<1> HIDE DEF J
<1> QED BY <1>2, <1>7, <1>8, <1>9, <1>10, <1>11

LEMMA CollectTypes ==
    ASSUME TInv, NEW t \in Threads, CollectReAssign(t)
    PROVE  TInv'
<1>1. th[t].pc = "collect" /\ SplitReturn(t) /\ UNCHANGED <<store, mergeLock, lists, erased>>
  BY DEF CollectReAssign
<1>2. th[t].pc \in HeadPcs
  BY <1>1 DEF HeadPcs, SplitPcs
<1>3. PICK A, B \in Seq(ReassignT(Placed, Known)) : jobs' = jobs \o A \o B
  BY CollectJobs
<1>4. budget' \in BudgetT
  BY CollectJobs
<1>5. jobs' \in Seq(JobT(Placed, Known))
  <2>1. jobs \in Seq(JobT(Placed, Known))
    BY DEF TInv, RestT
  <2>2. A \in Seq(JobT(Placed, Known)) /\ B \in Seq(JobT(Placed, Known))
    BY JobsOK, SeqMono
  <2> QED BY <1>3, <2>1, <2>2
<1>6. HeadsKept
  BY <1>1, HeadUnchanged DEF store
<1>7. /\ db' \in [HeadIds -> Seq(Known)] /\ sizes' \in [HeadIds -> Nat] /\ splitList' \subseteq HeadIds
      /\ UNCHANGED <<translate, version, rows, mergeLock, mergeList>>
  BY <1>1 DEF TInv, StoreT, RestT, store, lists
<1> QED BY <1>1, <1>2, <1>4, <1>5, <1>6, <1>7, SplitEndsWith

LEMMA SplitTypes ==
    ASSUME TInv, NEW t \in Threads, SplitStep(t)
    PROVE  TInv'
BY SplitEntryTypes, NewHeadTypes, AddRowTypes, SplitLaterTypes, CollectTypes DEF SplitStep

-----------------------------------------------------------------------------
LEMMA ReassignTypes ==
    ASSUME TInv, NEW t \in Threads, ReassignStep(t)
    PROVE  TInv'
<1> DEFINE R == ThreadT(Placed, Known)
<1>0. /\ th[t] \in R /\ Shape(th[t]) /\ IdleThread \in R /\ Shape(IdleThread)
      /\ IdleThread.pc \notin Creating
  BY IdleOK DEF TInv, ThreadsT, Creating
<1>f. ASSUME Finish(t), UNCHANGED <<store, locks, lists, jobs, ghosts>>
      PROVE  TInv'
  <2>1. UNCHANGED store /\ RestT'
    BY <1>f, RestKept DEF store
  <2> QED BY <1>f, <1>0, <2>1, LocalStep DEF Finish
<1>s. CASE ReassignStale(t) \/ ReassignNotNeeded(t)
  BY <1>s, <1>f DEF ReassignStale, ReassignNotNeeded
<1>l. CASE ReassignSelect(t)
  <2>1. PICK s \in RNGSelection(th[t].head) :
           th' = [th EXCEPT ![t].pc = "reassigncheck", ![t].sel = s, ![t].head = NoHead]
    BY <1>l DEF ReassignSelect
  <2>2. s \in Seq(Placed)
    BY SelectionType
  <2> DEFINE r == [th[t] EXCEPT !.pc = "reassigncheck", !.sel = s, !.head = NoHead]
  <2>3. th' = [th EXCEPT ![t] = r]
    BY <2>1
  <2>4. r \in R
    BY <1>0, <2>2 DEF ThreadT, Pcs, EntryPcs
  <2>5. Shape(r) /\ r.pc \notin Creating
    BY <1>l, <1>0 DEF ReassignSelect, ThreadT, Shape, SplitPcs, HeadPcs, MergePcs, EntryPcs, Creating
  <2>6. UNCHANGED store /\ RestT'
    BY <1>l, RestKept DEF ReassignSelect, store
  <2> QED BY <2>3, <2>4, <2>5, <2>6, LocalStep
<1>c. CASE ReassignCheck(t)
  <2>1. CASE Finish(t)
    BY <1>c, <2>1, <1>f DEF ReassignCheck
  <2>2. CASE Goto(t, "inc")
    <3>1. UNCHANGED store /\ RestT'
      BY <1>c, RestKept DEF ReassignCheck, store
    <3>2. Shape([th[t] EXCEPT !.pc = "inc"])
      BY <1>c, <1>0 DEF ReassignCheck, ThreadT, Shape, SplitPcs, HeadPcs, MergePcs, EntryPcs, Creating
    <3> QED BY <2>2, <3>1, <3>2, GotoStep DEF Pcs, EntryPcs, Creating
  <2> QED BY <1>c, <2>1, <2>2 DEF ReassignCheck
<1>i. CASE ReassignIncVersion(t)
  <2> DEFINE v == th[t].e.vid
             n == Successor(version[v])
             r == [th[t] EXCEPT !.pc = "next", !.e = [th[t].e EXCEPT !.ver = n]]
  <2>1. th[t].pc = "inc" /\ version' = [version EXCEPT ![v] = n]
    BY <1>i DEF ReassignIncVersion, IncVersion
  <2>2. th[t].e \in Known /\ v \in Vectors
    BY <2>1, EntryOfThread DEF EntryPcs, Known, Entries
  <2>3. n \in 0 .. FirstVersion /\ n # NoVersion /\ n \in 0 .. NoVersion
    <3>1. version[v] \in 0 .. NoVersion
      BY <2>2 DEF TInv, StoreT
    <3>2. n \in 0 .. FirstVersion /\ n # NoVersion
      BY <3>1, SuccessorType
    <3> HIDE DEF n
    <3> QED BY <3>2, Configuration DEF FirstVersion, NoVersion, DeletedVersion
  <2> HIDE DEF n
  <2>4. /\ version' \in [Vectors -> 0 .. NoVersion]
        /\ \A w \in Vectors : version'[w] = IF w = v THEN n ELSE version[w]
    <3> HIDE DEF v
    <3>1. version \in [Vectors -> 0 .. NoVersion]
      BY DEF TInv, StoreT
    <3> QED BY <2>1, <2>2, <2>3, <3>1
  <2>5. Known \subseteq Known'
    BY <2>3, <2>4 DEF Known, Entries
  <2>6. [th[t].e EXCEPT !.ver = n] \in Known' /\ [th[t].e EXCEPT !.ver = n] # NoEntry
    <3>1. [th[t].e EXCEPT !.ver = n] \in Entries /\ [th[t].e EXCEPT !.ver = n].vid = v
      BY <2>2, <2>3 DEF Known, Entries
    <3>2. NoEntry \notin Entries
      BY Configuration DEF NoEntry, Entry, Entries
    <3> QED BY <2>2, <2>3, <2>4, <3>1, <3>2 DEF Known
  <2>7. th' = [th EXCEPT ![t] = r]
    BY <1>i, <1>0 DEF ReassignIncVersion, ThreadT, n
  <2>8. r \in ThreadT(Placed, Known') /\ r.pc = "next"
    <3>1. th[t] \in ThreadT(Placed, Known')
      BY <1>0, <2>5, SetsGrow
    <3>2. ASSUME NEW f \in Known' PROVE [th[t] EXCEPT !.pc = "next", !.e = f] \in ThreadT(Placed, Known')
      BY <3>1 DEF ThreadT, Pcs, EntryPcs
    <3>3. r \in ThreadT(Placed, Known')
      BY <2>6, <3>2
    <3> QED BY <3>1, <3>3 DEF ThreadT
  <2>9. Shape(r) /\ r.pc \notin Creating
    <3>1. r.e # NoEntry /\ r.ret = th[t].ret /\ r.head = th[t].head
      BY <1>0, <2>6 DEF ThreadT
    <3> HIDE DEF r
    <3> QED BY <2>8, <3>1 DEF Shape, SplitPcs, HeadPcs, MergePcs, EntryPcs, Creating
  <2>10. UNCHANGED <<head, translate, db, sizes, rows, locks, lists, jobs>> /\ budget' \in BudgetT
    BY <1>i DEF ReassignIncVersion, ghosts, TInv, RestT
  <2>11. \A w \in Vectors : version[w] # NoVersion => version'[w] # NoVersion
    BY <2>3, <2>4
  <2> HIDE DEF r, v
  <2> QED BY <2>4, <2>7, <2>8, <2>9, <2>10, <2>11, VersionStep
<1> QED BY <1>s, <1>l, <1>c, <1>i DEF ReassignStep

-----------------------------------------------------------------------------
\* A merge that leaves the store alone and ends.
LEMMA MergeLeaves ==
    ASSUME TInv, NEW t \in Threads, Finish(t), UNCHANGED store,
           rwLocks' \in [0 .. Stripes - 1 -> Threads \cup {NoThread}],
           mergeLock' \in Threads \cup {NoThread}, mergeList' \subseteq HeadIds,
           UNCHANGED splitList, jobs' \in Seq(JobT(Placed, Known)), budget' \in BudgetT
    PROVE  TInv'
<1>1. RestT'
  BY RestUnchanged DEF store, TInv, RestT
<1>2. IdleThread \in ThreadT(Placed, Known) /\ Shape(IdleThread) /\ IdleThread.pc \notin Creating
  BY IdleOK DEF Creating
<1> QED BY <1>1, <1>2, LocalStep DEF Finish

\* A merge that writes lists, and ends.
LEMMA MergeEnds ==
    ASSUME TInv, NEW t \in Threads, Finish(t), HeadsKept,
           UNCHANGED <<translate, version, rows, splitList, jobs, budget>>,
           rwLocks' \in [0 .. Stripes - 1 -> Threads \cup {NoThread}],
           mergeLock' \in Threads \cup {NoThread}, mergeList' \subseteq HeadIds,
           db' \in [HeadIds -> Seq(Known)], sizes' \in [HeadIds -> Nat]
    PROVE  TInv'
<1>1. Placed' = Placed /\ Known' = Known
  BY DEF HeadsKept, Known
<1>2. RestT' /\ rows' \in Nat
  BY <1>1 DEF TInv, RestT, StoreT
<1>3. IdleThread \in ThreadT(Placed, Known) /\ Shape(IdleThread) /\ IdleThread.pc \notin Creating
  BY IdleOK DEF Creating
<1> QED BY <1>2, <1>3, CalmStep DEF Finish

LEMMA MergeEntryTypes ==
    ASSUME TInv, NEW t \in Threads,
           \/ MergeRequeue(t) \/ MergeBegin(t) \/ MergeAbandon(t) \/ MergeNotNeeded(t) \/ MergeSearch(t)
    PROVE  TInv'
<1> DEFINE h == th[t].head
           live == Live(db[h])
<1>0. th[t].pc \in {"merge", "mergelock"}
  BY DEF MergeRequeue, MergeBegin, MergeAbandon, MergeNotNeeded, MergeSearch
<1>1. h \in HeadIds /\ h \in Placed /\ db[h] \in Seq(Known)
  BY <1>0, HeadOfThread DEF HeadPcs, MergePcs, TInv, StoreT
<1>2. live \in Seq(Known) /\ Len(live) \in Nat /\ Len(live) <= Len(db[h])
  BY <1>1, LiveFacts
<1>3. th[t] \in ThreadT(Placed, Known) /\ Shape(th[t])
  BY DEF TInv, ThreadsT
<1>4. /\ rwLocks \in [0 .. Stripes - 1 -> Threads \cup {NoThread}]
      /\ mergeLock \in Threads \cup {NoThread} /\ mergeList \subseteq HeadIds
      /\ jobs \in Seq(JobT(Placed, Known)) /\ budget \in BudgetT
  BY DEF TInv, RestT
<1>r. CASE MergeRequeue(t)
  <2>1. MergeJob(h, th[t].reassign) \in JobT(Placed, Known)
    BY <1>1, <1>3, JobsOK DEF ThreadT
  <2>2. jobs' \in Seq(JobT(Placed, Known))
    BY <1>r, <1>4, <2>1 DEF MergeRequeue
  <2> QED BY <1>r, <1>4, <2>2, MergeLeaves DEF MergeRequeue, locks, lists, ghosts
<1>b. CASE MergeBegin(t)
  <2>1. UNCHANGED store /\ RestT'
    BY <1>b, RestUnchanged DEF MergeBegin, store, TInv, RestT, lists, ghosts
  <2>2. Shape([th[t] EXCEPT !.pc = "mergelock"])
    BY <1>b, <1>3 DEF MergeBegin, ThreadT, Shape, SplitPcs, HeadPcs, MergePcs, EntryPcs, Creating
  <2> QED BY <1>b, <2>1, <2>2, GotoStep DEF MergeBegin, Pcs, HeadPcs, MergePcs, Creating
<1>a. CASE MergeAbandon(t)
  BY <1>a, <1>4, MergeLeaves DEF MergeAbandon, lists, ghosts
<1>n. CASE MergeNotNeeded(t)
  <2>1. db' = [db EXCEPT ![h] = live] /\ sizes' = [sizes EXCEPT ![h] = Len(live)]
    BY <1>n DEF MergeNotNeeded
  <2> HIDE DEF live
  <2>2. db' \in [HeadIds -> Seq(Known)] /\ sizes' \in [HeadIds -> Nat]
    BY <1>1, <1>2, <2>1, ListWritten
  <2>3. HeadsKept
    BY <1>n, HeadUnchanged DEF MergeNotNeeded
  <2>4. mergeList' \subseteq HeadIds /\ mergeLock' \in Threads \cup {NoThread}
    BY <1>n, <1>4 DEF MergeNotNeeded
  <2> QED BY <1>n, <1>4, <2>2, <2>3, <2>4, MergeEnds DEF MergeNotNeeded, ghosts
<1>s. CASE MergeSearch(t)
  <2>1. PICK first \in Visible :
           th' = [th EXCEPT ![t].pc = "candidate", ![t].cand = Visible \ {first},
                            ![t].parts = <<live, db[h]>>]
    BY <1>s DEF MergeSearch
  <2> DEFINE p == <<live, db[h]>>
             c == Visible \ {first}
             r == [th[t] EXCEPT !.pc = "candidate", !.cand = c, !.parts = p]
  <2>2. th' = [th EXCEPT ![t] = r]
    BY <2>1
  <2>3. p \in Seq(Seq(Known)) /\ Len(p) = 2 /\ p[1] = live /\ p[2] = db[h]
    <3> HIDE DEF live
    <3> QED BY <1>1, <1>2
  <2>4. c \in SUBSET Placed
    BY DEF Visible, Placed
  <2> HIDE DEF p, c, live
  <2>5. r \in ThreadT(Placed, Known) /\ r.pc = "candidate"
    BY <1>3, <2>3, <2>4 DEF ThreadT, Pcs, HeadPcs, MergePcs
  <2>6. Shape(r) /\ r.pc \notin Creating
    <3>1. r.head = h /\ r.parts = p /\ r.ret = th[t].ret /\ r.e = th[t].e
      BY <1>3 DEF ThreadT
    <3>2. h # NoHead /\ (th[t].ret # "idle" => th[t].e # NoEntry)
      BY <1>0, <1>3 DEF Shape, HeadPcs, MergePcs
    <3> HIDE DEF r
    <3> QED BY <1>2, <2>3, <2>5, <3>1, <3>2 DEF Shape, SplitPcs, HeadPcs, MergePcs, EntryPcs, Creating
  <2>7. rwLocks' \in [0 .. Stripes - 1 -> Threads \cup {NoThread}]
    BY <1>s, <1>4 DEF MergeSearch
  <2>8. UNCHANGED store /\ RestT'
    BY <1>s, <2>7, RestUnchanged DEF MergeSearch, store, TInv, RestT, lists, ghosts
  <2> QED BY <2>2, <2>5, <2>6, <2>8, LocalStep
<1> QED BY <1>r, <1>b, <1>a, <1>n, <1>s

\* What MergePostings holds in its hands.
LEMMA MergeHands ==
    ASSUME TInv, NEW t \in Threads, th[t].pc \in {"candidate", "mergeother"}
    PROVE  /\ th[t].head \in HeadIds /\ th[t].head \in Placed
           /\ th[t].parts[1] \in Seq(Known) /\ th[t].parts[2] \in Seq(Known)
           /\ Len(th[t].parts[1]) <= Len(th[t].parts[2])
           /\ th[t].pc = "mergeother" => th[t].other \in HeadIds /\ th[t].other \in Placed
<1>1. th[t].head \in HeadIds /\ th[t].head \in Placed
  BY HeadOfThread DEF HeadPcs, MergePcs
<1>2. /\ th[t].parts \in Seq(Seq(Known)) /\ Len(th[t].parts) = 2
      /\ Len(th[t].parts[1]) <= Len(th[t].parts[2])
  BY DEF TInv, ThreadsT, ThreadT, Shape
<1>3. th[t].pc = "mergeother" => th[t].other \in HeadIds /\ th[t].other \in Placed
  BY DEF TInv, ThreadsT, ThreadT, Shape, Placed
<1>4. th[t].parts[1] \in Seq(Known) /\ th[t].parts[2] \in Seq(Known)
  BY <1>2
<1> QED BY <1>1, <1>2, <1>3, <1>4

LEMMA SubSeqType ==
    ASSUME NEW T, NEW s \in Seq(T), NEW n \in Nat, n <= Len(s)
    PROVE  SubSeq(s, 1, n) \in Seq(T)
OBVIOUS

\* The lists that a merge of two postings writes.
LEMMA MergedFacts ==
    ASSUME TInv, NEW t \in Threads, th[t].pc = "mergeother"
    PROVE  /\ Kept(t) \in HeadIds /\ Removed(t) \in HeadIds
           /\ Kept(t) \in Placed /\ Removed(t) \in Placed
           /\ th[t].parts[1] \o Fresh(t) \in Seq(Known)
           /\ Scanned(t) \in Seq(Known)
<1> DEFINE o == th[t].other
           live == Live(db[o])
<1>1. /\ th[t].head \in HeadIds /\ th[t].head \in Placed /\ o \in HeadIds /\ o \in Placed
      /\ th[t].parts[1] \in Seq(Known) /\ th[t].parts[2] \in Seq(Known)
      /\ Len(th[t].parts[1]) <= Len(th[t].parts[2])
  BY MergeHands
<1>2. db[o] \in Seq(Known)
  BY <1>1 DEF TInv, StoreT
<1>3. live \in Seq(Known) /\ Len(live) \in Nat /\ Len(live) <= Len(db[o])
  BY <1>2, LiveFacts
<1>4. Fresh(t) \in Seq(Known)
  <2>1. Fresh(t) = Filter(live, {e \in Range(live) : e.vid \notin Vids(th[t].parts[1])})
    BY DEF Fresh
  <2> HIDE DEF live
  <2> QED BY <1>3, <2>1, FilterFacts
<1>5. th[t].parts[1] \o Fresh(t) \in Seq(Known)
  BY <1>1, <1>4
<1>6. Scanned(t) \in Seq(Known)
  <2>1. SubSeq(db[o], 1, Len(live)) \in Seq(Known)
    <3> HIDE DEF live
    <3> QED BY <1>2, <1>3, SubSeqType
  <2>2. SubSeq(th[t].parts[2], 1, Len(th[t].parts[1])) \in Seq(Known)
    BY <1>1, SubSeqType
  <2> QED BY <2>1, <2>2 DEF Scanned
<1> QED BY <1>1, <1>5, <1>6 DEF Kept, Removed

LEMMA MergedStore ==
    ASSUME TInv, NEW t \in Threads, th[t].pc = "mergeother", NEW d \in Seq(Known), Merged(t, d)
    PROVE  /\ db' \in [HeadIds -> Seq(Known)] /\ sizes' \in [HeadIds -> Nat] /\ HeadsKept
           /\ rwLocks' \in [0 .. Stripes - 1 -> Threads \cup {NoThread}]
           /\ mergeLock' \in Threads \cup {NoThread}
<1> DEFINE m == th[t].parts[1] \o Fresh(t)
<1>1. /\ Kept(t) \in HeadIds /\ Removed(t) \in HeadIds /\ Removed(t) \in Placed
      /\ m \in Seq(Known)
  BY MergedFacts
<1>2. /\ db' = [db EXCEPT ![Kept(t)] = m, ![Removed(t)] = d]
      /\ sizes' = [sizes EXCEPT ![Kept(t)] = Len(m), ![Removed(t)] = 0]
      /\ head' = [head EXCEPT ![Removed(t)] = "deleted"]
      /\ rwLocks' = Released(t) /\ mergeLock' = NoThread
  BY DEF Merged
<1> HIDE DEF m
<1>3. Len(m) \in Nat
  BY <1>1
<1>4. db \in [HeadIds -> Seq(Known)] /\ sizes \in [HeadIds -> Nat]
  BY DEF TInv, StoreT
<1>5. db' \in [HeadIds -> Seq(Known)]
  BY <1>1, <1>2, <1>4
<1>6. sizes' \in [HeadIds -> Nat]
  BY <1>1, <1>2, <1>3, <1>4
<1> QED BY <1>1, <1>2, <1>5, <1>6, HeadDeleted, ReleasedType

LEMMA MergeLaterTypes ==
    ASSUME TInv, NEW t \in Threads,
           \/ MergeCandidate(t) \/ MergeOtherMissing(t) \/ MergeOtherFails(t) \/ MergeOther(t)
           \/ MergeDeleteFails(t) \/ MergePutFails(t) \/ MergeReassign(t) \/ MergeWriteBack(t)
           \/ MergeWriteBackFails(t)
    PROVE  TInv'
<1> DEFINE h == th[t].head
<1>0. th[t] \in ThreadT(Placed, Known) /\ Shape(th[t])
  BY DEF TInv, ThreadsT
<1>1. /\ rwLocks \in [0 .. Stripes - 1 -> Threads \cup {NoThread}]
      /\ Released(t) \in [0 .. Stripes - 1 -> Threads \cup {NoThread}]
      /\ mergeLock \in Threads \cup {NoThread} /\ mergeList \subseteq HeadIds
      /\ jobs \in Seq(JobT(Placed, Known)) /\ budget \in BudgetT
  BY ReleasedType DEF TInv, RestT
<1>2. db \in [HeadIds -> Seq(Known)] /\ sizes \in [HeadIds -> Nat] /\ rows \in Nat
  BY DEF TInv, StoreT
<1>c. CASE MergeCandidate(t)
  <2>1. UNCHANGED store /\ RestT' /\ th[t].pc = "candidate"
    BY <1>c, RestKept DEF MergeCandidate, store
  <2>2. PICK c \in th[t].cand : th' = IF Mergeable(t, c)
                                      THEN [th EXCEPT ![t].pc = "mergeother", ![t].other = c]
                                      ELSE [th EXCEPT ![t].cand = @ \ {c}]
    BY <1>c DEF MergeCandidate
  <2>3. c \in HeadIds
    BY <1>0 DEF ThreadT, Placed
  <2>4. CASE th' = [th EXCEPT ![t].pc = "mergeother", ![t].other = c]
    <3> DEFINE r == [th[t] EXCEPT !.pc = "mergeother", !.other = c]
    <3>1. th' = [th EXCEPT ![t] = r]
      BY <2>4
    <3>2. r \in ThreadT(Placed, Known)
      BY <1>0, <2>3 DEF ThreadT, Pcs, HeadPcs, MergePcs
    <3>3. Shape(r) /\ r.pc \notin Creating
      BY <1>0, <2>1, <2>2 DEF ThreadT, Shape, SplitPcs, HeadPcs, MergePcs, EntryPcs, Creating
    <3> QED BY <2>1, <3>1, <3>2, <3>3, LocalStep
  <2>5. CASE th' = [th EXCEPT ![t].cand = @ \ {c}]
    <3> DEFINE r == [th[t] EXCEPT !.cand = th[t].cand \ {c}]
    <3>1. th' = [th EXCEPT ![t] = r]
      BY <2>5
    <3>2. r \in ThreadT(Placed, Known)
      BY <1>0 DEF ThreadT
    <3>3. Shape(r) /\ r.pc \notin Creating
      BY <1>0, <2>1 DEF ThreadT, Shape, SplitPcs, HeadPcs, MergePcs, EntryPcs, Creating
    <3> QED BY <2>1, <3>1, <3>2, <3>3, LocalStep
  <2> QED BY <2>2, <2>4, <2>5
<1>m. CASE MergeOtherMissing(t)
  <2> DEFINE r == [th[t] EXCEPT !.pc = "candidate", !.cand = th[t].cand \ {th[t].other},
                                !.other = NoHead]
  <2>1. UNCHANGED store /\ RestT' /\ th[t].pc = "mergeother"
    BY <1>m, RestKept DEF MergeOtherMissing, MayLockOther, store
  <2>2. th' = [th EXCEPT ![t] = r]
    BY <1>m DEF MergeOtherMissing
  <2>3. r \in ThreadT(Placed, Known)
    BY <1>0 DEF ThreadT, Pcs, HeadPcs, MergePcs
  <2>4. Shape(r) /\ r.pc \notin Creating
    BY <1>0, <2>1 DEF ThreadT, Shape, SplitPcs, HeadPcs, MergePcs, EntryPcs, Creating
  <2> QED BY <2>1, <2>2, <2>3, <2>4, LocalStep
<1>f. CASE MergeOtherFails(t)
  BY <1>f, <1>1, MergeLeaves DEF MergeOtherFails, lists, ghosts
<1>o. CASE MergeOther(t)
  <2> DEFINE n == <<Kept(t), Removed(t)>>
             p == <<Scanned(t)>>
             r == [th[t] EXCEPT !.pc = "merged", !.news = n, !.parts = p, !.cand = {}]
  <2>1. th[t].pc = "mergeother" /\ Merged(t, << >>)
        /\ UNCHANGED <<translate, version, rows, lists, jobs, ghosts>>
    BY <1>o DEF MergeOther, MayLockOther
  <2>2. << >> \in Seq(Known)
    OBVIOUS
  <2>3. /\ db' \in [HeadIds -> Seq(Known)] /\ sizes' \in [HeadIds -> Nat] /\ HeadsKept
        /\ rwLocks' \in [0 .. Stripes - 1 -> Threads \cup {NoThread}]
        /\ mergeLock' \in Threads \cup {NoThread}
    BY <2>1, <2>2, MergedStore
  <2>4. n \in Seq(Placed) /\ p \in Seq(Seq(Known)) /\ Len(n) = 2 /\ Len(p) = 1
    <3>1. Kept(t) \in Placed /\ Removed(t) \in Placed /\ Scanned(t) \in Seq(Known)
      BY <2>1, MergedFacts
    <3> QED BY <3>1
  <2>5. th' = [th EXCEPT ![t] = r]
    BY <1>o DEF MergeOther
  <2> HIDE DEF n, p
  <2>6. r \in ThreadT(Placed, Known) /\ r.pc = "merged"
    <3>1. ASSUME NEW c \in SUBSET Placed
          PROVE  [th[t] EXCEPT !.pc = "merged", !.news = n, !.parts = p, !.cand = c]
                   \in ThreadT(Placed, Known)
      BY <1>0, <2>4 DEF ThreadT, Pcs, HeadPcs, MergePcs
    <3>2. r \in ThreadT(Placed, Known)
      BY <3>1
    <3> QED BY <1>0, <3>2 DEF ThreadT
  <2>7. Shape(r) /\ r.pc \notin Creating
    <3>1. r.head = h /\ r.parts = p /\ r.news = n /\ r.ret = th[t].ret /\ r.e = th[t].e
      BY <1>0 DEF ThreadT
    <3>2. h # NoHead /\ (th[t].ret # "idle" => th[t].e # NoEntry)
      BY <1>0, <2>1 DEF Shape, HeadPcs, MergePcs
    <3> HIDE DEF r
    <3> QED BY <2>4, <2>6, <3>1, <3>2 DEF Shape, SplitPcs, HeadPcs, MergePcs, EntryPcs, Creating
  <2>8. RestT' /\ rows' \in Nat
    <3>1. Placed' = Placed /\ Known' = Known
      BY <2>1, <2>3 DEF HeadsKept, Known
    <3> QED BY <1>2, <2>1, <2>3, <3>1 DEF TInv, RestT, lists, ghosts
  <2> HIDE DEF r
  <2> QED BY <2>1, <2>3, <2>5, <2>6, <2>7, <2>8, CalmStep
<1>d. CASE MergeDeleteFails(t)
  <2>1. th[t].pc = "mergeother" /\ Merged(t, db[Removed(t)])
    BY <1>d DEF MergeDeleteFails, MayLockOther
  <2>2. db[Removed(t)] \in Seq(Known)
    BY <1>2, <2>1, MergedFacts
  <2>3. /\ db' \in [HeadIds -> Seq(Known)] /\ sizes' \in [HeadIds -> Nat] /\ HeadsKept
        /\ rwLocks' \in [0 .. Stripes - 1 -> Threads \cup {NoThread}]
        /\ mergeLock' \in Threads \cup {NoThread}
    BY <2>1, <2>2, MergedStore
  <2> QED BY <1>d, <1>1, <2>3, MergeEnds DEF MergeDeleteFails, lists, ghosts
<1>p. CASE MergePutFails(t)
  <2>1. th[t].pc = "mergeother" /\ head' = [head EXCEPT ![Removed(t)] = "deleted"]
    BY <1>p DEF MergePutFails, MayLockOther
  <2>2. HeadsKept
    BY <2>1, MergedFacts, HeadDeleted
  <2> QED BY <1>p, <1>1, <1>2, <2>2, MergeEnds DEF MergePutFails, lists, ghosts
<1>r. CASE MergeReassign(t)
  <2> DEFINE k == th[t].news[1]
             d == th[t].news[2]
             C == {<<e, k>> : e \in Range(th[t].parts[1])}
  <2>0. th[t].pc = "merged" /\ mergeList' = mergeList \ {h} /\ Finish(t)
        /\ UNCHANGED <<store, locks, splitList, erased>>
    BY <1>r DEF MergeReassign
  <2>1. k \in Placed /\ d \in HeadIds /\ th[t].parts[1] \in Seq(Known)
    <3>1. /\ th[t].parts \in Seq(Seq(Known)) /\ th[t].news \in Seq(Placed)
          /\ Len(th[t].parts) = 1 /\ Len(th[t].news) = 2
      BY <1>0, <2>0 DEF ThreadT, Shape
    <3> QED BY <3>1 DEF Placed
  <2>2. IsFiniteSet(C) /\ \A m \in C : m[1] \in Known /\ m[2] \in Placed
    <3>1. IsFiniteSet(C)
      BY <2>1, PairsFinite
    <3>2. Range(th[t].parts[1]) \subseteq Known
      BY <2>1 DEF Range
    <3>3. \A m \in C : m[1] \in Known /\ m[2] \in Placed
      BY <2>1, <3>2
    <3> QED BY <3>1, <3>3
  <2>3. jobs' \in Seq(JobT(Placed, Known)) /\ budget' \in BudgetT
    <3>1. CASE th[t].reassign
      <4>1. PICK M \in Moves(C) : /\ jobs' = jobs \o Reassigns(M) \o HeadVectorJob(d)
                                  /\ budget' = [budget EXCEPT !.moves = @ - Cardinality(M)]
        BY <1>r, <3>1 DEF MergeReassign
      <4> HIDE DEF C
      <4>2. IsFiniteSet(M) /\ M \subseteq C /\ budget' \in BudgetT
        BY <2>2, <4>1, MovesFacts
      <4>3. Reassigns(M) \in Seq(JobT(Placed, Known))
        BY <2>2, <4>2, ReassignsType, JobsOK, SeqMono
      <4>4. HeadVectorJob(d) \in Seq(JobT(Placed, Known))
        BY <2>1, HeadVectorJobType, JobsOK, SeqMono
      <4> QED BY <1>1, <4>1, <4>2, <4>3, <4>4
    <3>2. CASE ~th[t].reassign
      BY <1>r, <1>1, <3>2 DEF MergeReassign
    <3> QED BY <3>1, <3>2
  <2> QED BY <1>1, <2>0, <2>3, MergeLeaves DEF locks
<1>w. CASE MergeWriteBack(t)
  <2> DEFINE p == th[t].parts[1]
  <2>1. th[t].pc = "candidate" /\ db' = [db EXCEPT ![h] = p] /\ sizes' = [sizes EXCEPT ![h] = Len(p)]
    BY <1>w DEF MergeWriteBack
  <2>2. h \in HeadIds /\ p \in Seq(Known)
    BY <2>1, MergeHands
  <2> HIDE DEF p
  <2>3. db' \in [HeadIds -> Seq(Known)] /\ sizes' \in [HeadIds -> Nat]
    BY <2>1, <2>2, ListWritten
  <2>4. HeadsKept
    BY <1>w, HeadUnchanged DEF MergeWriteBack
  <2>5. mergeList' \subseteq HeadIds /\ mergeLock' \in Threads \cup {NoThread}
    BY <1>w, <1>1 DEF MergeWriteBack
  <2> QED BY <1>w, <1>1, <2>3, <2>4, <2>5, MergeEnds DEF MergeWriteBack, ghosts
<1>x. CASE MergeWriteBackFails(t)
  BY <1>x, <1>1, MergeLeaves DEF MergeWriteBackFails, lists, ghosts
<1> QED BY <1>c, <1>m, <1>f, <1>o, <1>d, <1>p, <1>r, <1>w, <1>x

LEMMA MergeTypes ==
    ASSUME TInv, NEW t \in Threads, MergeStep(t)
    PROVE  TInv'
BY MergeEntryTypes, MergeLaterTypes DEF MergeStep

-----------------------------------------------------------------------------
LEMMA TakeJobTypes ==
    ASSUME TInv, NEW w \in Threads, TakeJob(w)
    PROVE  TInv'
<1> DEFINE j == Head(jobs)
           R == ThreadT(Placed, Known)
<1>0. jobs \in Seq(JobT(Placed, Known)) /\ jobs # << >> /\ jobs' = Tail(jobs)
  BY DEF TInv, RestT, TakeJob
<1>1. j \in JobT(Placed, Known) /\ jobs' \in Seq(JobT(Placed, Known))
  BY <1>0
<1>2. UNCHANGED store /\ RestT'
  BY <1>1, RestUnchanged DEF TakeJob, store, TInv, RestT, locks, lists, ghosts
<1>3. IdleThread \in R
  BY IdleOK
<1>4. NoHead \notin Placed /\ NoEntry \notin Known
  BY Configuration DEF NoHead, Placed, HeadIds, NoEntry, Entry, Known, Entries
<1>5. CASE j.type \in {"split", "merge"}
  <2> DEFINE r == [IdleThread EXCEPT !.pc = j.type, !.head = j.head, !.reassign = j.reassign]
  <2>1. j.head \in Placed /\ j.reassign \in BOOLEAN
    BY <1>1, <1>5 DEF JobT, ReassignT
  <2>2. th' = [th EXCEPT ![w] = r]
    BY <1>5 DEF TakeJob
  <2> HIDE DEF j
  <2>3. r \in R /\ r.pc = j.type /\ r.head = j.head /\ r.ret = "idle"
    BY <1>3, <1>5, <2>1 DEF IdleThread, ThreadT, Pcs, HeadPcs, MergePcs
  <2> HIDE DEF r
  <2>4. Shape(r) /\ r.pc \notin Creating
    BY <1>4, <1>5, <2>1, <2>3 DEF Shape, SplitPcs, HeadPcs, MergePcs, EntryPcs, Creating
  <2> QED BY <1>2, <2>2, <2>3, <2>4, LocalStep
<1>6. CASE j.type = "reassign"
  <2> DEFINE r == [IdleThread EXCEPT !.pc = "reassign", !.head = j.prev, !.e = j.e,
                                     !.slack = ReassignThreshold]
  <2>1. j.prev \in Placed \cup {NoHead} /\ j.e \in Known
    BY <1>1, <1>6 DEF JobT, ReassignT
  <2>2. th' = [th EXCEPT ![w] = r]
    BY <1>6 DEF TakeJob
  <2> HIDE DEF j
  <2>3. r \in R /\ r.pc = "reassign" /\ r.e = j.e /\ r.ret = "idle"
    BY <1>3, <2>1, Configuration DEF IdleThread, ThreadT, Pcs, EntryPcs
  <2> HIDE DEF r
  <2>4. Shape(r) /\ r.pc \notin Creating
    BY <1>4, <2>1, <2>3 DEF Shape, SplitPcs, HeadPcs, MergePcs, EntryPcs, Creating
  <2> QED BY <1>2, <2>2, <2>3, <2>4, LocalStep
<1> QED BY <1>1, <1>5, <1>6 DEF JobT, ReassignT

LEMMA VersionConstants ==
    /\ FirstVersion \in 0 .. NoVersion /\ FirstVersion # NoVersion /\ FirstVersion \in 0 .. FirstVersion
    /\ DeletedVersion \in 0 .. NoVersion /\ DeletedVersion # NoVersion
BY Configuration DEF FirstVersion, NoVersion, DeletedVersion

LEMMA AddIndexTypes ==
    ASSUME TInv, NEW c \in Threads, NEW v \in Vectors, AddIndex(c, v)
    PROVE  TInv'
<1> DEFINE e == Entry(v, FirstVersion)
<1>0. version \in [Vectors -> 0 .. NoVersion]
  BY DEF TInv, StoreT
<1>1. /\ version' \in [Vectors -> 0 .. NoVersion]
      /\ \A w \in Vectors : version'[w] = IF w = v THEN FirstVersion ELSE version[w]
  BY <1>0, VersionConstants DEF AddIndex
<1>2. PICK s \in RNGSelection(NoHead) :
         th' = [th EXCEPT ![c] = [IdleThread EXCEPT !.pc = "next", !.sel = s, !.e = e]]
  BY DEF AddIndex
<1>3. s \in Seq(Placed)
  BY SelectionType
<1>4. e \in Known' /\ e # NoEntry
  BY <1>1, VersionConstants, Configuration DEF Known, Entry, Entries, NoEntry
<1> HIDE DEF e
<1> DEFINE r == [IdleThread EXCEPT !.pc = "next", !.sel = s, !.e = e]
<1>5. r \in ThreadT(Placed, Known') /\ r.pc = "next" /\ r.e = e /\ r.ret = "idle"
  <2>1. IdleThread \in ThreadT(Placed, Known')
    BY IdleOK
  <2>2. ASSUME NEW K, NEW f \in K, IdleThread \in ThreadT(Placed, K)
        PROVE  [IdleThread EXCEPT !.pc = "next", !.sel = s, !.e = f] \in ThreadT(Placed, K)
    BY <1>3, <2>2 DEF ThreadT, Pcs, EntryPcs
  <2>3. r \in ThreadT(Placed, Known')
    BY <1>4, <2>1, <2>2
  <2> QED BY <2>3 DEF IdleThread
<1> HIDE DEF r
<1>6. Shape(r) /\ r.pc \notin Creating
  BY <1>4, <1>5 DEF Shape, SplitPcs, HeadPcs, MergePcs, EntryPcs, Creating
<1>7. UNCHANGED <<head, translate, db, sizes, rows, locks, lists, jobs>> /\ budget' \in BudgetT
  BY DEF AddIndex, ghosts, TInv, RestT
<1>8. \A w \in Vectors : version[w] # NoVersion => version'[w] # NoVersion
  BY <1>1, VersionConstants
<1>9. th' = [th EXCEPT ![c] = r]
  BY <1>2 DEF r
<1> QED BY <1>1, <1>5, <1>6, <1>7, <1>8, <1>9, VersionStep

LEMMA DeleteIndexTypes ==
    ASSUME TInv, NEW c \in Threads, NEW v \in Vectors, DeleteIndex(c, v)
    PROVE  TInv'
<1>0. version \in [Vectors -> 0 .. NoVersion] /\ budget \in BudgetT
  BY DEF TInv, StoreT, RestT
<1>1. /\ version' \in [Vectors -> 0 .. NoVersion]
      /\ \A w \in Vectors : version[w] # NoVersion => version'[w] # NoVersion
  BY <1>0, VersionConstants DEF DeleteIndex
<1>2. budget' \in BudgetT
  BY <1>0 DEF DeleteIndex, BudgetT
<1>3. th' = [th EXCEPT ![c] = th[c]]
  BY DEF DeleteIndex, TInv, ThreadsT
<1>4. th[c] \in ThreadT(Placed, Known) /\ Shape(th[c])
  BY DEF TInv, ThreadsT
<1>5. Known \subseteq Known'
  BY <1>1 DEF Known, Entries
<1>6. th[c] \in ThreadT(Placed, Known')
  BY <1>4, <1>5, SetsGrow
<1>7. UNCHANGED <<head, translate, db, sizes, rows, locks, lists, jobs>>
  BY DEF DeleteIndex
<1> QED BY <1>1, <1>2, <1>3, <1>4, <1>6, <1>7, VersionStep

LEMMA SearchIndexTypes ==
    ASSUME TInv, NEW c \in Threads, NEW h \in HeadIds, SearchIndex(c, h)
    PROVE  TInv'
<1>0. jobs \in Seq(JobT(Placed, Known)) /\ budget \in BudgetT
  BY DEF TInv, RestT
<1>1. h \in Placed
  BY DEF SearchIndex, Visible, Placed
<1>2. MergeJob(h, DisableReassign) \in JobT(Placed, Known)
  BY <1>1, JobsOK, Configuration
<1>3. jobs' \in Seq(JobT(Placed, Known))
  BY <1>0, <1>2 DEF SearchIndex
<1>4. budget' \in BudgetT
  BY <1>0 DEF SearchIndex, BudgetT
<1>5. UNCHANGED store /\ RestT'
  BY <1>3, <1>4, RestUnchanged DEF SearchIndex, store, TInv, RestT, locks
<1>6. th' = [th EXCEPT ![c] = th[c]]
  BY DEF SearchIndex, TInv, ThreadsT
<1>7. th[c] \in ThreadT(Placed, Known) /\ Shape(th[c]) /\ th[c].pc \notin Creating
  BY DEF SearchIndex, TInv, ThreadsT, Creating
<1> QED BY <1>5, <1>6, <1>7, LocalStep

LEMMA InitTypes == Init => TInv
<1> SUFFICES ASSUME Init PROVE TInv
  OBVIOUS
<1>1. PICK f \in [0 .. FirstHeads - 1 -> Vectors] :
         /\ translate = [h \in HeadIds |-> IF ExcludeHead /\ h < FirstHeads THEN f[h] ELSE NoVector]
         /\ version = [v \in Vectors |-> IF v \in Range(f) THEN FirstVersion ELSE NoVersion]
         /\ db = [h \in HeadIds |-> IF h < FirstHeads /\ ~ExcludeHead
                                    THEN <<Entry(f[h], FirstVersion)>> ELSE << >>]
  BY DEF Init
<1>2. head = [h \in HeadIds |-> IF h < FirstHeads THEN "visible" ELSE "free"]
  BY DEF Init
<1>3. /\ FirstHeads \in Nat /\ MaxHeads \in Nat /\ FirstHeads \in 0 .. MaxHeads
      /\ \A h \in HeadIds : h \in Nat /\ (h < FirstHeads => h \in 0 .. FirstHeads - 1)
  BY Configuration DEF HeadIds
<1>4. \A h \in HeadIds : h < FirstHeads => f[h] \in Vectors /\ version[f[h]] = FirstVersion
  BY <1>1, <1>3 DEF Range
<1>5. StoreT
  <2>1. version \in [Vectors -> 0 .. NoVersion]
    <3>1. NoVersion \in 0 .. NoVersion
      BY Configuration DEF NoVersion, DeletedVersion
    <3> QED BY <1>1, <3>1, VersionConstants
  <2>2. \A h \in HeadIds : db[h] \in Seq(Known)
    <3> TAKE h \in HeadIds
    <3>1. CASE h < FirstHeads /\ ~ExcludeHead
      <4>1. Entry(f[h], FirstVersion) \in Known
        BY <1>4, <3>1, VersionConstants DEF Entry, Known, Entries
      <4>2. db[h] = <<Entry(f[h], FirstVersion)>>
        BY <1>1, <3>1
      <4> QED BY <4>1, <4>2
    <3>2. CASE ~(h < FirstHeads /\ ~ExcludeHead)
      <4>1. db[h] = << >>
        BY <1>1, <3>2
      <4> QED BY <4>1
    <3> QED BY <3>1, <3>2
  <2>3. db \in [HeadIds -> Seq(Known)]
    BY <1>1, <2>2
  <2>4. sizes \in [HeadIds -> Nat]
    <3>1. sizes = [h \in HeadIds |-> Len(db[h])]
      BY DEF Init
    <3>2. \A h \in HeadIds : Len(db[h]) \in Nat
      BY <2>2
    <3> QED BY <3>1, <3>2
  <2>5. translate \in [HeadIds -> Vectors \cup {NoVector}]
    BY <1>1, <1>4
  <2>6. rows \in Nat
    BY <1>3 DEF Init
  <2> QED BY <1>2, <2>1, <2>3, <2>4, <2>5, <2>6 DEF StoreT
<1>6. RestT
  <2>1. jobs \in Seq(JobT(Placed, Known))
    BY DEF Init
  <2> QED BY <2>1, Configuration DEF Init, RestT, BudgetT
<1>7. ThreadsT
  BY IdleOK DEF Init, ThreadsT
<1>8. Numbered
  BY <1>2, <1>3 DEF Numbered
<1>9. HeadVectors
  BY <1>1, <1>2, <1>4, VersionConstants DEF HeadVectors
<1>10. Pending
  BY DEF Init, Pending, IdleThread, Creating
<1> QED BY <1>5, <1>6, <1>7, <1>8, <1>9, <1>10 DEF TInv

LEMMA StepTypes == TInv /\ [Next]_vars => TInv'
<1> SUFFICES ASSUME TInv, [Next]_vars PROVE TInv'
  OBVIOUS
<1>1. CASE UNCHANGED vars
  <2>1. Known' = Known /\ Placed' = Placed
    BY <1>1 DEF vars, Known, Placed
  <2> QED BY <1>1, <2>1 DEF vars, TInv, StoreT, RestT, ThreadsT, Numbered, HeadVectors, Pending
<1>2. ASSUME NEW c \in Clients, ThreadStep(c) PROVE TInv'
  BY <1>2, AppendTypes, SplitTypes DEF ThreadStep, Threads
<1>3. ASSUME NEW c \in Clients, NEW v \in Vectors, AddIndex(c, v) \/ DeleteIndex(c, v) PROVE TInv'
  BY <1>3, AddIndexTypes, DeleteIndexTypes DEF Threads
<1>4. ASSUME NEW c \in Clients, NEW h \in HeadIds, SearchIndex(c, h) PROVE TInv'
  BY <1>4, SearchIndexTypes DEF Threads
<1>5. ASSUME NEW w \in Workers, WorkerStep(w) PROVE TInv'
  BY <1>5, TakeJobTypes, AppendTypes, SplitTypes, MergeTypes, ReassignTypes
     DEF WorkerStep, ThreadStep, Threads
<1> QED BY <1>1, <1>2, <1>3, <1>4, <1>5 DEF Next

LEMMA TypesImply == TInv => TypeOK
<1> SUFFICES ASSUME TInv PROVE TypeOK
  OBVIOUS
<1>1. \A h \in HeadIds : Range(db[h]) \subseteq Entries
  <2> TAKE h \in HeadIds
  <2>1. db[h] \in Seq(Known)
    BY DEF TInv, StoreT
  <2> QED BY <2>1 DEF Range, Known
<1> QED BY <1>1 DEF TInv, StoreT, RestT, TypeOK

LEMMA TypesInv == Spec => []TInv
<1>1. Init => TInv
  BY InitTypes
<1>2. TInv /\ [Next]_vars => TInv'
  BY StepTypes
<1> QED BY <1>1, <1>2, PTL DEF Spec

\* Heads, versions, lists, sizes and locks keep their types, in every interleaving of
\* appends, splits, merges and reassignments: no entry of a list, of a job or in the
\* hands of a thread belongs to a vector that was never added, and a new head is always
\* a free one (ExtraDynamicSearcher.h:913-2011).
THEOREM TypesInvariant == Spec => []TypeOK
BY TypesInv, TypesImply, PTL

-----------------------------------------------------------------------------
(***************************************************************************)
(* The posting locks.                                                      *)
(***************************************************************************)

\* The phases in which a thread holds the lock of its head's stripe.
Holding(r) ==
    \/ r.pc \in {"cluster", "center", "put", "addrow", "candidate", "mergeother"}
    \/ r.pc \in {"split", "erase", "collect"} /\ r.nested

LockInv ==
    \A t \in Threads, s \in 0 .. Stripes - 1 :
        rwLocks[s] = t <=> Holding(th[t]) /\ s = Stripe(th[t].head)

\* Only thread t has moved.
Moved(t) == \A u \in Threads \ {t} : th'[u] = th[u]

LEMMA StripeType ==
    ASSUME NEW h \in HeadIds
    PROVE  Stripe(h) \in 0 .. Stripes - 1
<1>1. h \in Nat /\ Stripes \in Nat /\ Stripes > 0
  BY Configuration DEF HeadIds
<1>2. h % Stripes \in 0 .. Stripes - 1
  BY <1>1
<1> QED BY <1>2 DEF Stripe

LEMMA LockKept ==
    ASSUME TInv, LockInv, NEW t \in Threads, Moved(t), UNCHANGED rwLocks,
           Holding(th'[t]) <=> Holding(th[t]), Holding(th[t]) => th'[t].head = th[t].head
    PROVE  LockInv'
<1> SUFFICES ASSUME NEW u \in Threads, NEW s \in 0 .. Stripes - 1
             PROVE  rwLocks'[s] = u <=> Holding(th'[u]) /\ s = Stripe(th'[u].head)
  BY DEF LockInv, Holding, Stripe
<1>1. CASE u = t
  BY <1>1 DEF LockInv
<1>2. CASE u # t
  BY <1>2 DEF LockInv, Moved
<1> QED BY <1>1, <1>2

LEMMA LockTaken ==
    ASSUME TInv, LockInv, NEW t \in Threads, Moved(t), th[t].head \in HeadIds,
           rwLocks' = [rwLocks EXCEPT ![Stripe(th[t].head)] = t],
           Unlocked(th[t].head) \/ Holding(th[t]),
           Holding(th'[t]), th'[t].head = th[t].head
    PROVE  LockInv'
<1> DEFINE z == Stripe(th[t].head)
<1>1. z \in 0 .. Stripes - 1 /\ rwLocks \in [0 .. Stripes - 1 -> Threads \cup {NoThread}]
  BY StripeType DEF TInv, RestT
<1>2. \A s \in 0 .. Stripes - 1 : rwLocks'[s] = IF s = z THEN t ELSE rwLocks[s]
  BY <1>1
<1>3. rwLocks[z] \in {NoThread, t}
  BY <1>1 DEF LockInv, Unlocked
<1>4. NoThread \notin Threads
  BY Configuration
<1> SUFFICES ASSUME NEW u \in Threads, NEW s \in 0 .. Stripes - 1
             PROVE  rwLocks'[s] = u <=> Holding(th'[u]) /\ s = Stripe(th'[u].head)
  BY DEF LockInv, Holding, Stripe
<1>5. \A q \in 0 .. Stripes - 1 : rwLocks[q] = t => q = z
  BY DEF LockInv
<1>6. CASE u = t
  <2>1. Stripe(th'[u].head) = z
    BY <1>6
  <2> HIDE DEF z
  <2> QED BY <1>2, <1>5, <1>6, <2>1
<1>7. CASE u # t
  <2>1. th'[u] = th[u]
    BY <1>7 DEF Moved
  <2>2. rwLocks[s] = u <=> Holding(th[u]) /\ s = Stripe(th[u].head)
    BY DEF LockInv
  <2>3. rwLocks[s] = u <=> rwLocks'[s] = u
    BY <1>2, <1>3, <1>4, <1>7
  <2> QED BY <2>1, <2>2, <2>3
<1> QED BY <1>6, <1>7

LEMMA LockReleased ==
    ASSUME TInv, LockInv, NEW t \in Threads, Moved(t), th[t].head \in HeadIds,
           rwLocks' = Released(t), ~Holding(th'[t])
    PROVE  LockInv'
<1> DEFINE z == Stripe(th[t].head)
<1>1. z \in 0 .. Stripes - 1 /\ rwLocks \in [0 .. Stripes - 1 -> Threads \cup {NoThread}]
  BY StripeType DEF TInv, RestT
<1>2. \A s \in 0 .. Stripes - 1 :
         rwLocks'[s] = IF s = z /\ rwLocks[s] = t THEN NoThread ELSE rwLocks[s]
  BY <1>1 DEF Released
<1>3. NoThread \notin Threads
  BY Configuration
<1> SUFFICES ASSUME NEW u \in Threads, NEW s \in 0 .. Stripes - 1
             PROVE  rwLocks'[s] = u <=> Holding(th'[u]) /\ s = Stripe(th'[u].head)
  BY DEF LockInv, Holding, Stripe
<1>4. \A q \in 0 .. Stripes - 1 : rwLocks[q] = t => q = z
  BY DEF LockInv
<1>5. CASE u = t
  <2> HIDE DEF z
  <2>1. rwLocks'[s] # t
    BY <1>2, <1>3, <1>4
  <2> QED BY <1>5, <2>1
<1>6. CASE u # t
  <2>1. th'[u] = th[u]
    BY <1>6 DEF Moved
  <2>2. rwLocks[s] = u <=> Holding(th[u]) /\ s = Stripe(th[u].head)
    BY DEF LockInv
  <2> HIDE DEF z
  <2>3. rwLocks[s] = u <=> rwLocks'[s] = u
    BY <1>2, <1>3, <1>6
  <2> QED BY <2>1, <2>2, <2>3
<1> QED BY <1>5, <1>6

\* The steps of threads without a lock that take none.
LEMMA LockIdle ==
    ASSUME TInv, LockInv, NEW t \in Threads, Moved(t), UNCHANGED rwLocks,
           ~Holding(th[t]), ~Holding(th'[t])
    PROVE  LockInv'
BY LockKept

LEMMA FinishFacts ==
    ASSUME TInv, NEW t \in Threads, Finish(t)
    PROVE  Moved(t) /\ th'[t] = IdleThread /\ ~Holding(th'[t])
<1>1. Moved(t) /\ th'[t] = IdleThread
  BY DEF Finish, Moved, TInv, ThreadsT
<1> QED BY <1>1 DEF IdleThread, Holding

LEMMA GotoFacts ==
    ASSUME TInv, NEW t \in Threads, NEW p, Goto(t, p)
    PROVE  /\ Moved(t) /\ th'[t].pc = p /\ th'[t].nested = th[t].nested /\ th'[t].head = th[t].head
           /\ th'[t].parts = th[t].parts /\ th'[t].news = th[t].news /\ th'[t].other = th[t].other
BY DEF Goto, Moved, TInv, ThreadsT, ThreadT

LEMMA ReturnFacts ==
    ASSUME TInv, NEW t \in Threads, SplitReturn(t)
    PROVE  Moved(t) /\ th'[t].pc \in {"idle", "append", "next"} /\ rwLocks' = Released(t)
           /\ th'[t].parts = << >>
<1>1. Moved(t) /\ rwLocks' = Released(t)
  BY DEF SplitReturn, Moved, TInv, ThreadsT
<1>2. CASE th[t].ret = "idle"
  <2>1. th'[t] = IdleThread
    BY <1>2 DEF SplitReturn, TInv, ThreadsT
  <2> QED BY <1>1, <2>1 DEF IdleThread
<1>3. CASE th[t].ret # "idle"
  <2>1. th[t] \in ThreadT(Placed, Known)
    BY DEF TInv, ThreadsT
  <2>2. th'[t].pc = th[t].ret /\ th'[t].parts = << >>
    BY <1>3, <2>1 DEF SplitReturn, TInv, ThreadsT, ThreadT
  <2> QED BY <1>1, <2>1, <2>2 DEF ThreadT
<1> QED BY <1>2, <1>3

LEMMA AppendLocks ==
    ASSUME TInv, LockInv, NEW t \in Threads, AppendStep(t)
    PROVE  LockInv'
<1>n. CASE NextReplica(t)
  <2>1. ~Holding(th[t]) /\ UNCHANGED rwLocks
    BY <1>n DEF NextReplica, Holding, locks
  <2>2. CASE Finish(t)
    BY <2>1, <2>2, FinishFacts, LockIdle
  <2>3. CASE th' = [th EXCEPT ![t].pc = "append", ![t].head = Head(th[t].sel), ![t].sel = Tail(@)]
    <3>1. Moved(t) /\ th'[t].pc = "append"
      BY <2>3 DEF Moved, TInv, ThreadsT, ThreadT
    <3>2. ~Holding(th'[t])
      BY <3>1 DEF Holding
    <3> QED BY <2>1, <3>1, <3>2, LockIdle
  <2> QED BY <1>n, <2>2, <2>3 DEF NextReplica
<1>h. CASE AppendHeadMiss(t)
  <2>1. ~Holding(th[t]) /\ UNCHANGED rwLocks
    BY <1>h DEF AppendHeadMiss, Holding, locks
  <2>2. Moved(t) /\ th'[t].pc = "next"
    BY <1>h, GotoFacts DEF AppendHeadMiss
  <2>3. ~Holding(th'[t])
    BY <2>2 DEF Holding
  <2> QED BY <2>1, <2>2, <2>3, LockIdle
<1>c. CASE AppendCheck(t)
  <2>1. ~Holding(th[t]) /\ UNCHANGED rwLocks
    BY <1>c DEF AppendCheck, Holding, locks
  <2>2. Moved(t) /\ th'[t].pc = "appendlock"
    BY <1>c, GotoFacts DEF AppendCheck
  <2>3. ~Holding(th'[t])
    BY <2>2 DEF Holding
  <2> QED BY <2>1, <2>2, <2>3, LockIdle
<1>r. CASE AppendRecheck(t)
  <2>1. ~Holding(th[t]) /\ UNCHANGED rwLocks
    BY <1>r DEF AppendRecheck, Holding, locks
  <2>2. Moved(t) /\ th'[t].pc = "append"
    BY <1>r, GotoFacts DEF AppendRecheck
  <2>3. ~Holding(th'[t])
    BY <2>2 DEF Holding
  <2> QED BY <2>1, <2>2, <2>3, LockIdle
<1>m. CASE AppendMerge(t)
  <2>1. ~Holding(th[t]) /\ UNCHANGED rwLocks
    BY <1>m DEF AppendMerge, Holding, locks
  <2>2. Moved(t) /\ th'[t].pc = "appended"
    BY <1>m, GotoFacts DEF AppendMerge
  <2>3. ~Holding(th'[t])
    BY <2>2 DEF Holding
  <2> QED BY <2>1, <2>2, <2>3, LockIdle
<1>f. CASE AppendFull(t)
  <2>1. th[t].head \in HeadIds
    BY <1>f, HeadOfThread DEF AppendFull, HeadPcs
  <2>2. Moved(t) /\ th'[t].pc = "split" /\ th'[t].nested = TRUE /\ th'[t].head = th[t].head
    BY <1>f DEF AppendFull, Moved, TInv, ThreadsT, ThreadT
  <2>3. Holding(th'[t])
    BY <2>2 DEF Holding
  <2> QED BY <1>f, <2>1, <2>2, <2>3, LockTaken DEF AppendFull
<1>x. CASE AppendFails(t)
  <2>1. ~Holding(th[t]) /\ UNCHANGED rwLocks
    BY <1>x DEF AppendFails, Holding, locks
  <2> QED BY <1>x, <2>1, FinishFacts, LockIdle DEF AppendFails
<1>e. CASE AppendEnd(t)
  <2>1. ~Holding(th[t]) /\ UNCHANGED rwLocks
    BY <1>e DEF AppendEnd, Holding, locks
  <2>2. CASE Goto(t, "next")
    <3>1. Moved(t) /\ th'[t].pc = "next"
      BY <2>2, GotoFacts
    <3>2. ~Holding(th'[t])
      BY <3>1 DEF Holding
    <3> QED BY <2>1, <3>1, <3>2, LockIdle
  <2>3. CASE th' = [th EXCEPT ![t].pc = "split", ![t].nested = FALSE, ![t].ret = "next",
                              ![t].reassign = ~DisableReassign]
    <3>1. Moved(t) /\ th'[t].pc = "split" /\ th'[t].nested = FALSE
      BY <2>3 DEF Moved, TInv, ThreadsT, ThreadT
    <3>2. ~Holding(th'[t])
      BY <3>1 DEF Holding
    <3> QED BY <2>1, <3>1, <3>2, LockIdle
  <2> QED BY <1>e, <2>2, <2>3 DEF AppendEnd
<1> QED BY <1>n, <1>h, <1>c, <1>r, <1>f, <1>m, <1>x, <1>e DEF AppendStep

\* A split that returns gives the lock back.
LEMMA ReturnLocks ==
    ASSUME TInv, LockInv, NEW t \in Threads, th[t].pc \in HeadPcs, SplitReturn(t)
    PROVE  LockInv'
<1>1. Moved(t) /\ th'[t].pc \in {"idle", "append", "next"} /\ rwLocks' = Released(t)
  BY ReturnFacts
<1>2. ~Holding(th'[t])
  BY <1>1 DEF Holding
<1>3. th[t].head \in HeadIds
  BY HeadOfThread
<1> QED BY <1>1, <1>2, <1>3, LockReleased

\* A split that goes on keeps it.
LEMMA OngoingLocks ==
    ASSUME TInv, LockInv, NEW t \in Threads, Moved(t), UNCHANGED rwLocks,
           th[t].pc \in {"cluster", "center", "put", "addrow"},
           th'[t].pc \in {"cluster", "center", "put", "addrow"}, th'[t].head = th[t].head
    PROVE  LockInv'
<1>1. Holding(th[t]) /\ Holding(th'[t])
  BY DEF Holding
<1> QED BY <1>1, LockKept

LEMMA SplitLocks ==
    ASSUME TInv, LockInv, NEW t \in Threads, SplitStep(t)
    PROVE  LockInv'
<1>0. th \in [Threads -> ThreadT(Placed, Known)] /\ th[t] \in ThreadT(Placed, Known)
  BY DEF TInv, ThreadsT
<1>r. CASE \/ SplitMissing(t) \/ SplitFails(t) \/ SplitCollectGarbage(t) \/ SplitOneCluster(t)
           \/ SplitPutFails(t) \/ SplitDeleteFails(t) \/ CollectReAssign(t)
  <2>1. SplitReturn(t) /\ th[t].pc \in HeadPcs
    BY <1>r DEF SplitMissing, SplitFails, SplitCollectGarbage, SplitOneCluster, SplitPutFails,
               SplitDeleteFails, CollectReAssign, MayEnterSplit, HeadPcs, SplitPcs
  <2> QED BY <2>1, ReturnLocks
<1>c. CASE SplitClusters(t)
  <2>1. th[t].pc = "split" /\ (th[t].nested \/ Unlocked(th[t].head))
        /\ rwLocks' = [rwLocks EXCEPT ![Stripe(th[t].head)] = t]
    BY <1>c DEF SplitClusters, MayEnterSplit
  <2>2. th[t].head \in HeadIds
    BY <2>1, HeadOfThread DEF HeadPcs
  <2>3. PICK p, z : th' = [th EXCEPT ![t].pc = "cluster", ![t].same = z, ![t].news = << >>, ![t].parts = p]
    BY <1>c DEF SplitClusters
  <2>4. Moved(t) /\ th'[t].pc = "cluster" /\ th'[t].head = th[t].head
    BY <1>0, <2>3 DEF Moved, ThreadT
  <2>5. Holding(th'[t]) /\ (Unlocked(th[t].head) \/ Holding(th[t]))
    BY <2>1, <2>4 DEF Holding
  <2> QED BY <2>1, <2>2, <2>4, <2>5, LockTaken
<1>s. CASE SplitSameHead(t)
  <2>1. th[t].pc = "cluster" /\ UNCHANGED rwLocks
    BY <1>s DEF SplitSameHead, locks
  <2>2. Moved(t) /\ th'[t].pc = "cluster" /\ th'[t].head = th[t].head
    BY <1>s, <1>0, <2>1 DEF SplitSameHead, Moved, ThreadT
  <2> QED BY <2>1, <2>2, OngoingLocks
<1>n. CASE SplitNewHead(t)
  <2>1. th[t].pc = "cluster" /\ UNCHANGED rwLocks
    BY <1>n DEF SplitNewHead, locks
  <2>2. PICK p \in {"center", "put"} : th' = [th EXCEPT ![t].other = NumSamples, ![t].pc = p]
    BY <1>n DEF SplitNewHead
  <2>3. Moved(t) /\ th'[t].pc = p /\ th'[t].head = th[t].head
    BY <1>0, <2>2 DEF Moved, ThreadT
  <2> QED BY <2>1, <2>2, <2>3, OngoingLocks
<1>i. CASE SplitIncVersion(t)
  <2>1. th[t].pc = "center" /\ UNCHANGED rwLocks /\ Goto(t, "put")
    BY <1>i DEF SplitIncVersion, locks
  <2> QED BY <2>1, GotoFacts, OngoingLocks
<1>p. CASE SplitPut(t)
  <2>1. th[t].pc = "put" /\ UNCHANGED rwLocks /\ Goto(t, "addrow")
    BY <1>p DEF SplitPut, locks
  <2> QED BY <2>1, GotoFacts, OngoingLocks
<1>a. CASE SplitAddRow(t)
  <2>1. th[t].pc = "addrow" /\ UNCHANGED rwLocks
    BY <1>a DEF SplitAddRow, locks
  <2>2. Moved(t) /\ th'[t].pc = "cluster" /\ th'[t].head = th[t].head
    BY <1>a, <1>0 DEF SplitAddRow, Moved, ThreadT
  <2> QED BY <2>1, <2>2, OngoingLocks
<1>o. CASE SplitOldHead(t)
  <2>1. th[t].pc = "cluster" /\ rwLocks' = (IF th[t].nested THEN rwLocks ELSE Released(t))
    BY <1>o DEF SplitOldHead
  <2>2. Moved(t) /\ th'[t].pc = "erase" /\ th'[t].nested = th[t].nested /\ th'[t].head = th[t].head
    BY <1>o, GotoFacts DEF SplitOldHead
  <2>3. th[t].head \in HeadIds
    BY <2>1, HeadOfThread DEF HeadPcs, SplitPcs
  <2>4. CASE th[t].nested
    <3>1. Holding(th[t]) /\ Holding(th'[t])
      BY <2>1, <2>2, <2>4 DEF Holding
    <3> QED BY <2>1, <2>2, <2>4, <3>1, LockKept
  <2>5. CASE ~th[t].nested
    <3>1. ~Holding(th'[t])
      BY <2>2, <2>5 DEF Holding
    <3> QED BY <2>1, <2>2, <2>3, <2>5, <3>1, LockReleased
  <2> QED BY <2>4, <2>5
<1>e. CASE SplitErase(t)
  <2>1. th[t].pc = "erase"
    BY <1>e DEF SplitErase
  <2>2. CASE SplitReturn(t)
    BY <2>1, <2>2, ReturnLocks DEF HeadPcs, SplitPcs
  <2>3. CASE Goto(t, "collect") /\ UNCHANGED rwLocks
    <3>1. Moved(t) /\ th'[t].pc = "collect" /\ th'[t].nested = th[t].nested /\ th'[t].head = th[t].head
      BY <2>3, GotoFacts
    <3>2. Holding(th'[t]) <=> Holding(th[t])
      BY <2>1, <3>1 DEF Holding
    <3> QED BY <2>3, <3>1, <3>2, LockKept
  <2> QED BY <1>e, <2>2, <2>3 DEF SplitErase
<1> QED BY <1>r, <1>c, <1>s, <1>n, <1>i, <1>p, <1>a, <1>o, <1>e DEF SplitStep

LEMMA MergeLocks ==
    ASSUME TInv, LockInv, NEW t \in Threads, MergeStep(t)
    PROVE  LockInv'
<1>0. th \in [Threads -> ThreadT(Placed, Known)] /\ th[t] \in ThreadT(Placed, Known)
  BY DEF TInv, ThreadsT
<1>f. CASE MergeRequeue(t) \/ MergeAbandon(t) \/ MergeNotNeeded(t) \/ MergeReassign(t)
  <2>1. ~Holding(th[t]) /\ UNCHANGED rwLocks /\ Finish(t)
    BY <1>f DEF MergeRequeue, MergeAbandon, MergeNotNeeded, MergeReassign, Holding, locks
  <2> QED BY <2>1, FinishFacts, LockIdle
<1>b. CASE MergeBegin(t)
  <2>1. ~Holding(th[t]) /\ UNCHANGED rwLocks
    BY <1>b DEF MergeBegin, Holding, locks
  <2>2. Moved(t) /\ th'[t].pc = "mergelock"
    BY <1>b, GotoFacts DEF MergeBegin
  <2>3. ~Holding(th'[t])
    BY <2>2 DEF Holding
  <2> QED BY <2>1, <2>2, <2>3, LockIdle
<1>s. CASE MergeSearch(t)
  <2>1. th[t].pc = "mergelock" /\ Unlocked(th[t].head)
        /\ rwLocks' = [rwLocks EXCEPT ![Stripe(th[t].head)] = t]
    BY <1>s DEF MergeSearch
  <2>2. th[t].head \in HeadIds
    BY <2>1, HeadOfThread DEF HeadPcs, MergePcs
  <2>3. PICK p, c : th' = [th EXCEPT ![t].pc = "candidate", ![t].cand = c, ![t].parts = p]
    BY <1>s DEF MergeSearch
  <2>4. Moved(t) /\ th'[t].pc = "candidate" /\ th'[t].head = th[t].head
    BY <1>0, <2>3 DEF Moved, ThreadT
  <2>5. Holding(th'[t])
    BY <2>4 DEF Holding
  <2> QED BY <2>1, <2>2, <2>4, <2>5, LockTaken
<1>c. CASE MergeCandidate(t) \/ MergeOtherMissing(t)
  <2>1. th[t].pc \in {"candidate", "mergeother"} /\ UNCHANGED rwLocks
    BY <1>c DEF MergeCandidate, MergeOtherMissing, MayLockOther, locks
  <2>2. Moved(t) /\ th'[t].pc \in {"candidate", "mergeother"} /\ th'[t].head = th[t].head
    <3>1. CASE MergeOtherMissing(t)
      BY <3>1, <1>0 DEF MergeOtherMissing, Moved, ThreadT
    <3>2. CASE MergeCandidate(t)
      <4>1. PICK c : th' = [th EXCEPT ![t].pc = "mergeother", ![t].other = c]
                     \/ th' = [th EXCEPT ![t].cand = @ \ {c}]
        BY <3>2 DEF MergeCandidate
      <4> QED BY <3>2, <4>1, <1>0 DEF MergeCandidate, Moved, ThreadT
    <3> QED BY <1>c, <3>1, <3>2
  <2>3. Holding(th[t]) /\ Holding(th'[t])
    BY <2>1, <2>2 DEF Holding
  <2> QED BY <2>1, <2>2, <2>3, LockKept
<1>o. CASE \/ MergeOtherFails(t) \/ MergeDeleteFails(t) \/ MergePutFails(t) \/ MergeWriteBack(t)
           \/ MergeWriteBackFails(t)
  <2>1. Finish(t) /\ rwLocks' = Released(t) /\ th[t].pc \in {"candidate", "mergeother"}
    BY <1>o DEF MergeOtherFails, MergeDeleteFails, MergePutFails, MergeWriteBack,
               MergeWriteBackFails, MayLockOther, Merged
  <2>2. th[t].head \in HeadIds
    BY <2>1, HeadOfThread DEF HeadPcs, MergePcs
  <2> QED BY <2>1, <2>2, FinishFacts, LockReleased
<1>m. CASE MergeOther(t)
  <2>1. rwLocks' = Released(t) /\ th[t].pc = "mergeother"
    BY <1>m DEF MergeOther, MayLockOther, Merged
  <2>2. th[t].head \in HeadIds
    BY <2>1, HeadOfThread DEF HeadPcs, MergePcs
  <2>3. PICK n, p : th' = [th EXCEPT ![t].pc = "merged", ![t].news = n, ![t].parts = p, ![t].cand = {}]
    BY <1>m DEF MergeOther
  <2>4. Moved(t) /\ th'[t].pc = "merged"
    BY <1>0, <2>3 DEF Moved, ThreadT
  <2>5. ~Holding(th'[t])
    BY <2>4 DEF Holding
  <2> QED BY <2>1, <2>2, <2>4, <2>5, LockReleased
<1> QED BY <1>f, <1>b, <1>s, <1>c, <1>o, <1>m DEF MergeStep

LEMMA ReassignLocks ==
    ASSUME TInv, LockInv, NEW t \in Threads, ReassignStep(t)
    PROVE  LockInv'
<1>0. th \in [Threads -> ThreadT(Placed, Known)] /\ th[t] \in ThreadT(Placed, Known)
  BY DEF TInv, ThreadsT
<1>1. ~Holding(th[t]) /\ UNCHANGED rwLocks
  BY DEF ReassignStep, ReassignStale, ReassignNotNeeded, ReassignSelect, ReassignCheck,
         ReassignIncVersion, Holding, locks
<1>2. CASE Finish(t)
  BY <1>1, <1>2, FinishFacts, LockIdle
<1>3. CASE Goto(t, "inc")
  <2>1. Moved(t) /\ th'[t].pc = "inc"
    BY <1>3, GotoFacts
  <2>2. ~Holding(th'[t])
    BY <2>1 DEF Holding
  <2> QED BY <1>1, <2>1, <2>2, LockIdle
<1>4. CASE ReassignSelect(t)
  <2>1. PICK s : th' = [th EXCEPT ![t].pc = "reassigncheck", ![t].sel = s, ![t].head = NoHead]
    BY <1>4 DEF ReassignSelect
  <2>2. Moved(t) /\ th'[t].pc = "reassigncheck"
    BY <1>0, <2>1 DEF Moved, ThreadT
  <2>3. ~Holding(th'[t])
    BY <2>2 DEF Holding
  <2> QED BY <1>1, <2>2, <2>3, LockIdle
<1>5. CASE ReassignIncVersion(t)
  <2>1. PICK n : th' = [th EXCEPT ![t].pc = "next", ![t].e.ver = n]
    BY <1>5 DEF ReassignIncVersion
  <2>2. Moved(t) /\ th'[t].pc = "next"
    BY <1>0, <2>1 DEF Moved, ThreadT
  <2>3. ~Holding(th'[t])
    BY <2>2 DEF Holding
  <2> QED BY <1>1, <2>2, <2>3, LockIdle
<1> QED BY <1>2, <1>3, <1>4, <1>5 DEF ReassignStep, ReassignStale, ReassignNotNeeded, ReassignCheck

LEMMA CallLocks ==
    ASSUME TInv, LockInv, NEW t \in Threads,
           \/ TakeJob(t) \/ \E v \in Vectors : AddIndex(t, v) \/ DeleteIndex(t, v)
           \/ \E h \in HeadIds : SearchIndex(t, h)
    PROVE  LockInv'
<1>0. th \in [Threads -> ThreadT(Placed, Known)]
  BY DEF TInv, ThreadsT
<1>1. ~Holding(th[t]) /\ UNCHANGED rwLocks
  BY DEF TakeJob, AddIndex, DeleteIndex, SearchIndex, Holding, locks
<1>2. CASE UNCHANGED th
  BY <1>1, <1>2, LockIdle DEF Moved
<1>3. CASE \E v \in Vectors : AddIndex(t, v)
  <2>1. PICK s, f : th' = [th EXCEPT ![t] = [IdleThread EXCEPT !.pc = "next", !.sel = s, !.e = f]]
    BY <1>3 DEF AddIndex
  <2>2. Moved(t) /\ th'[t].pc = "next"
    BY <1>0, <2>1 DEF Moved, IdleThread
  <2>3. ~Holding(th'[t])
    BY <2>2 DEF Holding
  <2> QED BY <1>1, <2>2, <2>3, LockIdle
<1>4. CASE TakeJob(t)
  <2> DEFINE j == Head(jobs)
  <2>1. jobs \in Seq(JobT(Placed, Known)) /\ jobs # << >>
    BY <1>4 DEF TInv, RestT, TakeJob
  <2>2. j \in JobT(Placed, Known)
    BY <2>1
  <2>3. j.type \in {"split", "merge", "reassign"}
    BY <2>2 DEF JobT, ReassignT
  <2>4. CASE j.type \in {"split", "merge"}
    <3>1. th' = [th EXCEPT ![t] = [IdleThread EXCEPT !.pc = j.type, !.head = j.head,
                                                     !.reassign = j.reassign]]
      BY <1>4, <2>4 DEF TakeJob
    <3> HIDE DEF j
    <3>2. Moved(t) /\ th'[t].pc = j.type /\ th'[t].nested = FALSE
      BY <1>0, <3>1 DEF Moved, IdleThread
    <3>3. ~Holding(th'[t])
      BY <2>4, <3>2 DEF Holding
    <3> QED BY <1>1, <3>2, <3>3, LockIdle
  <2>5. CASE j.type = "reassign"
    <3>1. th' = [th EXCEPT ![t] = [IdleThread EXCEPT !.pc = "reassign", !.head = j.prev, !.e = j.e,
                                                     !.slack = ReassignThreshold]]
      BY <1>4, <2>5 DEF TakeJob
    <3> HIDE DEF j
    <3>2. Moved(t) /\ th'[t].pc = "reassign"
      BY <1>0, <3>1 DEF Moved, IdleThread
    <3>3. ~Holding(th'[t])
      BY <3>2 DEF Holding
    <3> QED BY <1>1, <3>2, <3>3, LockIdle
  <2> QED BY <2>3, <2>4, <2>5
<1> QED BY <1>2, <1>3, <1>4 DEF DeleteIndex, SearchIndex

\* The actions by the thread that takes them.
LEMMA NextByThread ==
    ASSUME Next
    PROVE  \E t \in Threads :
              \/ AppendStep(t) \/ SplitStep(t) \/ MergeStep(t) \/ ReassignStep(t) \/ TakeJob(t)
              \/ \E v \in Vectors : AddIndex(t, v) \/ DeleteIndex(t, v)
              \/ \E h \in HeadIds : SearchIndex(t, h)
<1>1. Clients \subseteq Threads /\ Workers \subseteq Threads
  BY DEF Threads
<1> QED BY <1>1 DEF Next, ThreadStep, WorkerStep

LEMMA LocksInv == Spec => []LockInv
<1>1. Init => LockInv
  BY Configuration DEF Init, LockInv, IdleThread, Holding
<1>2. TInv /\ LockInv /\ [Next]_vars => LockInv'
  <2> SUFFICES ASSUME TInv, LockInv, [Next]_vars PROVE LockInv'
    OBVIOUS
  <2>1. CASE UNCHANGED vars
    BY <2>1 DEF vars, LockInv, Holding, Stripe
  <2>2. CASE Next
    BY <2>2, NextByThread, AppendLocks, SplitLocks, MergeLocks, ReassignLocks, CallLocks
  <2> QED BY <2>1, <2>2
<1> QED BY <1>1, <1>2, TypesInv, PTL DEF Spec

\* No thread leaves a posting lock behind, whatever fails while it holds one: Split and
\* MergePostings give the lock of their stripe back on every return, and only the thread
\* that holds a lock is in a phase that needs it (ExtraDynamicSearcher.h:1012-1525).
THEOREM LocksStayReleased == Spec => []LocksReleased
<1>1. TInv /\ LockInv => LocksReleased
  <2> SUFFICES ASSUME TInv, LockInv, NEW s \in DOMAIN rwLocks, rwLocks[s] # NoThread
               PROVE  th[rwLocks[s]].pc \in {"split", "cluster", "center", "put", "addrow", "erase",
                                             "collect", "candidate", "mergeother"}
    BY DEF LocksReleased
  <2>1. s \in 0 .. Stripes - 1 /\ rwLocks[s] \in Threads
    BY DEF TInv, RestT
  <2>2. Holding(th[rwLocks[s]])
    BY <2>1 DEF LockInv
  <2> QED BY <2>2 DEF Holding
<1> QED BY <1>1, TypesInv, LocksInv, PTL

-----------------------------------------------------------------------------
(***************************************************************************)
(* m_postingSizes.                                                         *)
(***************************************************************************)

\* The phases that the invariants below say nothing of.
QuietPcs == {"idle", "next", "append", "appendlock", "appended", "split", "reassign",
             "reassigncheck", "inc", "merge", "merged"}

Quiet(t) == Moved(t) /\ th'[t].pc \in QuietPcs

LEMMA FinishQuiet ==
    ASSUME TInv, NEW t \in Threads, Finish(t)
    PROVE  Quiet(t) /\ th'[t].pc \notin MergePcs
BY FinishFacts DEF Quiet, QuietPcs, MergePcs, IdleThread

LEMMA ReturnQuiet ==
    ASSUME TInv, NEW t \in Threads, SplitReturn(t)
    PROVE  Quiet(t) /\ th'[t].pc \notin MergePcs
BY ReturnFacts DEF Quiet, QuietPcs, MergePcs

LEMMA GotoQuiet ==
    ASSUME TInv, NEW t \in Threads, NEW p \in QuietPcs \ MergePcs, Goto(t, p)
    PROVE  Quiet(t) /\ th'[t].pc \notin MergePcs
BY GotoFacts DEF Quiet

LEMMA AppendQuiet ==
    ASSUME TInv, NEW t \in Threads, AppendStep(t)
    PROVE  Quiet(t) /\ th'[t].pc \notin MergePcs
<1>0. th \in [Threads -> ThreadT(Placed, Known)] /\ th[t] \in ThreadT(Placed, Known)
  BY DEF TInv, ThreadsT
<1>1. CASE Finish(t)
  BY <1>1, FinishQuiet
<1>2. CASE \E p \in QuietPcs \ MergePcs : Goto(t, p)
  BY <1>2, GotoQuiet
<1>3. CASE th' = [th EXCEPT ![t].pc = "append", ![t].head = Head(th[t].sel), ![t].sel = Tail(@)]
  BY <1>0, <1>3 DEF Quiet, QuietPcs, MergePcs, Moved, ThreadT
<1>4. CASE AppendFull(t)
  BY <1>0, <1>4 DEF AppendFull, Quiet, QuietPcs, MergePcs, Moved, ThreadT
<1>5. CASE th' = [th EXCEPT ![t].pc = "split", ![t].nested = FALSE, ![t].ret = "next",
                            ![t].reassign = ~DisableReassign]
  BY <1>0, <1>5 DEF Quiet, QuietPcs, MergePcs, Moved, ThreadT
<1>6. {"next", "append", "appendlock", "appended"} \subseteq QuietPcs \ MergePcs
  BY DEF QuietPcs, MergePcs
<1> QED BY <1>1, <1>2, <1>3, <1>4, <1>5, <1>6
        DEF AppendStep, NextReplica, AppendHeadMiss, AppendCheck, AppendRecheck, AppendMerge,
            AppendFails, AppendEnd

LEMMA ReassignQuiet ==
    ASSUME TInv, NEW t \in Threads, ReassignStep(t)
    PROVE  Quiet(t) /\ th'[t].pc \notin MergePcs
<1>0. th \in [Threads -> ThreadT(Placed, Known)] /\ th[t] \in ThreadT(Placed, Known)
  BY DEF TInv, ThreadsT
<1>1. CASE Finish(t)
  BY <1>1, FinishQuiet
<1>2. CASE Goto(t, "inc")
  BY <1>2, GotoQuiet DEF QuietPcs, MergePcs
<1>3. CASE ReassignSelect(t)
  <2>1. PICK s : th' = [th EXCEPT ![t].pc = "reassigncheck", ![t].sel = s, ![t].head = NoHead]
    BY <1>3 DEF ReassignSelect
  <2> QED BY <1>0, <2>1 DEF Quiet, QuietPcs, MergePcs, Moved, ThreadT
<1>4. CASE ReassignIncVersion(t)
  <2>1. PICK n : th' = [th EXCEPT ![t].pc = "next", ![t].e.ver = n]
    BY <1>4 DEF ReassignIncVersion
  <2> QED BY <1>0, <2>1 DEF Quiet, QuietPcs, MergePcs, Moved, ThreadT
<1> QED BY <1>1, <1>2, <1>3, <1>4 DEF ReassignStep, ReassignStale, ReassignNotNeeded, ReassignCheck

LEMMA CallQuiet ==
    ASSUME TInv, NEW t \in Threads,
           \/ TakeJob(t) \/ \E v \in Vectors : AddIndex(t, v) \/ DeleteIndex(t, v)
           \/ \E h \in HeadIds : SearchIndex(t, h)
    PROVE  Quiet(t)
<1>0. th \in [Threads -> ThreadT(Placed, Known)]
  BY DEF TInv, ThreadsT
<1>1. CASE UNCHANGED th /\ th[t].pc = "idle"
  BY <1>1 DEF Quiet, QuietPcs, Moved
<1>2. CASE \E v \in Vectors : AddIndex(t, v)
  <2>1. PICK s, f : th' = [th EXCEPT ![t] = [IdleThread EXCEPT !.pc = "next", !.sel = s, !.e = f]]
    BY <1>2 DEF AddIndex
  <2>2. Moved(t) /\ th'[t].pc = "next"
    BY <1>0, <2>1 DEF Moved, IdleThread
  <2> QED BY <2>2 DEF Quiet, QuietPcs
<1>3. CASE TakeJob(t)
  <2> DEFINE j == Head(jobs)
  <2>1. jobs \in Seq(JobT(Placed, Known)) /\ jobs # << >>
    BY <1>3 DEF TInv, RestT, TakeJob
  <2>2. j \in JobT(Placed, Known)
    BY <2>1
  <2>3. j.type \in {"split", "merge", "reassign"}
    BY <2>2 DEF JobT, ReassignT
  <2>4. CASE j.type \in {"split", "merge"}
    <3>1. th' = [th EXCEPT ![t] = [IdleThread EXCEPT !.pc = j.type, !.head = j.head,
                                                     !.reassign = j.reassign]]
      BY <1>3, <2>4 DEF TakeJob
    <3> HIDE DEF j
    <3>2. Moved(t) /\ th'[t].pc = j.type
      BY <1>0, <3>1 DEF Moved, IdleThread
    <3> QED BY <2>4, <3>2 DEF Quiet, QuietPcs
  <2>5. CASE j.type = "reassign"
    <3>1. th' = [th EXCEPT ![t] = [IdleThread EXCEPT !.pc = "reassign", !.head = j.prev, !.e = j.e,
                                                     !.slack = ReassignThreshold]]
      BY <1>3, <2>5 DEF TakeJob
    <3> HIDE DEF j
    <3>2. Moved(t) /\ th'[t].pc = "reassign"
      BY <1>0, <3>1 DEF Moved, IdleThread
    <3> QED BY <3>2 DEF Quiet, QuietPcs
  <2> QED BY <2>3, <2>4, <2>5
<1> QED BY <1>1, <1>2, <1>3 DEF DeleteIndex, SearchIndex

\* Sizes are right for visible heads; the list of a head that is about to become visible
\* is the one whose length it will be given.
SizeInv ==
    /\ \A h \in HeadIds : head[h] = "visible" => sizes[h] = Len(db[h])
    /\ \A t \in Threads : th[t].pc = "addrow" => db[th[t].other] = th[t].parts[Cluster(t)]

LEMMA SizeStep ==
    ASSUME TInv, SizeInv, NEW t \in Threads, Moved(t), th'[t].pc # "addrow",
           \A h \in HeadIds : head'[h] = "visible" => sizes'[h] = Len(db'[h]),
           \A h \in HeadIds : head[h] = "added" => db'[h] = db[h]
    PROVE  SizeInv'
<1>1. ASSUME NEW u \in Threads, th'[u].pc = "addrow"
      PROVE  db'[th'[u].other] = th'[u].parts[Len(th'[u].news) + 1]
  <2>1. th'[u] = th[u] /\ th[u].pc = "addrow"
    BY <1>1 DEF Moved
  <2>2. th[u].other \in HeadIds /\ head[th[u].other] = "added"
    BY <2>1 DEF TInv, ThreadsT, Shape, Creating, Pending
  <2>3. db[th[u].other] = th[u].parts[Len(th[u].news) + 1]
    BY <2>1 DEF SizeInv, Cluster
  <2>4. db'[th[u].other] = db[th[u].other]
    BY <2>2
  <2> QED BY <2>1, <2>3, <2>4
<1> QED BY <1>1 DEF SizeInv, Cluster

\* A step that leaves the postings alone.
LEMMA SizeKept ==
    ASSUME TInv, SizeInv, NEW t \in Threads, Moved(t), th'[t].pc # "addrow",
           UNCHANGED <<head, db, sizes>>
    PROVE  SizeInv'
<1>1. \A h \in HeadIds : head'[h] = "visible" => sizes'[h] = Len(db'[h])
  BY DEF SizeInv
<1> QED BY <1>1, SizeStep

\* A step that writes a list and its length.
LEMMA SizeWritten ==
    ASSUME TInv, SizeInv, NEW t \in Threads, Moved(t), th'[t].pc # "addrow", UNCHANGED head,
           NEW h \in Placed, NEW list \in Seq(Known),
           db' = [db EXCEPT ![h] = list], sizes' = [sizes EXCEPT ![h] = Len(list)]
    PROVE  SizeInv'
<1>1. h \in HeadIds /\ head[h] # "added"
  BY DEF Placed
<1>2. db'[h] = list /\ sizes'[h] = Len(list)
  BY <1>1 DEF TInv, StoreT
<1>3. \A k \in HeadIds \ {h} : db'[k] = db[k] /\ sizes'[k] = sizes[k]
  BY <1>1 DEF TInv, StoreT
<1>4. \A k \in HeadIds : head'[k] = "visible" => sizes'[k] = Len(db'[k])
  BY <1>2, <1>3 DEF SizeInv
<1>5. \A k \in HeadIds : head[k] = "added" => db'[k] = db[k]
  BY <1>1, <1>3
<1> QED BY <1>4, <1>5, SizeStep

\* A step that deletes a head, whatever becomes of its list.
LEMMA SizeDeleted ==
    ASSUME TInv, SizeInv, NEW t \in Threads, Moved(t), th'[t].pc # "addrow",
           NEW h \in Placed, head' = [head EXCEPT ![h] = "deleted"],
           \A k \in HeadIds \ {h} : /\ head[k] = "visible" => sizes'[k] = Len(db'[k])
                                    /\ head[k] = "added" => db'[k] = db[k]
    PROVE  SizeInv'
<1>1. h \in HeadIds /\ head[h] # "added"
  BY DEF Placed
<1>2. \A k \in HeadIds : head'[k] = IF k = h THEN "deleted" ELSE head[k]
  BY <1>1 DEF TInv, StoreT
<1>3. \A k \in HeadIds : head'[k] = "visible" => sizes'[k] = Len(db'[k])
  BY <1>2
<1>4. \A k \in HeadIds : head[k] = "added" => db'[k] = db[k]
  BY <1>1
<1> QED BY <1>3, <1>4, SizeStep

LEMMA SizeRemoved ==
    ASSUME TInv, SizeInv, NEW t \in Threads, Moved(t), th'[t].pc # "addrow",
           NEW h \in Placed, head' = [head EXCEPT ![h] = "deleted"],
           \A k \in HeadIds \ {h} : sizes'[k] = sizes[k] /\ db'[k] = db[k]
    PROVE  SizeInv'
<1>1. h \in HeadIds /\ head[h] # "added"
  BY DEF Placed
<1>2. \A k \in HeadIds : head'[k] = IF k = h THEN "deleted" ELSE head[k]
  BY <1>1 DEF TInv, StoreT
<1>3. \A k \in HeadIds : head'[k] = "visible" => k # h /\ head[k] = "visible"
  BY <1>2
<1>4. \A k \in HeadIds : head'[k] = "visible" => sizes'[k] = Len(db'[k])
  BY <1>3 DEF SizeInv
<1>5. \A k \in HeadIds : head[k] = "added" => db'[k] = db[k]
  BY <1>1
<1> QED BY <1>4, <1>5, SizeStep

LEMMA AppendSizes ==
    ASSUME TInv, SizeInv, NEW t \in Threads, AppendStep(t)
    PROVE  SizeInv'
<1>0. Moved(t) /\ th'[t].pc # "addrow"
  BY AppendQuiet DEF Quiet, QuietPcs
<1>m. CASE AppendMerge(t)
  <2> DEFINE h == th[t].head
             list == Append(db[h], th[t].e)
  <2>1. h \in Placed /\ h \in HeadIds /\ th[t].e \in Known
    BY <1>m, HeadOfThread, EntryOfThread DEF AppendMerge, HeadPcs, EntryPcs
  <2>2. db[h] \in Seq(Known) /\ sizes[h] = Len(db[h])
    BY <1>m, <2>1 DEF AppendMerge, ContainSample, Placed, TInv, StoreT, SizeInv
  <2>3. list \in Seq(Known) /\ Len(list) = sizes[h] + 1
    BY <2>1, <2>2
  <2>4. db' = [db EXCEPT ![h] = list] /\ sizes' = [sizes EXCEPT ![h] = Len(list)] /\ UNCHANGED head
    BY <1>m, <2>3 DEF AppendMerge
  <2> HIDE DEF list
  <2> QED BY <1>0, <2>1, <2>3, <2>4, SizeWritten
<1>o. CASE UNCHANGED store
  BY <1>0, <1>o, SizeKept DEF store
<1> QED BY <1>m, <1>o DEF AppendStep, NextReplica, AppendHeadMiss, AppendCheck, AppendRecheck,
                          AppendFull, AppendFails, AppendEnd

\* Split up to the two clusters.
LEMMA SplitEntrySizes ==
    ASSUME TInv, SizeInv, NEW t \in Threads,
           \/ SplitMissing(t) \/ SplitFails(t) \/ SplitCollectGarbage(t) \/ SplitOneCluster(t)
           \/ SplitClusters(t)
    PROVE  SizeInv'
<1> DEFINE h == th[t].head
           live == Live(db[h])
<1>0. th[t].pc = "split"
  BY DEF SplitMissing, SplitFails, SplitCollectGarbage, SplitOneCluster, SplitClusters, MayEnterSplit
<1>1. h \in Placed /\ h \in HeadIds /\ db[h] \in Seq(Known)
  BY <1>0, HeadOfThread DEF HeadPcs, TInv, StoreT
<1>2. live \in Seq(Known)
  BY <1>1, LiveFacts
<1>3. SplitReturn(t) => Moved(t) /\ th'[t].pc # "addrow"
  BY ReturnQuiet DEF Quiet, QuietPcs
<1>m. CASE SplitMissing(t) \/ SplitFails(t)
  BY <1>m, <1>3, SizeKept DEF SplitMissing, SplitFails, store
<1>g. CASE SplitCollectGarbage(t)
  <2>1. db' = [db EXCEPT ![h] = live] /\ sizes' = [sizes EXCEPT ![h] = Len(live)]
        /\ SplitReturn(t) /\ UNCHANGED head
    BY <1>g DEF SplitCollectGarbage
  <2> HIDE DEF live
  <2> QED BY <1>1, <1>2, <1>3, <2>1, SizeWritten
<1>o. CASE SplitOneCluster(t)
  <2> DEFINE cut == IF OneClusterCutMax THEN PostingSizeLimit ELSE 1
  <2>1. PICK s \in [1 .. cut -> DOMAIN live] : db' = [db EXCEPT ![h] = [i \in 1 .. cut |-> live[s[i]]]]
    BY <1>o DEF SplitOneCluster
  <2>2. sizes' = [sizes EXCEPT ![h] = cut] /\ SplitReturn(t) /\ UNCHANGED head
    BY <1>o DEF SplitOneCluster
  <2>3. cut \in Nat
    BY Configuration
  <2> DEFINE list == [i \in 1 .. cut |-> live[s[i]]]
  <2>4. list \in Seq(Known) /\ Len(list) = cut
    <3> HIDE DEF live, cut
    <3>1. \A i \in 1 .. cut : live[s[i]] \in Known
      BY <1>2
    <3> QED BY <3>1, <2>3
  <2>5. db' = [db EXCEPT ![h] = list] /\ sizes' = [sizes EXCEPT ![h] = Len(list)]
    BY <2>1, <2>2, <2>4
  <2> HIDE DEF list
  <2> QED BY <1>1, <1>3, <2>2, <2>4, <2>5, SizeWritten
<1>c. CASE SplitClusters(t)
  <2>1. PICK p, z : th' = [th EXCEPT ![t].pc = "cluster", ![t].same = z, ![t].news = << >>, ![t].parts = p]
    BY <1>c DEF SplitClusters
  <2>2. Moved(t) /\ th'[t].pc = "cluster"
    BY <2>1 DEF Moved, TInv, ThreadsT, ThreadT
  <2> QED BY <1>c, <2>2, SizeKept DEF SplitClusters, store
<1> QED BY <1>m, <1>g, <1>o, <1>c

LEMMA SplitLaterSizes ==
    ASSUME TInv, SizeInv, NEW t \in Threads,
           \/ SplitSameHead(t) \/ SplitNewHead(t) \/ SplitIncVersion(t) \/ SplitPut(t)
           \/ SplitPutFails(t) \/ SplitAddRow(t) \/ SplitOldHead(t) \/ SplitDeleteFails(t)
           \/ SplitErase(t) \/ CollectReAssign(t)
    PROVE  SizeInv'
<1>0. th \in [Threads -> ThreadT(Placed, Known)] /\ th[t] \in ThreadT(Placed, Known)
  BY DEF TInv, ThreadsT
<1>1. /\ head \in [HeadIds -> {"free", "added", "visible", "deleted"}]
      /\ db \in [HeadIds -> Seq(Known)] /\ sizes \in [HeadIds -> Nat]
  BY DEF TInv, StoreT
<1>2. SplitReturn(t) => Moved(t) /\ th'[t].pc # "addrow"
  BY ReturnQuiet DEF Quiet, QuietPcs
<1>3. \A p : Goto(t, p) => Moved(t) /\ th'[t].pc = p
  BY GotoFacts
<1>s. CASE SplitSameHead(t)
  <2> DEFINE p == th[t].parts[Cluster(t)]
  <2>1. /\ th[t].pc = "cluster" /\ Cluster(t) <= 2 /\ UNCHANGED head
        /\ db' = [db EXCEPT ![th[t].head] = p] /\ sizes' = [sizes EXCEPT ![th[t].head] = Len(p)]
    BY <1>s DEF SplitSameHead
  <2>2. p \in Seq(Known) /\ th[t].head \in Placed
    BY <2>1, PartOfThread, HeadOfThread DEF SplitPcs, HeadPcs
  <2>3. Moved(t) /\ th'[t].pc # "addrow"
    BY <1>s, <1>0, <2>1 DEF SplitSameHead, Moved, ThreadT
  <2> HIDE DEF p
  <2> QED BY <2>1, <2>2, <2>3, SizeWritten
<1>n. CASE SplitNewHead(t)
  <2>1. NumSamples \in HeadIds /\ head[NumSamples] = "free"
    BY <1>n, NextHead, Configuration DEF SplitNewHead, HeadIds
  <2>2. PICK p \in {"center", "put"} : th' = [th EXCEPT ![t].other = NumSamples, ![t].pc = p]
    BY <1>n DEF SplitNewHead
  <2>3. Moved(t) /\ th'[t].pc # "addrow"
    BY <1>0, <2>2 DEF Moved, ThreadT
  <2>4. head' = [head EXCEPT ![NumSamples] = "added"] /\ UNCHANGED <<db, sizes>>
    BY <1>n DEF SplitNewHead
  <2>5. \A h \in HeadIds : head'[h] = "visible" => sizes'[h] = Len(db'[h])
    BY <1>1, <2>1, <2>4 DEF SizeInv
  <2> QED BY <2>3, <2>4, <2>5, SizeStep
<1>i. CASE SplitIncVersion(t)
  BY <1>i, <1>3, SizeKept DEF SplitIncVersion
<1>p. CASE SplitPut(t)
  <2> DEFINE o == th[t].other
             p == th[t].parts[Cluster(t)]
  <2>1. th[t].pc = "put" /\ db' = [db EXCEPT ![o] = p] /\ Goto(t, "addrow") /\ UNCHANGED <<head, sizes>>
    BY <1>p DEF SplitPut
  <2>2. o \in HeadIds /\ head[o] = "added"
    BY <2>1 DEF TInv, ThreadsT, Shape, Creating, Pending
  <2>3. \A k \in HeadIds : db'[k] = IF k = o THEN p ELSE db[k]
    BY <1>1, <2>1, <2>2
  <2>4. \A h \in HeadIds : head'[h] = "visible" => sizes'[h] = Len(db'[h])
    BY <2>1, <2>2, <2>3 DEF SizeInv
  <2>5. ASSUME NEW u \in Threads, th'[u].pc = "addrow"
        PROVE  db'[th'[u].other] = th'[u].parts[Len(th'[u].news) + 1]
    <3>1. CASE u = t
      <4>1. th'[t].parts = th[t].parts /\ th'[t].news = th[t].news /\ th'[t].other = o
        BY <2>1, GotoFacts
      <4>2. db'[o] = th[t].parts[Len(th[t].news) + 1]
        BY <2>2, <2>3 DEF Cluster
      <4> QED BY <3>1, <4>1, <4>2
    <3>2. CASE u # t
      <4>1. th'[u] = th[u] /\ th[u].pc = "addrow"
        BY <1>3, <2>1, <2>5, <3>2 DEF Moved
      <4>2. th[u].other \in HeadIds /\ th[u].other # o
        BY <2>1, <3>2, <4>1 DEF TInv, ThreadsT, Shape, Creating, Pending
      <4>3. db[th[u].other] = th[u].parts[Len(th[u].news) + 1]
        BY <4>1 DEF SizeInv, Cluster
      <4> HIDE DEF p, o
      <4>4. db'[th[u].other] = db[th[u].other]
        BY <2>3, <4>2
      <4> QED BY <4>1, <4>3, <4>4
    <3> QED BY <3>1, <3>2
  <2> QED BY <2>4, <2>5 DEF SizeInv, Cluster
<1>f. CASE SplitPutFails(t) \/ CollectReAssign(t)
  BY <1>f, <1>2, SizeKept DEF SplitPutFails, CollectReAssign, store
<1>a. CASE SplitAddRow(t)
  <2> DEFINE o == th[t].other
             p == th[t].parts[Cluster(t)]
  <2>1. /\ th[t].pc = "addrow" /\ sizes' = [sizes EXCEPT ![o] = Len(p)]
        /\ head' = [head EXCEPT ![o] = "visible"] /\ UNCHANGED db
    BY <1>a DEF SplitAddRow
  <2>2. o \in HeadIds /\ head[o] = "added"
    BY <2>1 DEF TInv, ThreadsT, Shape, Creating, Pending
  <2>3. db[o] = p
    BY <2>1 DEF SizeInv
  <2>4. Moved(t) /\ th'[t].pc # "addrow"
    BY <1>a, <1>0 DEF SplitAddRow, Moved, ThreadT
  <2> HIDE DEF o, p
  <2>5. sizes'[o] = Len(db'[o])
    BY <1>1, <2>1, <2>2, <2>3
  <2>6. \A k \in HeadIds \ {o} : sizes'[k] = sizes[k] /\ head'[k] = head[k] /\ db'[k] = db[k]
    BY <1>1, <2>1, <2>2
  <2>7. \A h \in HeadIds : head'[h] = "visible" => sizes'[h] = Len(db'[h])
    BY <2>5, <2>6 DEF SizeInv
  <2> QED BY <2>1, <2>4, <2>7, SizeStep
<1>o. CASE SplitOldHead(t)
  <2>1. Moved(t) /\ th'[t].pc # "addrow"
    BY <1>o, <1>3 DEF SplitOldHead
  <2>2. CASE th[t].same # 0
    BY <1>o, <2>1, <2>2, SizeKept DEF SplitOldHead
  <2>3. CASE th[t].same = 0
    <3>0. th[t].head \in Placed
      BY <1>o, HeadOfThread DEF SplitOldHead, HeadPcs, SplitPcs
    <3>h. PICK h \in Placed : h = th[t].head
      BY <3>0
    <3>1. /\ head' = [head EXCEPT ![h] = "deleted"] /\ sizes' = [sizes EXCEPT ![h] = 0]
          /\ db' = [db EXCEPT ![h] = << >>]
      BY <1>o, <2>3, <3>h DEF SplitOldHead, RemoveHead
    <3>2. h \in HeadIds
      BY DEF Placed
    <3>3. \A k \in HeadIds \ {h} : sizes'[k] = sizes[k] /\ db'[k] = db[k]
      BY <1>1, <3>1, <3>2
    <3> QED BY <2>1, <3>1, <3>3, SizeRemoved
  <2> QED BY <2>2, <2>3
<1>d. CASE SplitDeleteFails(t)
  <2>0. th[t].head \in Placed
    BY <1>d, HeadOfThread DEF SplitDeleteFails, HeadPcs, SplitPcs
  <2>h. PICK h \in Placed : h = th[t].head
    BY <2>0
  <2>1. head' = [head EXCEPT ![h] = "deleted"] /\ sizes' = [sizes EXCEPT ![h] = 0] /\ UNCHANGED db
    BY <1>d, <2>h DEF SplitDeleteFails, RemoveHead
  <2>2. h \in HeadIds
    BY DEF Placed
  <2>3. Moved(t) /\ th'[t].pc # "addrow"
    BY <1>d, <1>2 DEF SplitDeleteFails
  <2>4. \A k \in HeadIds \ {h} : sizes'[k] = sizes[k] /\ db'[k] = db[k]
    BY <1>1, <2>1, <2>2
  <2> QED BY <2>1, <2>3, <2>4, SizeRemoved
<1>e. CASE SplitErase(t)
  <2>1. Moved(t) /\ th'[t].pc # "addrow"
    BY <1>e, <1>2, <1>3 DEF SplitErase
  <2> QED BY <1>e, <2>1, SizeKept DEF SplitErase, store
<1> QED BY <1>s, <1>n, <1>i, <1>p, <1>f, <1>a, <1>o, <1>d, <1>e

\* A merge of two postings.
LEMMA MergedSizes ==
    ASSUME TInv, SizeInv, NEW t \in Threads, th[t].pc = "mergeother", NEW d \in Seq(Known), Merged(t, d),
           Moved(t), th'[t].pc # "addrow"
    PROVE  SizeInv'
<1> DEFINE m == th[t].parts[1] \o Fresh(t)
           k == Kept(t)
           r == Removed(t)
<1>1. k \in HeadIds /\ r \in HeadIds /\ k \in Placed /\ r \in Placed /\ m \in Seq(Known)
  BY MergedFacts
<1>2. /\ db' = [db EXCEPT ![k] = m, ![r] = d]
      /\ sizes' = [sizes EXCEPT ![k] = Len(m), ![r] = 0]
      /\ head' = [head EXCEPT ![r] = "deleted"]
  BY DEF Merged
<1> HIDE DEF m, k, r
<1>3. db \in [HeadIds -> Seq(Known)] /\ sizes \in [HeadIds -> Nat]
  BY DEF TInv, StoreT
<1>4. k # r => db'[k] = m /\ sizes'[k] = Len(m)
  BY <1>1, <1>2, <1>3
<1>5. \A h \in HeadIds \ {k, r} : db'[h] = db[h] /\ sizes'[h] = sizes[h]
  BY <1>1, <1>2, <1>3
<1>6. \A h \in HeadIds \ {r} : /\ head[h] = "visible" => sizes'[h] = Len(db'[h])
                               /\ head[h] = "added" => db'[h] = db[h]
  BY <1>1, <1>4, <1>5 DEF SizeInv, Placed
<1> QED BY <1>1, <1>2, <1>6, SizeDeleted

LEMMA MergeSizes ==
    ASSUME TInv, SizeInv, NEW t \in Threads, MergeStep(t)
    PROVE  SizeInv'
<1>0. th \in [Threads -> ThreadT(Placed, Known)] /\ th[t] \in ThreadT(Placed, Known)
  BY DEF TInv, ThreadsT
<1>1. db \in [HeadIds -> Seq(Known)] /\ sizes \in [HeadIds -> Nat]
  BY DEF TInv, StoreT
<1>2. Finish(t) => Moved(t) /\ th'[t].pc # "addrow"
  BY FinishQuiet DEF Quiet, QuietPcs
<1>f. CASE \/ MergeRequeue(t) \/ MergeAbandon(t) \/ MergeOtherFails(t) \/ MergeReassign(t)
           \/ MergeWriteBackFails(t)
  <2>1. Finish(t) /\ UNCHANGED store
    BY <1>f DEF MergeRequeue, MergeAbandon, MergeOtherFails, MergeReassign, MergeWriteBackFails
  <2> QED BY <1>2, <2>1, SizeKept DEF store
<1>b. CASE MergeBegin(t)
  BY <1>b, GotoFacts, SizeKept DEF MergeBegin, store
<1>n. CASE MergeNotNeeded(t)
  <2> DEFINE h == th[t].head
             live == Live(db[h])
  <2>1. /\ th[t].pc = "mergelock" /\ db' = [db EXCEPT ![h] = live]
        /\ sizes' = [sizes EXCEPT ![h] = Len(live)] /\ UNCHANGED head /\ Finish(t)
    BY <1>n DEF MergeNotNeeded
  <2>2. h \in Placed /\ h \in HeadIds
    BY <2>1, HeadOfThread DEF HeadPcs, MergePcs
  <2>3. live \in Seq(Known)
    BY <1>1, <2>2, LiveFacts
  <2> HIDE DEF live
  <2> QED BY <1>2, <2>1, <2>2, <2>3, SizeWritten
<1>s. CASE MergeSearch(t)
  <2>1. PICK p, c : th' = [th EXCEPT ![t].pc = "candidate", ![t].cand = c, ![t].parts = p]
    BY <1>s DEF MergeSearch
  <2>2. Moved(t) /\ th'[t].pc # "addrow"
    BY <1>0, <2>1 DEF Moved, ThreadT
  <2> QED BY <1>s, <2>2, SizeKept DEF MergeSearch, store
<1>c. CASE MergeCandidate(t) \/ MergeOtherMissing(t)
  <2>1. Moved(t) /\ th'[t].pc # "addrow"
    <3>1. CASE MergeOtherMissing(t)
      BY <3>1, <1>0 DEF MergeOtherMissing, Moved, ThreadT
    <3>2. CASE MergeCandidate(t)
      <4>1. PICK c : th' = [th EXCEPT ![t].pc = "mergeother", ![t].other = c]
                     \/ th' = [th EXCEPT ![t].cand = @ \ {c}]
        BY <3>2 DEF MergeCandidate
      <4> QED BY <3>2, <4>1, <1>0 DEF MergeCandidate, Moved, ThreadT
    <3> QED BY <1>c, <3>1, <3>2
  <2> QED BY <1>c, <2>1, SizeKept DEF MergeCandidate, MergeOtherMissing, store
<1>o. CASE MergeOther(t)
  <2>1. th[t].pc = "mergeother" /\ Merged(t, << >>) /\ << >> \in Seq(Known)
    BY <1>o DEF MergeOther, MayLockOther
  <2>2. PICK n, p : th' = [th EXCEPT ![t].pc = "merged", ![t].news = n, ![t].parts = p, ![t].cand = {}]
    BY <1>o DEF MergeOther
  <2>3. Moved(t) /\ th'[t].pc # "addrow"
    BY <1>0, <2>2 DEF Moved, ThreadT
  <2> QED BY <2>1, <2>3, MergedSizes
<1>d. CASE MergeDeleteFails(t)
  <2>1. th[t].pc = "mergeother" /\ Merged(t, db[Removed(t)]) /\ Finish(t)
    BY <1>d DEF MergeDeleteFails, MayLockOther
  <2>2. db[Removed(t)] \in Seq(Known)
    BY <1>1, <2>1, MergedFacts
  <2> QED BY <1>2, <2>1, <2>2, MergedSizes
<1>p. CASE MergePutFails(t)
  <2>1. /\ th[t].pc = "mergeother" /\ head' = [head EXCEPT ![Removed(t)] = "deleted"] /\ Finish(t)
        /\ UNCHANGED <<db, sizes>>
    BY <1>p DEF MergePutFails, MayLockOther
  <2>2. Removed(t) \in Placed
    BY <2>1, MergedFacts
  <2> QED BY <1>2, <2>1, <2>2, SizeDeleted DEF SizeInv
<1>w. CASE MergeWriteBack(t)
  <2> DEFINE h == th[t].head
             p == th[t].parts[1]
  <2>1. /\ th[t].pc = "candidate" /\ db' = [db EXCEPT ![h] = p]
        /\ sizes' = [sizes EXCEPT ![h] = Len(p)] /\ UNCHANGED head /\ Finish(t)
    BY <1>w DEF MergeWriteBack
  <2>2. h \in Placed /\ p \in Seq(Known)
    BY <2>1, MergeHands
  <2> HIDE DEF p
  <2> QED BY <1>2, <2>1, <2>2, SizeWritten
<1> QED BY <1>f, <1>b, <1>n, <1>s, <1>c, <1>o, <1>d, <1>p, <1>w DEF MergeStep

LEMMA OtherSizes ==
    ASSUME TInv, SizeInv, NEW t \in Threads,
           \/ ReassignStep(t) \/ TakeJob(t) \/ \E v \in Vectors : AddIndex(t, v) \/ DeleteIndex(t, v)
           \/ \E h \in HeadIds : SearchIndex(t, h)
    PROVE  SizeInv'
<1>1. Moved(t) /\ th'[t].pc # "addrow"
  BY ReassignQuiet, CallQuiet DEF Quiet, QuietPcs
<1>2. UNCHANGED <<head, db, sizes>>
  BY DEF ReassignStep, ReassignStale, ReassignNotNeeded, ReassignSelect, ReassignCheck,
         ReassignIncVersion, TakeJob, AddIndex, DeleteIndex, SearchIndex, store
<1> QED BY <1>1, <1>2, SizeKept

LEMMA SizesInv == Spec => []SizeInv
<1>1. Init => SizeInv
  BY DEF Init, SizeInv, IdleThread
<1>2. TInv /\ SizeInv /\ [Next]_vars => SizeInv'
  <2> SUFFICES ASSUME TInv, SizeInv, [Next]_vars PROVE SizeInv'
    OBVIOUS
  <2>1. CASE UNCHANGED vars
    BY <2>1 DEF vars, SizeInv, Cluster
  <2>2. CASE Next
    BY <2>2, NextByThread, AppendSizes, SplitEntrySizes, SplitLaterSizes, MergeSizes, OtherSizes
       DEF SplitStep
  <2> QED BY <2>1, <2>2
<1> QED BY <1>1, <1>2, TypesInv, PTL DEF Spec

\* m_postingSizes gives the length of the stored list for every visible head, through every
\* failed call of the store: the size is assigned after the write it belongs to, under the
\* same lock, and a new head becomes visible only after both (ExtraDynamicSearcher.h:1025).
THEOREM SizesStayMatched == Spec => []SizesMatch
<1>1. SizeInv => SizesMatch
  BY DEF SizeInv, SizesMatch, Visible
<1> QED BY <1>1, SizesInv, PTL

-----------------------------------------------------------------------------
(***************************************************************************)
(* The length of postings.                                                 *)
(***************************************************************************)
Limit == PostingSizeLimit + BufferSizeLimit

Merging == {"mergelock", "candidate", "mergeother"}
Splitting == {"cluster", "center", "put", "addrow"}

\* What a thread has in its hands stays within the bounds, a thread that merges holds
\* m_mergeLock, and the candidate it has chosen cannot outgrow the limit any more: only
\* appends lengthen it.  A split that has still to write the list of its own head will
\* shorten it.
Tame(t) ==
    /\ th[t].pc \in SplitPcs => \A i \in 1 .. 2 : Len(th[t].parts[i]) <= PostingBound
    /\ th[t].pc \in {"candidate", "mergeother"} => Len(th[t].parts[1]) <= MergeThreshold
    /\ th[t].pc \in Merging => mergeLock = t
    /\ th[t].pc = "mergeother" /\ head[th[t].other] = "visible" => Len(db[th[t].other]) <= Limit
    /\ th[t].pc \in Splitting /\ Len(th[t].news) < th[t].same
          => Len(th[t].parts[th[t].same]) <= Len(db[th[t].head])

BoundInv == PostingBounded /\ \A t \in Threads : Tame(t)

LEMMA BoundTypes ==
    /\ Limit \in Nat /\ PostingBound \in Nat /\ MergeThreshold \in Nat /\ PostingSizeLimit \in Nat
    /\ Limit <= PostingBound /\ PostingSizeLimit < Limit /\ 0 < PostingSizeLimit
    /\ MaxMerges # 0 => PostingBound = Limit + MergeThreshold
    /\ MaxMerges = 0 => PostingBound = Limit
BY Configuration DEF Limit, PostingBound

\* Nobody but t is merging.
MergesAlone(t) == mergeLock \in {t, NoThread}

LEMMA AloneFacts ==
    ASSUME BoundInv, NEW t \in Threads, MergesAlone(t), NEW u \in Threads \ {t}
    PROVE  th[u].pc \notin Merging
BY Configuration DEF BoundInv, Tame, MergesAlone

\* The lock of h is free or t's own.
MayWrite(t, h) == rwLocks[Stripe(h)] \in {NoThread, t}

LEMMA OthersHeads ==
    ASSUME TInv, LockInv, NEW t \in Threads, NEW u \in Threads \ {t}, Holding(th[u]),
           MayWrite(t, th[u].head), th[u].head \in HeadIds
    PROVE  FALSE
<1>1. Stripe(th[u].head) \in 0 .. Stripes - 1
  BY StripeType
<1>2. rwLocks[Stripe(th[u].head)] = u
  BY <1>1 DEF LockInv
<1> QED BY <1>2, Configuration DEF MayWrite

\* What another thread has in its hands, after a step of t.
LEMMA TameOther ==
    ASSUME TInv, LockInv, BoundInv, NEW t \in Threads, Moved(t), NEW u \in Threads \ {t},
           \A h \in Placed : head'[h] = "visible" => head[h] = "visible",
           \A h \in Placed : db'[h] = db[h] \/ MayWrite(t, h),
           \/ MergesAlone(t)
           \/ /\ mergeLock' = mergeLock
              /\ \A h \in Placed : head'[h] = "visible" /\ Len(db[h]) <= Limit => Len(db'[h]) <= Limit
    PROVE  Tame(u)'
<1>1. th'[u] = th[u] /\ Tame(u)
  BY DEF Moved, BoundInv
<1>2. th[u].pc \in SplitPcs => \A i \in 1 .. 2 : Len(th[u].parts[i]) <= PostingBound
  BY <1>1 DEF Tame
<1>3. th[u].pc \in {"candidate", "mergeother"} => Len(th[u].parts[1]) <= MergeThreshold
  BY <1>1 DEF Tame
<1>4. th[u].pc \in Merging => mergeLock' = u
  <2>1. CASE MergesAlone(t)
    BY <2>1, AloneFacts
  <2>2. CASE mergeLock' = mergeLock
    BY <1>1, <2>2 DEF Tame
  <2> QED BY <2>1, <2>2
<1>5. ASSUME th[u].pc = "mergeother", head'[th[u].other] = "visible"
      PROVE  Len(db'[th[u].other]) <= Limit
  <2>1. ~MergesAlone(t)
    BY <1>5, AloneFacts DEF Merging
  <2>2. th[u].other \in Placed
    BY <1>5, MergeHands
  <2>3. head[th[u].other] = "visible"
    BY <1>5, <2>2
  <2>4. Len(db[th[u].other]) <= Limit
    BY <1>1, <1>5, <2>3 DEF Tame
  <2> QED BY <1>5, <2>1, <2>2, <2>4
<1>6. ASSUME th[u].pc \in Splitting, Len(th[u].news) < th[u].same
      PROVE  Len(th[u].parts[th[u].same]) <= Len(db'[th[u].head])
  <2>1. th[u].head \in Placed /\ th[u].head \in HeadIds
    BY <1>6, HeadOfThread DEF Splitting, HeadPcs, SplitPcs
  <2>2. Holding(th[u])
    BY <1>6 DEF Splitting, Holding
  <2>3. db'[th[u].head] = db[th[u].head]
    BY <2>1, <2>2, OthersHeads
  <2>4. Len(th[u].parts[th[u].same]) <= Len(db[th[u].head])
    BY <1>1, <1>6 DEF Tame
  <2> QED BY <2>3, <2>4
<1> QED BY <1>1, <1>2, <1>3, <1>4, <1>5, <1>6 DEF Tame

LEMMA BoundStep ==
    ASSUME TInv, LockInv, BoundInv, NEW t \in Threads, Moved(t), Tame(t)',
           \A h \in HeadIds : Len(db'[h]) <= PostingBound,
           \A h \in Placed : head'[h] = "visible" => head[h] = "visible",
           \A h \in Placed : db'[h] = db[h] \/ MayWrite(t, h),
           \/ MergesAlone(t)
           \/ /\ mergeLock' = mergeLock
              /\ \A h \in Placed : head'[h] = "visible" /\ Len(db[h]) <= Limit => Len(db'[h]) <= Limit
    PROVE  BoundInv'
<1>1. PostingBounded'
  BY DEF PostingBounded, PostingBound
<1>2. \A u \in Threads \ {t} : Tame(u)'
  BY TameOther
<1> QED BY <1>1, <1>2 DEF BoundInv

\* A step that writes no list.
LEMMA BoundKept ==
    ASSUME TInv, LockInv, BoundInv, NEW t \in Threads, Moved(t), Tame(t)', UNCHANGED db,
           \A h \in Placed : head'[h] = "visible" => head[h] = "visible",
           MergesAlone(t) \/ UNCHANGED mergeLock
    PROVE  BoundInv'
<1>1. \A h \in HeadIds : Len(db'[h]) <= PostingBound
  BY DEF BoundInv, PostingBounded
<1> QED BY <1>1, BoundStep

\* A step that writes the list of one head, under its lock.
LEMMA BoundWritten ==
    ASSUME TInv, LockInv, BoundInv, NEW t \in Threads, Moved(t), Tame(t)',
           NEW h \in Placed, NEW list, db' = [db EXCEPT ![h] = list], MayWrite(t, h),
           \A k \in Placed : head'[k] = "visible" => head[k] = "visible",
           Len(list) <= PostingBound,
           \/ MergesAlone(t)
           \/ mergeLock' = mergeLock /\ (Len(db[h]) <= Limit => Len(list) <= Limit)
    PROVE  BoundInv'
<1>1. h \in HeadIds /\ db \in [HeadIds -> Seq(Known)]
  BY DEF Placed, TInv, StoreT
<1>2. \A k \in HeadIds : db'[k] = IF k = h THEN list ELSE db[k]
  BY <1>1
<1>3. \A k \in HeadIds : Len(db'[k]) <= PostingBound
  BY <1>2 DEF BoundInv, PostingBounded
<1>4. \A k \in Placed : k \in HeadIds
  BY DEF Placed
<1>5. \A k \in Placed : db'[k] = db[k] \/ MayWrite(t, k)
  BY <1>2, <1>4
<1>6. (Len(db[h]) <= Limit => Len(list) <= Limit) =>
        \A k \in Placed : head'[k] = "visible" /\ Len(db[k]) <= Limit => Len(db'[k]) <= Limit
  BY <1>2, <1>4
<1> QED BY <1>3, <1>5, <1>6, BoundStep

LEMMA QuietTame ==
    ASSUME NEW t \in Threads, Quiet(t)
    PROVE  Moved(t) /\ Tame(t)'
<1>1. th'[t].pc \notin SplitPcs /\ th'[t].pc \notin Merging /\ th'[t].pc \notin Splitting
      /\ th'[t].pc \notin {"candidate", "mergeother"}
  BY DEF Quiet, QuietPcs, SplitPcs, Merging, Splitting
<1> QED BY <1>1 DEF Quiet, Tame

LEMMA AppendBounds ==
    ASSUME TInv, LockInv, SizeInv, BoundInv, NEW t \in Threads, AppendStep(t)
    PROVE  BoundInv'
<1>0. Moved(t) /\ Tame(t)' /\ UNCHANGED mergeLock
  BY AppendQuiet, QuietTame DEF AppendStep, NextReplica, AppendHeadMiss, AppendCheck, AppendRecheck,
     AppendFull, AppendMerge, AppendFails, AppendEnd, locks
<1>m. CASE AppendMerge(t)
  <2>0. th[t].head \in Placed /\ th[t].head \in HeadIds /\ th[t].e \in Known
    BY <1>m, HeadOfThread, EntryOfThread DEF AppendMerge, HeadPcs, EntryPcs
  <2>h. PICK h \in Placed : h = th[t].head
    BY <2>0
  <2> DEFINE list == Append(db[h], th[t].e)
  <2>1. /\ db' = [db EXCEPT ![h] = list] /\ Unlocked(h) /\ ~Full(h) /\ ContainSample(h)
        /\ UNCHANGED head
    BY <1>m, <2>h DEF AppendMerge
  <2>2. db[h] \in Seq(Known) /\ sizes[h] = Len(db[h])
    BY <2>1 DEF ContainSample, Placed, TInv, StoreT, SizeInv
  <2>3. PICK n \in Nat : n = Len(db[h])
    BY <2>2
  <2>4. Len(list) = n + 1
    BY <2>0, <2>2, <2>3
  <2>5. n + 1 <= Limit
    BY <2>1, <2>2, <2>3, BoundTypes DEF Full, Limit
  <2>6. Len(list) <= Limit /\ Len(list) <= PostingBound
    BY <2>4, <2>5, BoundTypes
  <2>7. MayWrite(t, h)
    BY <2>1 DEF MayWrite, Unlocked
  <2> HIDE DEF list
  <2> QED BY <1>0, <2>1, <2>6, <2>7, BoundWritten
<1>o. CASE UNCHANGED store
  BY <1>0, <1>o, BoundKept DEF store
<1> QED BY <1>m, <1>o DEF AppendStep, NextReplica, AppendHeadMiss, AppendCheck, AppendRecheck,
                          AppendFull, AppendFails, AppendEnd

LEMMA OtherBounds ==
    ASSUME TInv, LockInv, BoundInv, NEW t \in Threads,
           \/ ReassignStep(t) \/ TakeJob(t) \/ \E v \in Vectors : AddIndex(t, v) \/ DeleteIndex(t, v)
           \/ \E h \in HeadIds : SearchIndex(t, h)
    PROVE  BoundInv'
<1>1. Moved(t) /\ Tame(t)'
  BY ReassignQuiet, CallQuiet, QuietTame
<1>2. UNCHANGED <<head, db, mergeLock>>
  BY DEF ReassignStep, ReassignStale, ReassignNotNeeded, ReassignSelect, ReassignCheck,
         ReassignIncVersion, TakeJob, AddIndex, DeleteIndex, SearchIndex, store, locks
<1> QED BY <1>1, <1>2, BoundKept

LEMMA OwnLock ==
    ASSUME TInv, LockInv, NEW t \in Threads, Holding(th[t]), th[t].head \in HeadIds
    PROVE  MayWrite(t, th[t].head)
BY StripeType DEF LockInv, MayWrite

LEMMA ListBounds ==
    ASSUME TInv, BoundInv, NEW h \in HeadIds
    PROVE  /\ db[h] \in Seq(Known) /\ Len(db[h]) \in Nat /\ Len(db[h]) <= PostingBound
           /\ Live(db[h]) \in Seq(Known) /\ Len(Live(db[h])) \in Nat
           /\ Len(Live(db[h])) <= Len(db[h]) /\ Len(Live(db[h])) <= PostingBound
<1>1. db[h] \in Seq(Known)
  BY DEF TInv, StoreT
<1>2. Len(db[h]) \in Nat /\ Len(db[h]) <= PostingBound
  BY <1>1 DEF BoundInv, PostingBounded
<1>3. Live(db[h]) \in Seq(Known) /\ Len(Live(db[h])) \in Nat /\ Len(Live(db[h])) <= Len(db[h])
  BY <1>1, LiveFacts
<1>4. \A a, b, c \in Nat : a <= b /\ b <= c => a <= c
  OBVIOUS
<1>5. Len(Live(db[h])) <= PostingBound
  BY <1>2, <1>3, <1>4, BoundTypes
<1> QED BY <1>1, <1>2, <1>3, <1>5

LEMMA Shorter ==
    ASSUME NEW a \in Nat, NEW b \in Nat, a <= b
    PROVE  /\ b <= PostingBound => a <= PostingBound
           /\ b <= Limit => a <= Limit
BY BoundTypes

LEMMA SplitEntryBounds ==
    ASSUME TInv, LockInv, BoundInv, NEW t \in Threads,
           \/ SplitMissing(t) \/ SplitFails(t) \/ SplitCollectGarbage(t) \/ SplitOneCluster(t)
           \/ SplitClusters(t)
    PROVE  BoundInv'
<1>0. /\ th[t].pc = "split" /\ (th[t].nested \/ Unlocked(th[t].head))
      /\ UNCHANGED <<head, mergeLock>>
  BY DEF SplitMissing, SplitFails, SplitCollectGarbage, SplitOneCluster, SplitClusters, MayEnterSplit,
         store
<1>1. th[t].head \in Placed /\ th[t].head \in HeadIds
  BY <1>0, HeadOfThread DEF HeadPcs
<1>h. PICK h \in Placed : h = th[t].head
  BY <1>1
<1> DEFINE live == Live(db[h])
<1>2. h \in HeadIds
  BY <1>1, <1>h
<1>3. MayWrite(t, h)
  <2>1. CASE th[t].nested
    <3>1. Holding(th[t])
      BY <1>0, <2>1 DEF Holding
    <3> QED BY <1>1, <1>h, <3>1, OwnLock
  <2>2. CASE Unlocked(h)
    BY <2>2 DEF MayWrite, Unlocked
  <2> QED BY <1>0, <1>h, <2>1, <2>2
<1>4. SplitReturn(t) => Moved(t) /\ Tame(t)'
  BY ReturnQuiet, QuietTame
<1>5. /\ Len(db[h]) \in Nat /\ Len(db[h]) <= PostingBound
      /\ live \in Seq(Known) /\ Len(live) \in Nat /\ Len(live) <= Len(db[h]) /\ Len(live) <= PostingBound
  BY <1>2, ListBounds
<1>6. PICK m \in Nat, n \in Nat : m = Len(live) /\ n = Len(db[h]) /\ m <= n /\ n <= PostingBound
  BY <1>5
<1>m. CASE SplitMissing(t) \/ SplitFails(t)
  BY <1>m, <1>0, <1>4, BoundKept DEF SplitMissing, SplitFails, store
<1>g. CASE SplitCollectGarbage(t)
  <2>1. db' = [db EXCEPT ![h] = live] /\ SplitReturn(t)
    BY <1>g, <1>h DEF SplitCollectGarbage
  <2>2. Len(live) <= PostingBound /\ (Len(db[h]) <= Limit => Len(live) <= Limit)
    BY <1>6, Shorter
  <2> HIDE DEF live
  <2> QED BY <1>0, <1>3, <1>4, <2>1, <2>2, BoundWritten
<1>o. CASE SplitOneCluster(t)
  <2> DEFINE cut == IF OneClusterCutMax THEN PostingSizeLimit ELSE 1
  <2>1. PICK s \in [1 .. cut -> DOMAIN live] : db' = [db EXCEPT ![h] = [i \in 1 .. cut |-> live[s[i]]]]
    <3>1. \E s \in [1 .. cut -> DOMAIN Live(db[th[t].head])] :
             db' = [db EXCEPT ![th[t].head] = [i \in 1 .. cut |-> Live(db[th[t].head])[s[i]]]]
      BY <1>o DEF SplitOneCluster
    <3> HIDE DEF cut
    <3>2. PICK s \in [1 .. cut -> DOMAIN Live(db[th[t].head])] :
             db' = [db EXCEPT ![th[t].head] = [i \in 1 .. cut |-> Live(db[th[t].head])[s[i]]]]
      BY <3>1
    <3>3. s \in [1 .. cut -> DOMAIN live]
      BY <1>h
    <3>4. db' = [db EXCEPT ![h] = [i \in 1 .. cut |-> live[s[i]]]]
      BY <1>h, <3>2
    <3> QED BY <3>3, <3>4
  <2>2. SplitReturn(t) /\ m >= PostingSizeLimit
    BY <1>o, <1>h, <1>6 DEF SplitOneCluster
  <2>3. cut \in Nat /\ cut <= m
    BY <2>2, BoundTypes
  <2> DEFINE list == [i \in 1 .. cut |-> live[s[i]]]
  <2>4. Len(list) = cut
    <3> HIDE DEF live, cut
    <3>1. \A i \in 1 .. cut : live[s[i]] \in Known
      BY <1>5
    <3>2. list \in Seq(Known)
      BY <3>1, <2>3
    <3> QED BY <2>3, <3>2
  <2>5. cut <= PostingBound /\ (n <= Limit => cut <= Limit)
    <3> HIDE DEF cut
    <3>1. cut <= n
      BY <1>6, <2>3
    <3> QED BY <1>6, <2>3, <3>1, Shorter
  <2>6. Len(list) <= PostingBound /\ (Len(db[h]) <= Limit => Len(list) <= Limit)
    <3> HIDE DEF list, cut
    <3> QED BY <1>6, <2>4, <2>5
  <2>7. db' = [db EXCEPT ![h] = list]
    BY <2>1
  <2> HIDE DEF list
  <2> QED BY <1>0, <1>3, <1>4, <2>2, <2>6, <2>7, BoundWritten
<1>c. CASE SplitClusters(t)
  <2>1. PICK S \in (SUBSET Range(live)) \ {{}, Range(live)}, same \in 0 .. 2 :
           th' = [th EXCEPT ![t].pc = "cluster", ![t].same = same, ![t].news = << >>,
                            ![t].parts = <<Filter(live, S), Filter(live, Range(live) \ S)>>]
    BY <1>c, <1>h DEF SplitClusters
  <2>2. /\ Len(Filter(live, S)) \in Nat /\ Len(Filter(live, S)) <= m
        /\ Len(Filter(live, Range(live) \ S)) \in Nat /\ Len(Filter(live, Range(live) \ S)) <= m
    <3> HIDE DEF live
    <3>1. \A X : Filter(live, X) \in Seq(Known) /\ Len(Filter(live, X)) <= Len(live)
      BY <1>5, FilterFacts
    <3>2. \A X : Len(Filter(live, X)) \in Nat
      BY <3>1
    <3> QED BY <1>6, <3>1, <3>2
  <2> DEFINE p == <<Filter(live, S), Filter(live, Range(live) \ S)>>
  <2>3. \A i \in 1 .. 2 : Len(p[i]) \in Nat /\ Len(p[i]) <= m
    BY <2>2
  <2>4. th' = [th EXCEPT ![t].pc = "cluster", ![t].same = same, ![t].news = << >>, ![t].parts = p]
    BY <2>1
  <2> HIDE DEF p, live
  <2>5. /\ Moved(t) /\ th'[t].pc = "cluster" /\ th'[t].same = same /\ th'[t].news = << >>
        /\ th'[t].parts = p /\ th'[t].head = h
    BY <1>h, <2>4 DEF Moved, TInv, ThreadsT, ThreadT
  <2>6. \A i \in 1 .. 2 : Len(p[i]) <= PostingBound /\ Len(p[i]) <= n
    <3> TAKE i \in 1 .. 2
    <3>1. PICK l \in Nat : l = Len(p[i])
      BY <2>3
    <3>2. l <= m
      BY <2>3, <3>1
    <3>3. l <= n
      BY <1>6, <3>2
    <3> QED BY <1>6, <3>1, <3>3, Shorter
  <2>7. UNCHANGED db
    BY <1>c DEF SplitClusters, store
  <2>8. Len(th'[t].news) < th'[t].same => Len(th'[t].parts[th'[t].same]) <= Len(db'[th'[t].head])
    <3> SUFFICES ASSUME Len(th'[t].news) < th'[t].same
                 PROVE  Len(th'[t].parts[th'[t].same]) <= Len(db'[th'[t].head])
      OBVIOUS
    <3>1. same > 0
      BY <2>5
    <3>2. same \in 1 .. 2
      BY <3>1
    <3> QED BY <1>6, <2>5, <2>6, <2>7, <3>2
  <2>9. Tame(t)'
    BY <2>5, <2>6, <2>8 DEF Tame, Merging
  <2> QED BY <1>0, <2>5, <2>7, <2>9, BoundKept
<1> QED BY <1>m, <1>g, <1>o, <1>c

\* A split between its steps: the record keeps its head, its lists and the choice of the head.
LEMMA SplitGoesOn ==
    ASSUME TInv, LockInv, BoundInv, NEW t \in Threads, Moved(t), th[t].pc \in Splitting,
           th'[t].pc \in SplitPcs, th'[t].parts = th[t].parts,
           th'[t].pc \in Splitting => /\ th'[t].head = th[t].head /\ th'[t].same = th[t].same
                                      /\ Len(th'[t].news) < th[t].same => Len(th[t].news) < th[t].same
                                      /\ Len(th'[t].news) < th[t].same => db'[th[t].head] = db[th[t].head]
    PROVE  Tame(t)'
<1>1. Tame(t) /\ th[t].pc \in SplitPcs
  BY DEF BoundInv, Splitting, SplitPcs
<1>2. \A i \in 1 .. 2 : Len(th'[t].parts[i]) <= PostingBound
  BY <1>1 DEF Tame
<1>3. th'[t].pc \notin Merging /\ th'[t].pc \notin {"candidate", "mergeother"}
  BY DEF SplitPcs, Merging
<1>4. th'[t].pc \in Splitting /\ Len(th'[t].news) < th'[t].same
        => Len(th'[t].parts[th'[t].same]) <= Len(db'[th'[t].head])
  BY <1>1 DEF Tame
<1> QED BY <1>2, <1>3, <1>4 DEF Tame

LEMMA SplitLaterBounds ==
    ASSUME TInv, LockInv, BoundInv, NEW t \in Threads,
           \/ SplitSameHead(t) \/ SplitNewHead(t) \/ SplitIncVersion(t) \/ SplitPut(t)
           \/ SplitPutFails(t) \/ SplitAddRow(t) \/ SplitOldHead(t) \/ SplitDeleteFails(t)
           \/ SplitErase(t) \/ CollectReAssign(t)
    PROVE  BoundInv'
<1>0. th \in [Threads -> ThreadT(Placed, Known)] /\ th[t] \in ThreadT(Placed, Known)
  BY DEF TInv, ThreadsT
<1>1. /\ head \in [HeadIds -> {"free", "added", "visible", "deleted"}]
      /\ db \in [HeadIds -> Seq(Known)] /\ UNCHANGED mergeLock
  BY DEF TInv, StoreT, SplitSameHead, SplitNewHead, SplitIncVersion, SplitPut, SplitPutFails, SplitAddRow,
         SplitOldHead, SplitDeleteFails, SplitErase, CollectReAssign, locks
<1>2. SplitReturn(t) => Moved(t) /\ Tame(t)'
  BY ReturnQuiet, QuietTame
<1>3. th[t].pc \in SplitPcs /\ th[t].head \in Placed /\ th[t].head \in HeadIds
  <2>1. th[t].pc \in SplitPcs
    BY DEF SplitSameHead, SplitNewHead, SplitIncVersion, SplitPut, SplitPutFails, SplitAddRow,
           SplitOldHead, SplitDeleteFails, SplitErase, CollectReAssign, SplitPcs
  <2> QED BY <2>1, HeadOfThread DEF HeadPcs
<1>4. PICK h \in Placed : h = th[t].head /\ h \in HeadIds
  BY <1>3
<1>5. th[t].pc \in Splitting => MayWrite(t, h)
  BY <1>3, <1>4, OwnLock DEF Splitting, Holding
<1>6. /\ th[t].parts \in Seq(Seq(Known)) /\ Len(th[t].parts) = 2 /\ Cluster(t) \in Nat
      /\ Cluster(t) = Len(th[t].news) + 1 /\ Len(th[t].news) \in Nat /\ th[t].same \in 0 .. 2
  <2>1. th[t].news \in Seq(Placed) /\ th[t].same \in 0 .. 2
    BY <1>0 DEF ThreadT
  <2> QED BY <1>3, <2>1, PartOfThread DEF Cluster
<1>7. PICK l \in Nat : l = Len(th[t].news)
  BY <1>6
<1>8. Tame(t)
  BY DEF BoundInv
<1>s. CASE SplitSameHead(t)
  <2>1. th[t].pc = "cluster" /\ Cluster(t) = th[t].same /\ Cluster(t) <= 2
        /\ th' = [th EXCEPT ![t].news = Append(@, th[t].head)] /\ UNCHANGED head
    BY <1>s DEF SplitSameHead
  <2>2. l < th[t].same /\ th[t].same = l + 1
    BY <1>6, <1>7, <2>1
  <2> DEFINE p == th[t].parts[th[t].same]
  <2>3. db' = [db EXCEPT ![h] = p]
    BY <1>s, <1>4, <2>1 DEF SplitSameHead
  <2>4. p \in Seq(Known) /\ Len(p) <= Len(db[h])
    <3>1. p \in Seq(Known)
      BY <1>3, <2>1, PartOfThread
    <3>2. Len(th[t].news) < th[t].same
      BY <1>7, <2>2
    <3> QED BY <1>4, <1>8, <2>1, <3>1, <3>2 DEF Tame, Splitting
  <2> HIDE DEF p
  <2>5. PICK m \in Nat, n \in Nat : m = Len(p) /\ n = Len(db[h]) /\ m <= n /\ n <= PostingBound
    BY <1>4, <2>4, ListBounds
  <2>6. Len(p) <= PostingBound /\ (Len(db[h]) <= Limit => Len(p) <= Limit)
    BY <2>5, Shorter
  <2>7. /\ Moved(t) /\ th'[t].pc = "cluster" /\ th'[t].parts = th[t].parts /\ th'[t].same = th[t].same
        /\ th'[t].head = th[t].head /\ th'[t].news = Append(th[t].news, th[t].head)
    BY <1>0, <2>1 DEF Moved, ThreadT
  <2>8. Len(th'[t].news) = l + 1
    <3>1. th[t].news \in Seq(Placed)
      BY <1>0 DEF ThreadT
    <3> QED BY <1>3, <1>7, <2>7, <3>1
  <2>9. ~(Len(th'[t].news) < th[t].same)
    BY <2>2, <2>8
  <2>10. th'[t].pc \in SplitPcs /\ th[t].pc \in Splitting
    BY <2>1, <2>7 DEF SplitPcs, Splitting
  <2>11. Tame(t)'
    BY <2>7, <2>9, <2>10, SplitGoesOn
  <2> QED BY <1>1, <1>5, <2>1, <2>3, <2>6, <2>7, <2>10, <2>11, BoundWritten
<1>n. CASE SplitNewHead(t)
  <2>1. NumSamples \in HeadIds /\ head[NumSamples] = "free"
    BY <1>n, NextHead, Configuration DEF SplitNewHead, HeadIds
  <2>2. PICK p \in {"center", "put"} : th' = [th EXCEPT ![t].other = NumSamples, ![t].pc = p]
    BY <1>n DEF SplitNewHead
  <2>3. /\ Moved(t) /\ th'[t].pc = p /\ th'[t].parts = th[t].parts /\ th'[t].same = th[t].same
        /\ th'[t].head = th[t].head /\ th'[t].news = th[t].news
    BY <1>0, <2>2 DEF Moved, ThreadT
  <2>4. head' = [head EXCEPT ![NumSamples] = "added"] /\ UNCHANGED db /\ th[t].pc = "cluster"
    BY <1>n DEF SplitNewHead
  <2>5. \A k \in Placed : head'[k] = "visible" => head[k] = "visible"
    BY <1>1, <2>1, <2>4 DEF Placed
  <2>6. th'[t].pc \in SplitPcs /\ th[t].pc \in Splitting
    BY <2>3, <2>4 DEF SplitPcs, Splitting
  <2>7. Tame(t)'
    BY <2>3, <2>4, <2>6, SplitGoesOn
  <2> QED BY <1>1, <2>3, <2>4, <2>5, <2>7, BoundKept
<1>i. CASE SplitIncVersion(t)
  <2>1. th[t].pc = "center" /\ Goto(t, "put") /\ UNCHANGED <<head, db>>
    BY <1>i DEF SplitIncVersion
  <2>2. /\ Moved(t) /\ th'[t].pc = "put" /\ th'[t].parts = th[t].parts /\ th'[t].same = th[t].same
        /\ th'[t].head = th[t].head /\ th'[t].news = th[t].news
    BY <1>0, <2>1 DEF Goto, Moved, ThreadT
  <2>3. th'[t].pc \in SplitPcs /\ th[t].pc \in Splitting
    BY <2>1, <2>2 DEF SplitPcs, Splitting
  <2>4. Tame(t)'
    BY <2>1, <2>2, <2>3, SplitGoesOn
  <2> QED BY <1>1, <2>1, <2>2, <2>4, BoundKept
<1>p. CASE SplitPut(t)
  <2>1. th[t].pc = "put" /\ Goto(t, "addrow") /\ UNCHANGED head
        /\ db' = [db EXCEPT ![th[t].other] = th[t].parts[Cluster(t)]]
    BY <1>p DEF SplitPut
  <2>2. th[t].other \in HeadIds /\ head[th[t].other] = "added"
    BY <2>1 DEF TInv, ThreadsT, Shape, Creating, Pending
  <2>o. PICK o \in HeadIds : o = th[t].other
    BY <2>2
  <2> DEFINE p == th[t].parts[Cluster(t)]
  <2>3. Cluster(t) \in 1 .. 2
    BY <1>3, <2>1, PartOfThread DEF Creating
  <2>4. Len(p) <= PostingBound
    BY <1>3, <1>8, <2>3 DEF Tame
  <2> HIDE DEF p
  <2>5. \A k \in HeadIds : db'[k] = IF k = o THEN p ELSE db[k]
    BY <1>1, <2>1, <2>o DEF p
  <2>6. \A k \in HeadIds : Len(db'[k]) <= PostingBound
    BY <2>4, <2>5 DEF BoundInv, PostingBounded
  <2>7. \A k \in Placed : k \in HeadIds /\ db'[k] = db[k]
    BY <2>2, <2>5, <2>o DEF Placed
  <2>8. /\ Moved(t) /\ th'[t].pc = "addrow" /\ th'[t].parts = th[t].parts /\ th'[t].same = th[t].same
        /\ th'[t].head = th[t].head /\ th'[t].news = th[t].news
    BY <1>0, <2>1 DEF Goto, Moved, ThreadT
  <2>9. th'[t].pc \in SplitPcs /\ th[t].pc \in Splitting
    BY <2>1, <2>8 DEF SplitPcs, Splitting
  <2>10. Tame(t)'
    BY <1>3, <2>7, <2>8, <2>9, SplitGoesOn
  <2> QED BY <1>1, <2>1, <2>6, <2>7, <2>8, <2>10, BoundStep
<1>f. CASE SplitPutFails(t) \/ CollectReAssign(t)
  <2>1. SplitReturn(t) /\ UNCHANGED <<head, db>>
    BY <1>f DEF SplitPutFails, CollectReAssign, store
  <2> QED BY <1>1, <1>2, <2>1, BoundKept
<1>a. CASE SplitAddRow(t)
  <2>1. /\ th[t].pc = "addrow" /\ head' = [head EXCEPT ![th[t].other] = "visible"] /\ UNCHANGED db
        /\ th' = [th EXCEPT ![t].pc = "cluster", ![t].news = Append(@, th[t].other)]
    BY <1>a DEF SplitAddRow
  <2>2. th[t].other \in HeadIds /\ head[th[t].other] = "added"
    BY <2>1 DEF TInv, ThreadsT, Shape, Creating, Pending
  <2>3. \A k \in Placed : head'[k] = "visible" => head[k] = "visible"
    BY <1>1, <2>1, <2>2 DEF Placed
  <2>4. /\ Moved(t) /\ th'[t].pc = "cluster" /\ th'[t].parts = th[t].parts /\ th'[t].same = th[t].same
        /\ th'[t].head = th[t].head /\ th'[t].news = Append(th[t].news, th[t].other)
    BY <1>0, <2>1 DEF Moved, ThreadT
  <2>5. Len(th'[t].news) = l + 1
    <3>1. th[t].news \in Seq(HeadIds)
      BY <1>0, SeqMono DEF ThreadT, Placed
    <3> QED BY <1>7, <2>2, <2>4, <3>1
  <2>6. Len(th'[t].news) < th[t].same => Len(th[t].news) < th[t].same
    <3>1. l + 1 < th[t].same => l < th[t].same
      BY <1>6
    <3> QED BY <1>7, <2>5, <3>1
  <2>7. th'[t].pc \in SplitPcs /\ th[t].pc \in Splitting
    BY <2>1, <2>4 DEF SplitPcs, Splitting
  <2>8. Tame(t)'
    BY <2>1, <2>4, <2>6, <2>7, SplitGoesOn
  <2> QED BY <1>1, <2>1, <2>3, <2>4, <2>8, BoundKept
<1>o. CASE SplitOldHead(t)
  <2>1. th[t].pc = "cluster" /\ Goto(t, "erase")
    BY <1>o DEF SplitOldHead
  <2>2. Moved(t) /\ th'[t].pc = "erase" /\ th'[t].parts = th[t].parts
    BY <2>1, GotoFacts
  <2>3. th'[t].pc \in SplitPcs /\ th[t].pc \in Splitting /\ th'[t].pc \notin Splitting
    BY <2>1, <2>2 DEF SplitPcs, Splitting
  <2>4. Tame(t)'
    BY <2>2, <2>3, SplitGoesOn
  <2>5. CASE th[t].same # 0
    BY <1>o, <1>1, <2>2, <2>4, <2>5, BoundKept DEF SplitOldHead
  <2>6. CASE th[t].same = 0
    <3>1. head' = [head EXCEPT ![h] = "deleted"] /\ db' = [db EXCEPT ![h] = << >>]
      BY <1>o, <1>4, <2>6 DEF SplitOldHead, RemoveHead
    <3>2. \A k \in Placed : head'[k] = "visible" => head[k] = "visible"
      BY <1>1, <1>4, <3>1 DEF Placed
    <3>3. Len(<< >>) <= PostingBound /\ Len(<< >>) <= Limit
      BY BoundTypes
    <3> QED BY <1>1, <1>5, <2>2, <2>3, <2>4, <3>1, <3>2, <3>3, BoundWritten
  <2> QED BY <2>5, <2>6
<1>d. CASE SplitDeleteFails(t)
  <2>1. head' = [head EXCEPT ![h] = "deleted"] /\ UNCHANGED db /\ SplitReturn(t)
    BY <1>d, <1>4 DEF SplitDeleteFails, RemoveHead
  <2>2. \A k \in Placed : head'[k] = "visible" => head[k] = "visible"
    BY <1>1, <1>4, <2>1 DEF Placed
  <2> QED BY <1>1, <1>2, <2>1, <2>2, BoundKept
<1>e. CASE SplitErase(t)
  <2>1. UNCHANGED <<head, db>> /\ th[t].pc = "erase"
    BY <1>e DEF SplitErase, store
  <2>2. CASE SplitReturn(t)
    BY <1>1, <1>2, <2>1, <2>2, BoundKept
  <2>3. CASE Goto(t, "collect")
    <3>1. Moved(t) /\ th'[t].pc = "collect" /\ th'[t].parts = th[t].parts
      BY <2>3, GotoFacts
    <3>2. \A i \in 1 .. 2 : Len(th'[t].parts[i]) <= PostingBound
      BY <1>3, <1>8, <3>1 DEF Tame
    <3>3. Tame(t)'
      BY <3>1, <3>2 DEF Tame, Merging, Splitting
    <3> QED BY <1>1, <2>1, <3>1, <3>3, BoundKept
  <2> QED BY <1>e, <2>2, <2>3 DEF SplitErase
<1> QED BY <1>s, <1>n, <1>i, <1>p, <1>f, <1>a, <1>o, <1>d, <1>e

\* The candidate of a merge is visible and within the limit, so that the merged list is
\* within the bound; both lists are written under their locks.
LEMMA MergedBounds ==
    ASSUME TInv, LockInv, BoundInv, MaxMerges # 0, NEW t \in Threads, MayLockOther(t),
           ContainSample(th[t].other), NEW d \in Seq(Known), Len(d) <= PostingBound, Merged(t, d),
           Moved(t), Tame(t)'
    PROVE  BoundInv'
<1>1. th[t].pc = "mergeother" /\ (Stripe(th[t].other) = Stripe(th[t].head) \/ Unlocked(th[t].other))
  BY DEF MayLockOther
<1>2. /\ th[t].head \in HeadIds /\ th[t].other \in HeadIds /\ th[t].other \in Placed
      /\ th[t].parts[1] \in Seq(Known)
  BY <1>1, MergeHands
<1>3. Tame(t) /\ head[th[t].other] = "visible"
  BY <1>2 DEF BoundInv, ContainSample, Placed
<1>4. Len(th[t].parts[1]) <= MergeThreshold /\ Len(db[th[t].other]) <= Limit /\ MergesAlone(t)
  BY <1>1, <1>3 DEF Tame, Merging, MergesAlone
<1>5. MayWrite(t, th[t].head) /\ MayWrite(t, th[t].other)
  <2>1. Holding(th[t])
    BY <1>1 DEF Holding
  <2>2. MayWrite(t, th[t].head)
    BY <1>2, <2>1, OwnLock
  <2> QED BY <1>1, <2>2 DEF MayWrite, Unlocked
<1> DEFINE m == th[t].parts[1] \o Fresh(t)
           k == Kept(t)
           r == Removed(t)
<1>6. /\ k \in HeadIds /\ r \in HeadIds /\ k \in Placed /\ r \in Placed
      /\ MayWrite(t, k) /\ MayWrite(t, r)
  BY <1>1, <1>5, MergedFacts DEF Kept, Removed
<1>7. Len(m) <= PostingBound
  <2> DEFINE live == Live(db[th[t].other])
  <2>1. live \in Seq(Known) /\ Len(live) \in Nat /\ Len(live) <= Len(db[th[t].other])
        /\ Len(db[th[t].other]) \in Nat
    BY <1>2, ListBounds
  <2>2. Fresh(t) = Filter(live, {e \in Range(live) : e.vid \notin Vids(th[t].parts[1])})
    BY DEF Fresh
  <2> HIDE DEF live
  <2>3. Fresh(t) \in Seq(Known) /\ Len(Fresh(t)) <= Len(live)
    BY <2>1, <2>2, FilterFacts
  <2>4. Len(m) = Len(th[t].parts[1]) + Len(Fresh(t)) /\ Len(Fresh(t)) \in Nat /\ Len(th[t].parts[1]) \in Nat
    BY <1>2, <2>3
  <2>5. PICK a \in Nat, b \in Nat, c \in Nat, e \in Nat :
           /\ a = Len(th[t].parts[1]) /\ b = Len(Fresh(t)) /\ c = Len(live) /\ e = Len(db[th[t].other])
           /\ a <= MergeThreshold /\ b <= c /\ c <= e /\ e <= Limit
    BY <1>4, <2>1, <2>3, <2>4
  <2>6. a + b <= PostingBound
    BY <2>5, BoundTypes
  <2> QED BY <2>4, <2>5, <2>6
<1>8. /\ db' = [db EXCEPT ![k] = m, ![r] = d]
      /\ head' = [head EXCEPT ![r] = "deleted"]
  BY DEF Merged
<1> HIDE DEF m, k, r
<1>9. /\ head \in [HeadIds -> {"free", "added", "visible", "deleted"}]
      /\ db \in [HeadIds -> Seq(Known)]
  BY DEF TInv, StoreT
<1>10. \A h \in HeadIds : db'[h] = IF h = r THEN d ELSE IF h = k THEN m ELSE db[h]
  BY <1>6, <1>8, <1>9
<1>11. \A h \in HeadIds : Len(db'[h]) <= PostingBound
  BY <1>7, <1>10 DEF BoundInv, PostingBounded
<1>12. \A h \in Placed : h \in HeadIds
  BY DEF Placed
<1>13. \A h \in Placed : db'[h] = db[h] \/ MayWrite(t, h)
  BY <1>6, <1>10, <1>12
<1>14. \A h \in Placed : head'[h] = "visible" => head[h] = "visible"
  BY <1>6, <1>8, <1>9, <1>12
<1> QED BY <1>4, <1>11, <1>13, <1>14, BoundStep

LEMMA MergeBounds ==
    ASSUME TInv, LockInv, SizeInv, BoundInv, MaxMerges # 0, NEW t \in Threads, MergeStep(t)
    PROVE  BoundInv'
<1>0. th \in [Threads -> ThreadT(Placed, Known)] /\ th[t] \in ThreadT(Placed, Known)
  BY DEF TInv, ThreadsT
<1>1. /\ head \in [HeadIds -> {"free", "added", "visible", "deleted"}]
      /\ db \in [HeadIds -> Seq(Known)] /\ Tame(t)
  BY DEF TInv, StoreT, BoundInv
<1>2. Finish(t) => Moved(t) /\ Tame(t)'
  BY FinishQuiet, QuietTame
<1>3. th[t].pc \in Merging => mergeLock = t /\ MergesAlone(t)
  BY <1>1 DEF Tame, MergesAlone
<1>f. CASE MergeRequeue(t) \/ MergeReassign(t)
  <2>1. Finish(t) /\ UNCHANGED <<head, db, mergeLock>>
    BY <1>f DEF MergeRequeue, MergeReassign, store, locks
  <2> QED BY <1>2, <2>1, BoundKept
<1>l. CASE MergeAbandon(t) \/ MergeOtherFails(t) \/ MergeWriteBackFails(t)
  <2>1. Finish(t) /\ UNCHANGED <<head, db>> /\ th[t].pc \in Merging
    BY <1>l DEF MergeAbandon, MergeOtherFails, MergeWriteBackFails, MayLockOther, Merging, store
  <2> QED BY <1>2, <1>3, <2>1, BoundKept
<1>b. CASE MergeBegin(t)
  <2>1. MergesAlone(t) /\ mergeLock' = t /\ Goto(t, "mergelock") /\ UNCHANGED <<head, db>>
    BY <1>b DEF MergeBegin, MergesAlone, store
  <2>2. Moved(t) /\ th'[t].pc = "mergelock"
    BY <2>1, GotoFacts
  <2>3. Tame(t)'
    BY <2>1, <2>2 DEF Tame, SplitPcs, Splitting
  <2> QED BY <2>1, <2>2, <2>3, BoundKept
<1>n. CASE MergeNotNeeded(t)
  <2>1. /\ th[t].pc = "mergelock" /\ db' = [db EXCEPT ![th[t].head] = Live(db[th[t].head])]
        /\ UNCHANGED head /\ Finish(t) /\ Unlocked(th[t].head)
    BY <1>n DEF MergeNotNeeded
  <2>2. th[t].head \in Placed /\ th[t].head \in HeadIds
    BY <2>1, HeadOfThread DEF HeadPcs, MergePcs
  <2>3. PICK h \in Placed : h = th[t].head /\ h \in HeadIds
    BY <2>2
  <2> DEFINE live == Live(db[h])
  <2>4. Len(live) <= PostingBound
    BY <2>3, ListBounds
  <2>5. db' = [db EXCEPT ![h] = live]
    BY <2>1, <2>3
  <2>6. MayWrite(t, h) /\ th[t].pc \in Merging
    BY <2>1, <2>3 DEF MayWrite, Unlocked, Merging
  <2> HIDE DEF live
  <2> QED BY <1>2, <1>3, <2>1, <2>4, <2>5, <2>6, BoundWritten
<1>s. CASE MergeSearch(t)
  <2> DEFINE live == Live(db[th[t].head])
             p == <<live, db[th[t].head]>>
  <2>1. PICK c : th' = [th EXCEPT ![t].pc = "candidate", ![t].cand = c, ![t].parts = p]
    BY <1>s DEF MergeSearch
  <2>2. th[t].pc = "mergelock" /\ Len(live) <= MergeThreshold /\ UNCHANGED <<head, db, mergeLock>>
    BY <1>s DEF MergeSearch, store
  <2>3. Len(p[1]) <= MergeThreshold
    BY <2>2
  <2> HIDE DEF p
  <2>4. Moved(t) /\ th'[t].pc = "candidate" /\ th'[t].parts = p
    BY <1>0, <2>1 DEF Moved, ThreadT
  <2>5. mergeLock' = t
    BY <1>3, <2>2 DEF Merging
  <2>6. Tame(t)'
    BY <2>3, <2>4, <2>5 DEF Tame, SplitPcs, Splitting
  <2> QED BY <2>2, <2>4, <2>6, BoundKept
<1>c. CASE MergeCandidate(t)
  <2>1. PICK c \in th[t].cand :
           th' = IF Mergeable(t, c) THEN [th EXCEPT ![t].pc = "mergeother", ![t].other = c]
                                    ELSE [th EXCEPT ![t].cand = @ \ {c}]
    BY <1>c DEF MergeCandidate
  <2>2. th[t].pc = "candidate" /\ UNCHANGED <<head, db, mergeLock>>
    BY <1>c DEF MergeCandidate, store, locks
  <2>3. mergeLock' = t /\ Len(th[t].parts[1]) <= MergeThreshold
    BY <1>1, <1>3, <2>2 DEF Merging, Tame
  <2>4. CASE Mergeable(t, c)
    <3>1. Moved(t) /\ th'[t].pc = "mergeother" /\ th'[t].other = c /\ th'[t].parts = th[t].parts
      BY <1>0, <2>1, <2>4 DEF Moved, ThreadT
    <3>2. c \in Placed /\ c \in HeadIds /\ th[t].parts[1] \in Seq(Known)
      BY <1>0, <2>2, MergeHands DEF ThreadT, Placed
    <3>3. head'[c] = "visible" => Len(db'[c]) <= Limit
      <4> SUFFICES ASSUME head[c] = "visible" PROVE Len(db[c]) <= Limit
        BY <2>2
      <4>1. sizes[c] = Len(db[c]) /\ Len(db[c]) \in Nat /\ Len(th[t].parts[1]) \in Nat
        BY <1>1, <3>2, ListBounds DEF SizeInv
      <4>2. PICK a \in Nat, b \in Nat : a = Len(th[t].parts[1]) /\ b = Len(db[c])
        BY <4>1
      <4>3. a + b < PostingSizeLimit
        BY <2>4, <4>1, <4>2 DEF Mergeable
      <4>4. b <= Limit
        BY <4>3, BoundTypes
      <4> QED BY <4>2, <4>4
    <3>4. Tame(t)'
      BY <2>3, <3>1, <3>3 DEF Tame, SplitPcs, Splitting
    <3> QED BY <2>2, <3>1, <3>4, BoundKept
  <2>5. CASE ~Mergeable(t, c)
    <3>1. Moved(t) /\ th'[t].pc = "candidate" /\ th'[t].parts = th[t].parts
      BY <1>0, <2>1, <2>2, <2>5 DEF Moved, ThreadT
    <3>2. Tame(t)'
      BY <2>3, <3>1 DEF Tame, SplitPcs, Splitting
    <3> QED BY <2>2, <3>1, <3>2, BoundKept
  <2> QED BY <2>4, <2>5
<1>q. CASE MergeOtherMissing(t)
  <2>1. th[t].pc = "mergeother" /\ UNCHANGED <<head, db, mergeLock>>
    BY <1>q DEF MergeOtherMissing, MayLockOther, store, locks
  <2>2. mergeLock' = t /\ Len(th[t].parts[1]) <= MergeThreshold
    BY <1>1, <1>3, <2>1 DEF Merging, Tame
  <2>3. Moved(t) /\ th'[t].pc = "candidate" /\ th'[t].parts = th[t].parts
    BY <1>q, <1>0 DEF MergeOtherMissing, Moved, ThreadT
  <2>4. Tame(t)'
    BY <2>2, <2>3 DEF Tame, SplitPcs, Splitting
  <2> QED BY <2>1, <2>3, <2>4, BoundKept
<1>o. CASE MergeOther(t)
  <2>1. MayLockOther(t) /\ ContainSample(th[t].other) /\ Merged(t, << >>)
    BY <1>o DEF MergeOther
  <2>2. PICK n, p : th' = [th EXCEPT ![t].pc = "merged", ![t].news = n, ![t].parts = p, ![t].cand = {}]
    BY <1>o DEF MergeOther
  <2>3. Moved(t) /\ th'[t].pc = "merged"
    BY <1>0, <2>2 DEF Moved, ThreadT
  <2>4. Tame(t)'
    BY <2>3, QuietTame DEF Quiet, QuietPcs
  <2>5. << >> \in Seq(Known) /\ Len(<< >>) <= PostingBound
    BY BoundTypes
  <2> QED BY <2>1, <2>3, <2>4, <2>5, MergedBounds
<1>d. CASE MergeDeleteFails(t)
  <2>1. MayLockOther(t) /\ ContainSample(th[t].other) /\ Merged(t, db[Removed(t)]) /\ Finish(t)
    BY <1>d DEF MergeDeleteFails
  <2>2. Removed(t) \in HeadIds
    BY <2>1, MergedFacts DEF MayLockOther
  <2>3. db[Removed(t)] \in Seq(Known) /\ Len(db[Removed(t)]) <= PostingBound
    BY <2>2, ListBounds
  <2> QED BY <1>2, <2>1, <2>3, MergedBounds
<1>p. CASE MergePutFails(t)
  <2>1. /\ th[t].pc = "mergeother" /\ head' = [head EXCEPT ![Removed(t)] = "deleted"] /\ Finish(t)
        /\ UNCHANGED db
    BY <1>p DEF MergePutFails, MayLockOther
  <2>2. Removed(t) \in HeadIds
    BY <2>1, MergedFacts
  <2>3. \A h \in Placed : head'[h] = "visible" => head[h] = "visible"
    BY <1>1, <2>1, <2>2 DEF Placed
  <2>4. MergesAlone(t)
    BY <1>3, <2>1 DEF Merging
  <2> QED BY <1>2, <2>1, <2>3, <2>4, BoundKept
<1>w. CASE MergeWriteBack(t)
  <2>1. /\ th[t].pc = "candidate" /\ db' = [db EXCEPT ![th[t].head] = th[t].parts[1]]
        /\ UNCHANGED head /\ Finish(t)
    BY <1>w DEF MergeWriteBack
  <2>2. th[t].head \in Placed /\ th[t].head \in HeadIds /\ th[t].parts[1] \in Seq(Known)
    BY <2>1, MergeHands
  <2>3. PICK h \in Placed : h = th[t].head
    BY <2>2
  <2>4. MayWrite(t, h)
    BY <2>1, <2>2, <2>3, OwnLock DEF Holding
  <2>5. Len(th[t].parts[1]) <= MergeThreshold /\ MergesAlone(t)
    BY <1>1, <1>3, <2>1 DEF Tame, Merging
  <2> DEFINE p == th[t].parts[1]
  <2>6. db' = [db EXCEPT ![h] = p] /\ Len(p) \in Nat /\ Len(p) <= MergeThreshold
    BY <2>1, <2>2, <2>3, <2>5
  <2> HIDE DEF p
  <2>7. Len(p) <= PostingBound
    <3>1. PICK a \in Nat : a = Len(p) /\ a <= MergeThreshold
      BY <2>6
    <3>2. a <= PostingBound
      BY <3>1, BoundTypes
    <3> QED BY <3>1, <3>2
  <2> QED BY <1>2, <2>1, <2>4, <2>5, <2>6, <2>7, BoundWritten
<1> QED BY <1>f, <1>l, <1>b, <1>n, <1>s, <1>c, <1>q, <1>o, <1>d, <1>p, <1>w DEF MergeStep

\* Without searches that start merges there are none.
MergeFree ==
    MaxMerges = 0 =>
        /\ budget.merges = 0
        /\ \A i \in 1 .. Len(jobs) : jobs[i].type # "merge"
        /\ \A t \in Threads : th[t].pc \notin MergePcs

LEMMA JobsAppended ==
    ASSUME TInv, \A i \in 1 .. Len(jobs) : jobs[i].type # "merge",
           NEW j, j.type # "merge", jobs' = Append(jobs, j)
    PROVE  \A i \in 1 .. Len(jobs') : jobs'[i].type # "merge"
<1>1. jobs \in Seq(JobT(Placed, Known))
  BY DEF TInv, RestT
<1>2. jobs \in Seq(JobT(Placed, Known) \cup {j})
  BY <1>1, SeqMono
<1> QED BY <1>2

LEMMA ReassignsAppended ==
    ASSUME NEW T, NEW s \in Seq(T), \A i \in 1 .. Len(s) : s[i].type # "merge",
           NEW R \in Seq(ReassignT(Placed, Known))
    PROVE  /\ \A i \in 1 .. Len(s \o R) : (s \o R)[i].type # "merge"
           /\ s \o R \in Seq(T \cup ReassignT(Placed, Known))
<1>1. \A i \in 1 .. Len(R) : R[i].type # "merge"
  <2>1. \A r \in ReassignT(Placed, Known) : r.type = "reassign"
    BY DEF ReassignT
  <2>2. \A i \in 1 .. Len(R) : R[i] \in ReassignT(Placed, Known)
    OBVIOUS
  <2>3. "reassign" # "merge"
    OBVIOUS
  <2> QED BY <2>1, <2>2, <2>3
<1>2. s \in Seq(T \cup ReassignT(Placed, Known)) /\ R \in Seq(T \cup ReassignT(Placed, Known))
  BY SeqMono
<1>3. s \o R \in Seq(T \cup ReassignT(Placed, Known)) /\ Len(s \o R) = Len(s) + Len(R)
  BY <1>2
<1>4. \A i \in 1 .. Len(s \o R) : (s \o R)[i] = IF i <= Len(s) THEN s[i] ELSE R[i - Len(s)]
  BY <1>2, <1>3
<1>5. \A i \in 1 .. Len(s \o R) : i <= Len(s) => i \in 1 .. Len(s)
  OBVIOUS
<1>6. \A i \in 1 .. Len(s \o R) : ~(i <= Len(s)) => i - Len(s) \in 1 .. Len(R)
  BY <1>2, <1>3
<1> QED BY <1>1, <1>3, <1>4, <1>5, <1>6

LEMMA MergeFreeStep ==
    ASSUME TInv, MergeFree, NEW t \in Threads,
           \/ AppendStep(t) \/ SplitStep(t) \/ MergeStep(t) \/ ReassignStep(t) \/ TakeJob(t)
           \/ \E v \in Vectors : AddIndex(t, v) \/ DeleteIndex(t, v)
           \/ \E h \in HeadIds : SearchIndex(t, h)
    PROVE  MergeFree'
<1> SUFFICES ASSUME MaxMerges = 0
             PROVE  /\ budget'.merges = 0
                    /\ \A i \in 1 .. Len(jobs') : jobs'[i].type # "merge"
                    /\ \A u \in Threads : th'[u].pc \notin MergePcs
  BY DEF MergeFree
<1>0. th \in [Threads -> ThreadT(Placed, Known)] /\ jobs \in Seq(JobT(Placed, Known)) /\ budget \in BudgetT
  BY DEF TInv, ThreadsT, RestT
<1>1. /\ budget.merges = 0
      /\ \A i \in 1 .. Len(jobs) : jobs[i].type # "merge"
      /\ \A u \in Threads : th[u].pc \notin MergePcs
  BY DEF MergeFree
<1>2. Moved(t) /\ th'[t].pc \notin MergePcs => \A u \in Threads : th'[u].pc \notin MergePcs
  BY <1>1 DEF Moved
<1>m. CASE MergeStep(t)
  <2>1. th[t].pc \in MergePcs
    BY <1>m DEF MergeStep, MergeRequeue, MergeBegin, MergeAbandon, MergeNotNeeded, MergeSearch,
       MergeCandidate, MergeOtherMissing, MergeOtherFails, MergeOther, MergeDeleteFails, MergePutFails,
       MergeReassign, MergeWriteBack, MergeWriteBackFails, MayLockOther, MergePcs
  <2> QED BY <1>1, <2>1
<1>h. CASE \E h \in HeadIds : SearchIndex(t, h)
  BY <1>h, <1>1 DEF SearchIndex
<1>a. CASE AppendStep(t)
  <2>1. \A u \in Threads : th'[u].pc \notin MergePcs
    BY <1>a, <1>2, AppendQuiet DEF Quiet
  <2>2. UNCHANGED budget
    BY <1>a DEF AppendStep, NextReplica, AppendHeadMiss, AppendCheck, AppendRecheck, AppendFull,
       AppendMerge, AppendFails, AppendEnd, ghosts
  <2>3. \/ UNCHANGED jobs
        \/ jobs' = Append(jobs, ReassignJob(th[t].e, th[t].head))
        \/ jobs' = Append(jobs, SplitJob(th[t].head))
    BY <1>a DEF AppendStep, NextReplica, AppendHeadMiss, AppendCheck, AppendRecheck, AppendFull,
       AppendMerge, AppendFails, AppendEnd
  <2>4. ReassignJob(th[t].e, th[t].head).type # "merge" /\ SplitJob(th[t].head).type # "merge"
    BY DEF ReassignJob, SplitJob
  <2>5. \A i \in 1 .. Len(jobs') : jobs'[i].type # "merge"
    BY <1>1, <2>3, <2>4, JobsAppended
  <2> QED BY <1>1, <2>1, <2>2, <2>5
<1>r. CASE ReassignStep(t)
  <2>1. \A u \in Threads : th'[u].pc \notin MergePcs
    BY <1>r, <1>2, ReassignQuiet DEF Quiet
  <2>2. UNCHANGED <<budget, jobs>>
    BY <1>r DEF ReassignStep, ReassignStale, ReassignNotNeeded, ReassignSelect, ReassignCheck,
       ReassignIncVersion, ghosts
  <2> QED BY <1>1, <2>1, <2>2
<1>c. CASE CollectReAssign(t)
  <2>1. \A u \in Threads : th'[u].pc \notin MergePcs
    BY <1>c, <1>2, ReturnQuiet DEF CollectReAssign, Quiet
  <2>2. budget'.merges = 0
    BY <1>1, <1>c, CollectJobs
  <2>3. PICK A, B \in Seq(ReassignT(Placed, Known)) : jobs' = jobs \o A \o B
    BY <1>c, CollectJobs
  <2>4. \A i \in 1 .. Len((jobs \o A) \o B) : ((jobs \o A) \o B)[i].type # "merge"
    <3> DEFINE S == jobs \o A
               U == JobT(Placed, Known) \cup ReassignT(Placed, Known)
    <3>1. \A i \in 1 .. Len(jobs) : jobs[i].type # "merge"
      BY <1>1
    <3>2. S \in Seq(U) /\ \A i \in 1 .. Len(S) : S[i].type # "merge"
      BY <1>0, <3>1, ReassignsAppended
    <3> HIDE DEF S, U
    <3>3. \A i \in 1 .. Len(S \o B) : (S \o B)[i].type # "merge"
      BY <3>2, ReassignsAppended
    <3> QED BY <3>3 DEF S
  <2> QED BY <2>1, <2>2, <2>3, <2>4
<1>s. CASE SplitStep(t) /\ ~CollectReAssign(t)
  <2>1. UNCHANGED <<budget, jobs>>
    BY <1>s DEF SplitStep, SplitMissing, SplitFails, SplitCollectGarbage, SplitOneCluster, SplitClusters,
       SplitSameHead, SplitNewHead, SplitIncVersion, SplitPut, SplitPutFails, SplitAddRow, SplitOldHead,
       SplitDeleteFails, SplitErase, ghosts
  <2>2. Moved(t) /\ th'[t].pc \notin MergePcs
    <3>1. CASE SplitReturn(t)
      BY <3>1, ReturnQuiet DEF Quiet
    <3>2. CASE \E p \in {"put", "addrow", "erase", "collect"} : Goto(t, p)
      BY <3>2, GotoFacts DEF MergePcs
    <3>3. CASE SplitClusters(t)
      <4>1. PICK p, z : th' = [th EXCEPT ![t].pc = "cluster", ![t].same = z, ![t].news = << >>, ![t].parts = p]
        BY <3>3 DEF SplitClusters
      <4> QED BY <1>0, <4>1 DEF Moved, ThreadT, MergePcs
    <3>4. CASE SplitNewHead(t)
      <4>1. PICK p \in {"center", "put"} : th' = [th EXCEPT ![t].other = NumSamples, ![t].pc = p]
        BY <3>4 DEF SplitNewHead
      <4> QED BY <1>0, <4>1 DEF Moved, ThreadT, MergePcs
    <3>5. CASE SplitSameHead(t)
      BY <1>0, <1>1, <3>5 DEF SplitSameHead, Moved, ThreadT
    <3>6. CASE SplitAddRow(t)
      BY <1>0, <3>6 DEF SplitAddRow, Moved, ThreadT, MergePcs
    <3> QED BY <1>s, <3>1, <3>2, <3>3, <3>4, <3>5, <3>6
            DEF SplitStep, SplitMissing, SplitFails, SplitCollectGarbage, SplitOneCluster,
                SplitIncVersion, SplitPut, SplitPutFails, SplitOldHead, SplitDeleteFails, SplitErase
  <2> QED BY <1>1, <1>2, <2>1, <2>2
<1>t. CASE TakeJob(t)
  <2>1. UNCHANGED budget /\ jobs # << >> /\ jobs' = Tail(jobs)
    BY <1>t DEF TakeJob, ghosts
  <2>2. \A i \in 1 .. Len(jobs') : jobs'[i].type # "merge"
    BY <1>0, <1>1, <2>1
  <2> DEFINE j == Head(jobs)
  <2>3. j \in JobT(Placed, Known) /\ j.type # "merge"
    BY <1>0, <1>1, <2>1
  <2>4. j.type \in {"split", "reassign"}
    BY <2>3 DEF JobT, ReassignT
  <2>5. Moved(t) /\ th'[t].pc = j.type
    <3>1. CASE j.type = "split"
      <4>1. th' = [th EXCEPT ![t] = [IdleThread EXCEPT !.pc = "split", !.head = j.head,
                                                       !.reassign = j.reassign]]
        BY <1>t, <3>1 DEF TakeJob
      <4> HIDE DEF j
      <4> QED BY <1>0, <3>1, <4>1 DEF Moved, IdleThread
    <3>2. CASE j.type = "reassign"
      <4>1. th' = [th EXCEPT ![t] = [IdleThread EXCEPT !.pc = "reassign", !.head = j.prev, !.e = j.e,
                                                       !.slack = ReassignThreshold]]
        BY <1>t, <3>2 DEF TakeJob
      <4> HIDE DEF j
      <4> QED BY <1>0, <3>2, <4>1 DEF Moved, IdleThread
    <3> QED BY <2>4, <3>1, <3>2
  <2>6. \A u \in Threads : th'[u].pc \notin MergePcs
    BY <1>2, <2>4, <2>5 DEF MergePcs
  <2> QED BY <1>1, <2>1, <2>2, <2>6
<1>i. CASE \E v \in Vectors : AddIndex(t, v)
  <2>1. UNCHANGED <<budget, jobs>>
    BY <1>i DEF AddIndex, ghosts
  <2>2. PICK s, f : th' = [th EXCEPT ![t] = [IdleThread EXCEPT !.pc = "next", !.sel = s, !.e = f]]
    BY <1>i DEF AddIndex
  <2>3. Moved(t) /\ th'[t].pc = "next"
    BY <1>0, <2>2 DEF Moved, IdleThread
  <2> QED BY <1>1, <1>2, <2>1, <2>3 DEF MergePcs
<1>d. CASE \E v \in Vectors : DeleteIndex(t, v)
  <2>1. UNCHANGED <<jobs, th>> /\ budget' = [budget EXCEPT !.deletes = @ - 1]
    BY <1>d DEF DeleteIndex
  <2>2. budget'.merges = 0
    BY <1>0, <1>1, <2>1 DEF BudgetT
  <2> QED BY <1>1, <2>1, <2>2
<1> QED BY <1>m, <1>h, <1>a, <1>r, <1>c, <1>s, <1>t, <1>i, <1>d

LEMMA BoundsInv == Spec => [](MergeFree /\ BoundInv)
<1>1. Init => MergeFree /\ BoundInv
  <2> SUFFICES ASSUME Init PROVE MergeFree /\ BoundInv
    OBVIOUS
  <2>1. \A t \in Threads : th[t].pc = "idle"
    BY DEF Init, IdleThread
  <2>2. MergeFree
    BY <2>1 DEF Init, MergeFree, MergePcs
  <2>3. \A h \in HeadIds : Len(db[h]) <= PostingBound
    <3> TAKE h \in HeadIds
    <3>1. PICK e : db[h] = <<e>> \/ db[h] = << >>
      BY DEF Init
    <3>2. Len(db[h]) = 1 \/ Len(db[h]) = 0
      <4>1. <<e>> \in Seq({e}) /\ Len(<<e>>) = 1
        OBVIOUS
      <4>2. Len(<< >>) = 0
        OBVIOUS
      <4>3. CASE db[h] = <<e>>
        BY <4>1, <4>3
      <4>4. CASE db[h] = << >>
        BY <4>2, <4>4
      <4> QED BY <3>1, <4>3, <4>4
    <3>3. 1 <= PostingBound /\ 0 <= PostingBound
      BY BoundTypes
    <3> QED BY <3>2, <3>3
  <2>4. \A t \in Threads : Tame(t)
    BY <2>1 DEF Tame, SplitPcs, Splitting, Merging
  <2> QED BY <2>2, <2>3, <2>4 DEF BoundInv, PostingBounded
<1>2. TInv /\ LockInv /\ SizeInv /\ MergeFree /\ BoundInv /\ [Next]_vars => (MergeFree /\ BoundInv)'
  <2> SUFFICES ASSUME TInv, LockInv, SizeInv, MergeFree, BoundInv, [Next]_vars
               PROVE  MergeFree' /\ BoundInv'
    OBVIOUS
  <2>1. CASE UNCHANGED vars
    <3>1. MergeFree'
      BY <2>1 DEF vars, MergeFree
    <3>2. PostingBounded'
      BY <2>1 DEF vars, BoundInv, PostingBounded
    <3>3. \A t \in Threads : Tame(t)'
      BY <2>1 DEF vars, BoundInv, Tame
    <3> QED BY <3>1, <3>2, <3>3 DEF BoundInv
  <2>2. CASE Next
    <3>1. PICK t \in Threads :
              \/ AppendStep(t) \/ SplitStep(t) \/ MergeStep(t) \/ ReassignStep(t) \/ TakeJob(t)
              \/ \E v \in Vectors : AddIndex(t, v) \/ DeleteIndex(t, v)
              \/ \E h \in HeadIds : SearchIndex(t, h)
      BY <2>2, NextByThread
    <3>2. MergeFree'
      BY <3>1, MergeFreeStep
    <3>3. MergeStep(t) => MaxMerges # 0
      BY DEF MergeFree, MergeStep, MergeRequeue, MergeBegin, MergeAbandon, MergeNotNeeded, MergeSearch,
         MergeCandidate, MergeOtherMissing, MergeOtherFails, MergeOther, MergeDeleteFails, MergePutFails,
         MergeReassign, MergeWriteBack, MergeWriteBackFails, MayLockOther, MergePcs
    <3>4. SplitStep(t) => BoundInv'
      BY SplitEntryBounds, SplitLaterBounds DEF SplitStep
    <3>5. BoundInv'
      BY <3>1, <3>3, <3>4, AppendBounds, MergeBounds, OtherBounds
    <3> QED BY <3>2, <3>5
  <2> QED BY <2>1, <2>2
<1> QED BY <1>1, <1>2, TypesInv, LocksInv, SizesInv, PTL DEF Spec

\* No posting outgrows m_postingSizeLimit + m_bufferSizeLimit while no merge is ever
\* started, and with merges at most m_mergeThreshold entries come on top, however appends,
\* splits and merges interleave between the unlocked read of the candidate's size and its
\* lock (ExtraDynamicSearcher.h:1342, 1885).
THEOREM PostingsStayBounded == Spec => []PostingBounded
<1>1. BoundInv => PostingBounded
  BY DEF BoundInv
<1> QED BY <1>1, BoundsInv, PTL

-----------------------------------------------------------------------------
(***************************************************************************)
(* m_splitList and m_mergeList.                                            *)
(***************************************************************************)
LEMMA RangeAppend ==
    ASSUME NEW T, NEW s \in Seq(T), NEW x
    PROVE  Range(Append(s, x)) = Range(s) \cup {x}
<1>1. s \in Seq(T \cup {x}) /\ Len(s) \in Nat /\ DOMAIN s = 1 .. Len(s)
  BY SeqMono
<1>2. DOMAIN Append(s, x) = 1 .. Len(s) + 1
  BY <1>1
<1>3. \A i \in 1 .. Len(s) + 1 : Append(s, x)[i] = IF i <= Len(s) THEN s[i] ELSE x
  BY <1>1
<1>4. \A i \in 1 .. Len(s) + 1 : i \in 1 .. Len(s) <=> i <= Len(s)
  BY <1>1
<1>5. Len(s) + 1 \in 1 .. Len(s) + 1 /\ ~(Len(s) + 1 <= Len(s))
  BY <1>1
<1>6. \A i \in 1 .. Len(s) : i \in 1 .. Len(s) + 1
  BY <1>1
<1> QED BY <1>1, <1>2, <1>3, <1>4, <1>5, <1>6 DEF Range

LEMMA RangeConcat ==
    ASSUME NEW T, NEW s \in Seq(T), NEW r \in Seq(T)
    PROVE  Range(s \o r) = Range(s) \cup Range(r)
<1> DEFINE m == Len(s)
           n == Len(r)
<1>1. m \in Nat /\ n \in Nat /\ DOMAIN s = 1 .. m /\ DOMAIN r = 1 .. n
  OBVIOUS
<1>2. DOMAIN (s \o r) = 1 .. m + n
  OBVIOUS
<1>3. \A i \in 1 .. m + n : (s \o r)[i] = IF i <= m THEN s[i] ELSE r[i - m]
  OBVIOUS
<1> HIDE DEF m, n
<1>4. \A i \in 1 .. m + n : (i <= m => i \in 1 .. m) /\ (~(i <= m) => i - m \in 1 .. n)
  BY <1>1
<1>5. \A i \in 1 .. m : i \in 1 .. m + n /\ i <= m
  BY <1>1
<1>6. \A i \in 1 .. n : i + m \in 1 .. m + n /\ ~(i + m <= m) /\ (i + m) - m = i
  BY <1>1
<1>7. \A i \in 1 .. n : (s \o r)[i + m] = r[i]
  BY <1>3, <1>6
<1>8. Range(s \o r) \subseteq Range(s) \cup Range(r)
  BY <1>1, <1>2, <1>3, <1>4 DEF Range
<1>9. Range(s) \subseteq Range(s \o r)
  BY <1>1, <1>2, <1>3, <1>5 DEF Range
<1>10. Range(r) \subseteq Range(s \o r)
  BY <1>1, <1>2, <1>6, <1>7 DEF Range
<1> QED BY <1>8, <1>9, <1>10

LEMMA RangeTail ==
    ASSUME NEW T, NEW s \in Seq(T), s # << >>
    PROVE  Range(s) = {Head(s)} \cup Range(Tail(s)) /\ Head(s) \in Range(s) /\ Tail(s) \in Seq(T)
<1> DEFINE n == Len(s)
<1>1. n \in Nat /\ n > 0 /\ DOMAIN s = 1 .. n /\ Head(s) = s[1]
  OBVIOUS
<1>2. Tail(s) \in Seq(T) /\ DOMAIN Tail(s) = 1 .. n - 1 /\ \A i \in 1 .. n - 1 : Tail(s)[i] = s[i + 1]
  OBVIOUS
<1> HIDE DEF n
<1>3. \A i \in 1 .. n : i = 1 \/ (i - 1 \in 1 .. n - 1 /\ (i - 1) + 1 = i)
  BY <1>1
<1>4. 1 \in 1 .. n /\ \A i \in 1 .. n - 1 : i + 1 \in 1 .. n
  BY <1>1
<1>5. \A i \in 1 .. n : s[i] = s[1] \/ s[i] \in Range(Tail(s))
  <2> TAKE i \in 1 .. n
  <2>1. CASE i = 1
    BY <2>1
  <2>2. CASE i # 1
    <3>1. i - 1 \in 1 .. n - 1 /\ Tail(s)[i - 1] = s[i]
      BY <1>2, <1>3, <2>2
    <3> QED BY <1>2, <3>1 DEF Range
  <2> QED BY <2>1, <2>2
<1>6. Range(Tail(s)) \subseteq Range(s) /\ Head(s) \in Range(s)
  BY <1>1, <1>2, <1>4 DEF Range
<1>7. Range(s) \subseteq {Head(s)} \cup Range(Tail(s))
  BY <1>1, <1>5 DEF Range
<1> QED BY <1>2, <1>6, <1>7

\* What becomes of the heads that have been visible: they may be deleted, for good.
HeadsForward == \A h \in Placed : h \in Placed' /\ (head'[h] = "visible" => head[h] = "visible")

\* A step and the thread that takes it: workers run jobs, clients call the index.
OtherStep(t) ==
    \/ t \in Workers /\ (TakeJob(t) \/ ReassignStep(t))
    \/ t \in Clients /\ \/ \E v \in Vectors : AddIndex(t, v) \/ DeleteIndex(t, v)
                        \/ \E h \in HeadIds : SearchIndex(t, h)

Step(t) == AppendStep(t) \/ SplitStep(t) \/ (t \in Workers /\ MergeStep(t)) \/ OtherStep(t)

LEMMA NextSteps ==
    ASSUME Next
    PROVE  \E t \in Threads : Step(t)
<1>1. Clients \subseteq Threads /\ Workers \subseteq Threads
  BY DEF Threads
<1> QED BY <1>1 DEF Next, ThreadStep, WorkerStep, Step, OtherStep

LEMMA StepsForward ==
    ASSUME TInv, NEW t \in Threads, Step(t)
    PROVE  HeadsForward
<1>0. head \in [HeadIds -> {"free", "added", "visible", "deleted"}]
  BY DEF TInv, StoreT
<1>u. CASE UNCHANGED head
  BY <1>u DEF HeadsForward, Placed
<1>d. ASSUME NEW h \in HeadIds, head' = [head EXCEPT ![h] = "deleted"]
      PROVE  HeadsForward
  <2>1. \A k \in HeadIds : head'[k] = IF k = h THEN "deleted" ELSE head[k]
    BY <1>0, <1>d
  <2> QED BY <2>1 DEF HeadsForward, Placed
<1>n. CASE SplitNewHead(t)
  <2>1. NumSamples \in HeadIds /\ head[NumSamples] = "free"
    BY <1>n, NextHead, Configuration DEF SplitNewHead, HeadIds
  <2>2. head' = [head EXCEPT ![NumSamples] = "added"]
    BY <1>n DEF SplitNewHead
  <2>3. \A k \in HeadIds : head'[k] = IF k = NumSamples THEN "added" ELSE head[k]
    BY <1>0, <2>1, <2>2
  <2>4. \A k \in HeadIds : head[k] \in {"visible", "deleted"} => head'[k] = head[k]
    BY <2>1, <2>3
  <2> QED BY <2>4 DEF HeadsForward, Placed
<1>a. CASE SplitAddRow(t)
  <2>1. th[t].pc = "addrow" /\ head' = [head EXCEPT ![th[t].other] = "visible"]
    BY <1>a DEF SplitAddRow
  <2>2. th[t].other \in HeadIds /\ head[th[t].other] = "added"
    BY <2>1 DEF TInv, ThreadsT, Shape, Creating, Pending
  <2>3. \A k \in HeadIds : head[k] \in {"visible", "deleted"} => head'[k] = head[k]
    BY <1>0, <2>1, <2>2
  <2> QED BY <2>3 DEF HeadsForward, Placed
<1>o. CASE SplitOldHead(t) \/ SplitDeleteFails(t)
  <2>1. th[t].pc = "cluster" /\ (UNCHANGED head \/ head' = [head EXCEPT ![th[t].head] = "deleted"])
    BY <1>o DEF SplitOldHead, SplitDeleteFails, RemoveHead
  <2>2. th[t].head \in HeadIds
    BY <2>1, HeadOfThread DEF HeadPcs, SplitPcs
  <2> QED BY <1>u, <1>d, <2>1, <2>2
<1>m. CASE MergeOther(t) \/ MergeDeleteFails(t) \/ MergePutFails(t)
  <2>1. th[t].pc = "mergeother" /\ head' = [head EXCEPT ![Removed(t)] = "deleted"]
    BY <1>m DEF MergeOther, MergeDeleteFails, MergePutFails, MayLockOther, Merged
  <2>2. Removed(t) \in HeadIds
    BY <2>1, MergedFacts
  <2> QED BY <1>d, <2>1, <2>2
<1>s. CASE SplitStep(t)
  BY <1>s, <1>u, <1>n, <1>a, <1>o DEF SplitStep, SplitMissing, SplitFails, SplitCollectGarbage, SplitOneCluster,
     SplitClusters, SplitSameHead, SplitIncVersion, SplitPut, SplitPutFails, SplitErase,
     CollectReAssign, store
<1>g. CASE MergeStep(t)
  BY <1>g, <1>u, <1>m DEF MergeStep, MergeRequeue, MergeBegin, MergeAbandon, MergeNotNeeded, MergeSearch,
     MergeCandidate, MergeOtherMissing, MergeOtherFails, MergeReassign, MergeWriteBack,
     MergeWriteBackFails, store
<1>p. CASE AppendStep(t) \/ ReassignStep(t)
  BY <1>p, <1>u DEF AppendStep, NextReplica, AppendHeadMiss, AppendCheck, AppendRecheck, AppendFull,
     AppendMerge, AppendFails, AppendEnd, ReassignStep, ReassignStale, ReassignNotNeeded, ReassignSelect,
     ReassignCheck, ReassignIncVersion, store
<1>c. CASE TakeJob(t) \/ (\E v \in Vectors : AddIndex(t, v) \/ DeleteIndex(t, v))
           \/ \E h \in HeadIds : SearchIndex(t, h)
  BY <1>c, <1>u DEF TakeJob, AddIndex, DeleteIndex, SearchIndex, store
<1> QED BY <1>s, <1>g, <1>p, <1>c DEF Step, OtherStep

\* A head on one of the lists has been visible.  While it is, its job is in the queue or a
\* thread is at work on it.
Kinds == {"split", "merge"}
Works(k) == IF k = "split" THEN {"split", "erase"} \cup Splitting ELSE MergePcs
Named(k) == IF k = "split" THEN splitList ELSE mergeList

Pursued(k, h) ==
    \/ \E j \in Range(jobs) : j.type = k /\ j.head = h
    \/ \E t \in Threads : th[t].pc \in Works(k) /\ th[t].head = h

PursuedInv ==
    \A k \in Kinds : \A h \in Named(k) :
        h \in Placed /\ (head[h] = "visible" => Pursued(k, h))

\* What a thread owes to the head it is at work on.
Discharged(t) ==
    \A k \in Kinds :
        th[t].pc \in Works(k) =>
            \/ th[t].head \notin Named(k)' \/ head'[th[t].head] # "visible"
            \/ th'[t].pc \in Works(k) /\ th'[t].head = th[t].head
            \/ \E j \in Range(jobs') : j.type = k /\ j.head = th[t].head

LEMMA PursuedStep ==
    ASSUME TInv, PursuedInv, NEW t \in Threads, Moved(t), HeadsForward, Discharged(t),
           \A k \in Kinds : \A h \in Named(k)' : h \in Named(k) \/ (h \in Placed /\ Pursued(k, h)'),
           \A j \in Range(jobs) : j.type \in Kinds => 
              j \in Range(jobs') \/ (th'[t].pc \in Works(j.type) /\ th'[t].head = j.head)
    PROVE  PursuedInv'
<1> SUFFICES ASSUME NEW k \in Kinds, NEW h \in Named(k)'
             PROVE  h \in Placed' /\ (head'[h] = "visible" => Pursued(k, h)')
  BY DEF PursuedInv
<1>1. CASE h \in Placed /\ Pursued(k, h)'
  BY <1>1 DEF HeadsForward
<1>2. CASE h \in Named(k)
  <2>1. h \in Placed /\ (head[h] = "visible" => Pursued(k, h))
    BY <1>2 DEF PursuedInv
  <2>2. h \in Placed'
    BY <2>1 DEF HeadsForward
  <2> SUFFICES ASSUME head'[h] = "visible" PROVE Pursued(k, h)'
    BY <2>2
  <2>3. Pursued(k, h)
    BY <2>1 DEF HeadsForward
  <2>4. CASE \E j \in Range(jobs) : j.type = k /\ j.head = h
    BY <2>4 DEF Pursued, Works
  <2>5. ASSUME NEW u \in Threads, th[u].pc \in Works(k), th[u].head = h
        PROVE  Pursued(k, h)'
    <3>1. CASE u = t
      BY <2>5, <3>1 DEF Discharged, Pursued, Works
    <3>2. CASE u # t
      <4>1. th'[u] = th[u]
        BY <3>2 DEF Moved
      <4> QED BY <2>5, <4>1 DEF Pursued, Works
    <3> QED BY <3>1, <3>2
  <2> QED BY <2>3, <2>4, <2>5 DEF Pursued
<1> QED BY <1>1, <1>2

\* Steps that leave the lists or shorten them, and drop no job.
LEMMA PursuedKept ==
    ASSUME TInv, PursuedInv, NEW t \in Threads, Moved(t), HeadsForward, Discharged(t),
           splitList' \subseteq splitList, mergeList' \subseteq mergeList, Range(jobs) \subseteq Range(jobs')
    PROVE  PursuedInv'
<1>1. \A k \in Kinds : \A h \in Named(k)' : h \in Named(k)
  BY DEF Kinds, Named
<1> QED BY <1>1, PursuedStep

LEMMA QueueTypes ==
    ASSUME TInv
    PROVE  /\ jobs \in Seq(JobT(Placed, Known))
           /\ \A x : Range(Append(jobs, x)) = Range(jobs) \cup {x}
<1>1. jobs \in Seq(JobT(Placed, Known))
  BY DEF TInv, RestT
<1> QED BY <1>1, RangeAppend

LEMMA AppendPursued ==
    ASSUME TInv, PursuedInv, NEW t \in Threads, AppendStep(t)
    PROVE  PursuedInv'
<1>1. Moved(t) /\ HeadsForward
  BY AppendQuiet, StepsForward DEF Quiet, Step
<1>2. Discharged(t)
  <2>1. th[t].pc \in {"next", "append", "appendlock", "appended"}
    BY DEF AppendStep, NextReplica, AppendHeadMiss, AppendCheck, AppendRecheck, AppendFull,
       AppendMerge, AppendFails, AppendEnd
  <2> QED BY <2>1 DEF Discharged, Works, Kinds, Splitting, MergePcs
<1>3. CASE /\ UNCHANGED lists
           /\ UNCHANGED jobs \/ jobs' = Append(jobs, ReassignJob(th[t].e, th[t].head))
  <2>1. Range(jobs) \subseteq Range(jobs')
    BY <1>3, QueueTypes
  <2> QED BY <1>1, <1>2, <1>3, <2>1, PursuedKept DEF lists
<1>4. CASE /\ th[t].pc = "appended" /\ splitList' = splitList \cup {th[t].head} /\ UNCHANGED mergeList
           /\ jobs' = Append(jobs, SplitJob(th[t].head))
  <2>0. th[t].head \in Placed
    BY <1>4, HeadOfThread DEF HeadPcs
  <2>h. PICK h \in Placed : h = th[t].head
    BY <2>0
  <2>1. Range(jobs') = Range(jobs) \cup {SplitJob(h)}
    BY <1>4, <2>h, QueueTypes
  <2>2. SplitJob(h).type = "split" /\ SplitJob(h).head = h
    BY DEF SplitJob
  <2>3. Pursued("split", h)'
    BY <2>1, <2>2 DEF Pursued
  <2>4. \A k \in Kinds : \A g \in Named(k)' : g \in Named(k) \/ (g \in Placed /\ Pursued(k, g)')
    BY <1>4, <2>h, <2>3 DEF Kinds, Named
  <2>5. Range(jobs) \subseteq Range(jobs')
    BY <2>1
  <2> QED BY <1>1, <1>2, <2>4, <2>5, PursuedStep
<1> QED BY <1>3, <1>4 DEF AppendStep, NextReplica, AppendHeadMiss, AppendCheck, AppendRecheck, AppendFull,
       AppendMerge, AppendFails, AppendEnd, lists

\* The jobs that a list of reassignments and the job of a head's vector are appended to.
LEMMA QueueGrows ==
    ASSUME TInv, NEW A \in Seq(ReassignT(Placed, Known)), NEW B \in Seq(ReassignT(Placed, Known))
    PROVE  Range(jobs \o A \o B) = Range(jobs) \cup Range(A) \cup Range(B)
<1>1. jobs \in Seq(JobT(Placed, Known)) /\ A \in Seq(JobT(Placed, Known)) /\ B \in Seq(JobT(Placed, Known))
  BY JobsOK, SeqMono DEF TInv, RestT
<1> DEFINE S == jobs \o A
<1>2. S \in Seq(JobT(Placed, Known)) /\ Range(S) = Range(jobs) \cup Range(A)
  BY <1>1, RangeConcat
<1> HIDE DEF S
<1>3. Range(S \o B) = Range(S) \cup Range(B)
  BY <1>1, <1>2, RangeConcat
<1> QED BY <1>2, <1>3 DEF S

\* A thread that goes on with its split.
LEMMA SplitMoves ==
    ASSUME TInv, NEW t \in Threads, SplitStep(t)
    PROVE  Moved(t)
<1>0. th \in [Threads -> ThreadT(Placed, Known)]
  BY DEF TInv, ThreadsT
<1>1. CASE SplitReturn(t)
  BY <1>1, ReturnFacts
<1>2. CASE \E p : Goto(t, p)
  BY <1>2, GotoFacts
<1>3. CASE SplitClusters(t) \/ SplitNewHead(t) \/ SplitSameHead(t) \/ SplitAddRow(t)
  BY <1>0, <1>3 DEF SplitClusters, SplitNewHead, SplitSameHead, SplitAddRow, Moved
<1> QED BY <1>1, <1>2, <1>3
        DEF SplitStep, SplitMissing, SplitFails, SplitCollectGarbage, SplitOneCluster, CollectReAssign,
            SplitIncVersion, SplitPut, SplitPutFails, SplitOldHead, SplitDeleteFails, SplitErase

LEMMA SplitPursued ==
    ASSUME ~IoFails, TInv, PursuedInv, NEW t \in Threads, SplitStep(t)
    PROVE  PursuedInv'
<1>0. th \in [Threads -> ThreadT(Placed, Known)] /\ th[t] \in ThreadT(Placed, Known)
  BY DEF TInv, ThreadsT
<1>1. Moved(t) /\ HeadsForward
  BY SplitMoves, StepsForward DEF Step
<1>2. UNCHANGED mergeList /\ splitList' \subseteq splitList
  BY DEF SplitStep, SplitMissing, SplitFails, SplitCollectGarbage, SplitOneCluster, SplitClusters,
     SplitSameHead, SplitNewHead, SplitIncVersion, SplitPut, SplitPutFails, SplitAddRow, SplitOldHead,
     SplitDeleteFails, SplitErase, CollectReAssign, lists
<1>3. Range(jobs) \subseteq Range(jobs')
  <2>1. CASE CollectReAssign(t)
    <3>1. PICK A, B \in Seq(ReassignT(Placed, Known)) : jobs' = jobs \o A \o B
      BY <2>1, CollectJobs
    <3> QED BY <3>1, QueueGrows
  <2>2. CASE ~CollectReAssign(t)
    BY <2>2 DEF SplitStep, SplitMissing, SplitFails, SplitCollectGarbage, SplitOneCluster, SplitClusters,
       SplitSameHead, SplitNewHead, SplitIncVersion, SplitPut, SplitPutFails, SplitAddRow, SplitOldHead,
       SplitDeleteFails, SplitErase, lists
  <2> QED BY <2>1, <2>2
<1>4. th[t].pc \in {"split"} \cup SplitPcs
  BY DEF SplitStep, SplitMissing, SplitFails, SplitCollectGarbage, SplitOneCluster, SplitClusters,
     SplitSameHead, SplitNewHead, SplitIncVersion, SplitPut, SplitPutFails, SplitAddRow, SplitOldHead,
     SplitDeleteFails, SplitErase, CollectReAssign, MayEnterSplit, SplitPcs
<1>5. th[t].pc \notin Works("merge")
  BY <1>4 DEF Works, SplitPcs, MergePcs
<1>6. th[t].head \in Placed
  BY <1>4, HeadOfThread DEF HeadPcs, SplitPcs
<1>7. \/ th[t].pc = "collect"
      \/ th[t].head \notin splitList'
      \/ head'[th[t].head] # "visible"
      \/ th'[t].pc \in Works("split") /\ th'[t].head = th[t].head
  <2>1. CASE SplitMissing(t)
    <3>1. head'[th[t].head] # "visible"
      BY <1>6, <2>1 DEF SplitMissing, store, ContainSample, Placed
    <3> QED BY <3>1
  <2>2. CASE SplitCollectGarbage(t) \/ SplitOneCluster(t)
    BY <2>2 DEF SplitCollectGarbage, SplitOneCluster
  <2>3. CASE SplitClusters(t) \/ SplitSameHead(t) \/ SplitNewHead(t) \/ SplitAddRow(t)
    <3>1. CASE SplitClusters(t)
      <4>1. PICK p, z : th' = [th EXCEPT ![t].pc = "cluster", ![t].same = z, ![t].news = << >>, ![t].parts = p]
        BY <3>1 DEF SplitClusters
      <4> QED BY <1>0, <4>1 DEF ThreadT, Works, Splitting
    <3>2. CASE SplitNewHead(t)
      <4>1. PICK p \in {"center", "put"} : th' = [th EXCEPT ![t].other = NumSamples, ![t].pc = p]
        BY <3>2 DEF SplitNewHead
      <4> QED BY <1>0, <4>1 DEF ThreadT, Works, Splitting
    <3>3. CASE SplitSameHead(t)
      <4>1. th[t].pc = "cluster" /\ th' = [th EXCEPT ![t].news = Append(@, th[t].head)]
        BY <3>3 DEF SplitSameHead
      <4> QED BY <1>0, <4>1 DEF ThreadT, Works, Splitting
    <3>4. CASE SplitAddRow(t)
      <4>1. th' = [th EXCEPT ![t].pc = "cluster", ![t].news = Append(@, th[t].other)]
        BY <3>4 DEF SplitAddRow
      <4> QED BY <1>0, <4>1 DEF ThreadT, Works, Splitting
    <3> QED BY <2>3, <3>1, <3>2, <3>3, <3>4
  <2>4. CASE SplitIncVersion(t) \/ SplitPut(t) \/ SplitOldHead(t)
    <3>1. \E p \in {"put", "addrow", "erase"} : Goto(t, p)
      BY <2>4 DEF SplitIncVersion, SplitPut, SplitOldHead
    <3> QED BY <3>1, GotoFacts DEF Works, Splitting
  <2>5. CASE SplitErase(t)
    BY <2>5 DEF SplitErase
  <2> QED BY <2>1, <2>2, <2>3, <2>4, <2>5 DEF SplitStep, SplitFails, SplitPutFails, SplitDeleteFails, CollectReAssign
<1>8. Discharged(t)
  <2>1. "collect" \notin Works("split") /\ Named("split")' = splitList'
    BY DEF Works, Splitting, Named
  <2> QED BY <1>5, <1>7, <2>1 DEF Discharged, Kinds
<1> QED BY <1>1, <1>2, <1>3, <1>8, PursuedKept

LEMMA MergeMoves ==
    ASSUME TInv, NEW t \in Threads, MergeStep(t)
    PROVE  Moved(t) /\ th[t].pc \in MergePcs
<1>0. th \in [Threads -> ThreadT(Placed, Known)]
  BY DEF TInv, ThreadsT
<1>1. Finish(t) => Moved(t)
  BY FinishFacts
<1>2. \A p : Goto(t, p) => Moved(t)
  BY GotoFacts
<1>3. MergeSearch(t) \/ MergeCandidate(t) \/ MergeOtherMissing(t) \/ MergeOther(t) => Moved(t)
  BY <1>0 DEF MergeSearch, MergeCandidate, MergeOtherMissing, MergeOther, Moved
<1>4. Moved(t)
  BY <1>1, <1>2, <1>3
     DEF MergeStep, MergeRequeue, MergeBegin, MergeAbandon, MergeNotNeeded, MergeOtherFails,
         MergeDeleteFails, MergePutFails, MergeReassign, MergeWriteBack, MergeWriteBackFails
<1>5. th[t].pc \in MergePcs
  BY DEF MergeStep, MergeRequeue, MergeBegin, MergeAbandon, MergeNotNeeded, MergeSearch,
     MergeCandidate, MergeOtherMissing, MergeOtherFails, MergeOther, MergeDeleteFails, MergePutFails,
     MergeReassign, MergeWriteBack, MergeWriteBackFails, MayLockOther, MergePcs
<1> QED BY <1>4, <1>5

\* The jobs that the reassignments after a merge append.
LEMMA MergedJobs ==
    ASSUME TInv, NEW t \in Threads, MergeReassign(t), th[t].reassign
    PROVE  \E R \in Seq(ReassignT(Placed, Known)) :
              jobs' = jobs \o R \o HeadVectorJob(th[t].news[2]) /\ th[t].news[2] \in Placed
<1> DEFINE kept == th[t].news[1]
           removed == th[t].news[2]
           D == {<<e, kept>> : e \in Range(th[t].parts[1])}
<1>1. PICK M \in Moves(D) : jobs' = jobs \o Reassigns(M) \o HeadVectorJob(removed)
  BY DEF MergeReassign
<1>2. /\ th[t].parts \in Seq(Seq(Known)) /\ th[t].news \in Seq(Placed)
      /\ Len(th[t].parts) = 1 /\ Len(th[t].news) = 2
  BY DEF MergeReassign, TInv, ThreadsT, ThreadT, Shape
<1>3. th[t].parts[1] \in Seq(Known) /\ kept \in Placed /\ removed \in Placed
  BY <1>2
<1>4. Range(th[t].parts[1]) \subseteq Known
  BY <1>3 DEF Range
<1>5. IsFiniteSet(D) /\ \A m \in D : m[1] \in Known /\ m[2] \in Placed
  <2>1. IsFiniteSet(D)
    BY <1>3, PairsFinite
  <2>2. \A m \in D : m[1] \in Known /\ m[2] \in Placed
    BY <1>3, <1>4
  <2> QED BY <2>1, <2>2
<1> HIDE DEF D
<1>6. IsFiniteSet(M) /\ M \subseteq D
  BY <1>1, <1>5, MovesFacts
<1>7. Reassigns(M) \in Seq(ReassignT(Placed, Known))
  BY <1>5, <1>6, ReassignsType
<1> QED BY <1>1, <1>3, <1>7

LEMMA MergePursued ==
    ASSUME ~IoFails, TInv, PursuedInv, NEW t \in Threads, t \in Workers, MergeStep(t)
    PROVE  PursuedInv'
<1>0. th \in [Threads -> ThreadT(Placed, Known)] /\ th[t] \in ThreadT(Placed, Known)
  BY DEF TInv, ThreadsT
<1>1. Moved(t) /\ HeadsForward /\ th[t].pc \in MergePcs
  BY MergeMoves, StepsForward DEF Step
<1>2. UNCHANGED splitList /\ mergeList' \subseteq mergeList
  BY DEF MergeStep, MergeRequeue, MergeBegin, MergeAbandon, MergeNotNeeded, MergeSearch,
     MergeCandidate, MergeOtherMissing, MergeOtherFails, MergeOther, MergeDeleteFails, MergePutFails,
     MergeReassign, MergeWriteBack, MergeWriteBackFails, lists
<1>3. Range(jobs) \subseteq Range(jobs')
  <2>1. CASE MergeReassign(t) /\ th[t].reassign
    <3>1. PICK R \in Seq(ReassignT(Placed, Known)) :
             jobs' = jobs \o R \o HeadVectorJob(th[t].news[2]) /\ th[t].news[2] \in Placed
      BY <2>1, MergedJobs
    <3>2. HeadVectorJob(th[t].news[2]) \in Seq(ReassignT(Placed, Known))
      BY <3>1, HeadVectorJobType DEF Placed
    <3> QED BY <3>1, <3>2, QueueGrows
  <2>2. CASE MergeRequeue(t)
    BY <2>2, QueueTypes DEF MergeRequeue
  <2>3. CASE ~(MergeReassign(t) /\ th[t].reassign) /\ ~MergeRequeue(t)
    BY <2>3 DEF MergeStep, MergeBegin, MergeAbandon, MergeNotNeeded, MergeSearch,
       MergeCandidate, MergeOtherMissing, MergeOtherFails, MergeOther, MergeDeleteFails, MergePutFails,
       MergeReassign, MergeWriteBack, MergeWriteBackFails
  <2> QED BY <2>1, <2>2, <2>3
<1>4. th[t].pc \notin Works("split") /\ Works("merge") = MergePcs /\ Named("merge")' = mergeList'
  BY <1>1 DEF Works, Splitting, MergePcs, Named
<1>5. th[t].head \in Placed
  BY <1>1, HeadOfThread DEF HeadPcs
<1>6. \/ th[t].head \notin mergeList'
      \/ head'[th[t].head] # "visible"
      \/ th'[t].pc \in MergePcs /\ th'[t].head = th[t].head
      \/ \E j \in Range(jobs') : j.type = "merge" /\ j.head = th[t].head
  <2>1. CASE MergeRequeue(t)
    <3> DEFINE j == MergeJob(th[t].head, th[t].reassign)
    <3>1. j.type = "merge" /\ j.head = th[t].head
      BY DEF MergeJob
    <3>2. Range(jobs') = Range(jobs) \cup {j}
      BY <2>1, QueueTypes DEF MergeRequeue
    <3> QED BY <3>1, <3>2
  <2>2. CASE MergeBegin(t)
    <3>1. th'[t].pc = "mergelock" /\ th'[t].head = th[t].head
      BY <2>2, GotoFacts DEF MergeBegin
    <3> QED BY <3>1 DEF MergePcs
  <2>3. CASE MergeAbandon(t)
    <3>1. head'[th[t].head] # "visible"
      BY <1>5, <2>3 DEF MergeAbandon, store, ContainSample, Placed
    <3> QED BY <3>1
  <2>4. CASE MergeNotNeeded(t) \/ MergeReassign(t) \/ MergeWriteBack(t)
    BY <2>4 DEF MergeNotNeeded, MergeReassign, MergeWriteBack
  <2>5. CASE MergeSearch(t)
    <3>1. PICK c, p : th' = [th EXCEPT ![t].pc = "candidate", ![t].cand = c, ![t].parts = p]
      BY <2>5 DEF MergeSearch
    <3>2. th'[t].pc = "candidate" /\ th'[t].head = th[t].head
      BY <1>0, <3>1 DEF ThreadT
    <3> QED BY <3>2 DEF MergePcs
  <2>6. CASE MergeCandidate(t)
    <3>1. PICK c : th' = [th EXCEPT ![t].pc = "mergeother", ![t].other = c] \/ th' = [th EXCEPT ![t].cand = @ \ {c}]
      BY <2>6 DEF MergeCandidate
    <3>2. th'[t].head = th[t].head /\ th'[t].pc \in {"mergeother", th[t].pc}
      BY <1>0, <3>1 DEF ThreadT
    <3> QED BY <1>1, <3>2 DEF MergePcs
  <2>7. CASE MergeOtherMissing(t)
    <3>1. PICK c : th' = [th EXCEPT ![t].pc = "candidate", ![t].cand = c, ![t].other = NoHead]
      BY <2>7 DEF MergeOtherMissing
    <3>2. th'[t].pc = "candidate" /\ th'[t].head = th[t].head
      BY <1>0, <3>1 DEF ThreadT
    <3> QED BY <3>2 DEF MergePcs
  <2>8. CASE MergeOther(t)
    <3>1. PICK n, p : th' = [th EXCEPT ![t].pc = "merged", ![t].news = n, ![t].parts = p, ![t].cand = {}]
      BY <2>8 DEF MergeOther
    <3>2. th'[t].pc = "merged" /\ th'[t].head = th[t].head
      BY <1>0, <3>1 DEF ThreadT
    <3> QED BY <3>2 DEF MergePcs
  <2> QED BY <2>1, <2>2, <2>3, <2>4, <2>5, <2>6, <2>7, <2>8
          DEF MergeStep, MergeOtherFails, MergeDeleteFails, MergePutFails, MergeWriteBackFails
<1>7. Discharged(t)
  BY <1>4, <1>6 DEF Discharged, Kinds
<1> QED BY <1>1, <1>2, <1>3, <1>7, PursuedKept

LEMMA OtherPursued ==
    ASSUME TInv, PursuedInv, NEW t \in Threads, OtherStep(t)
    PROVE  PursuedInv'
<1>0. th \in [Threads -> ThreadT(Placed, Known)]
  BY DEF TInv, ThreadsT
<1>s. \/ ReassignStep(t) \/ TakeJob(t) \/ \E v \in Vectors : AddIndex(t, v) \/ DeleteIndex(t, v)
      \/ \E h \in HeadIds : SearchIndex(t, h)
  BY DEF OtherStep
<1>1. Moved(t) /\ HeadsForward
  BY <1>s, ReassignQuiet, CallQuiet, StepsForward DEF Step, Quiet
<1>2. Discharged(t)
  <2>1. th[t].pc \in {"idle", "reassign", "reassigncheck", "inc"}
    BY <1>s DEF ReassignStep, ReassignStale, ReassignNotNeeded, ReassignSelect, ReassignCheck,
       ReassignIncVersion, TakeJob, AddIndex, DeleteIndex, SearchIndex
  <2> QED BY <2>1 DEF Discharged, Works, Kinds, Splitting, MergePcs
<1>3. CASE UNCHANGED <<lists, jobs>>
  BY <1>1, <1>2, <1>3, PursuedKept DEF lists
<1>4. CASE TakeJob(t)
  <2> DEFINE j == Head(jobs)
  <2>1. jobs \in Seq(JobT(Placed, Known)) /\ jobs # << >> /\ jobs' = Tail(jobs) /\ UNCHANGED lists
    BY <1>4 DEF TInv, RestT, TakeJob
  <2>2. Range(jobs) = {j} \cup Range(jobs')
    BY <2>1, RangeTail
  <2>3. j.type \in Kinds => th'[t].pc \in Works(j.type) /\ th'[t].head = j.head
    <3> SUFFICES ASSUME j.type \in Kinds PROVE th'[t].pc \in Works(j.type) /\ th'[t].head = j.head
      OBVIOUS
    <3>1. th' = [th EXCEPT ![t] = [IdleThread EXCEPT !.pc = j.type, !.head = j.head,
                                                     !.reassign = j.reassign]]
      BY <1>4 DEF TakeJob, Kinds
    <3> HIDE DEF j
    <3>2. th'[t].pc = j.type /\ th'[t].head = j.head
      BY <1>0, <3>1 DEF IdleThread
    <3> QED BY <3>2 DEF Kinds, Works, MergePcs
  <2> HIDE DEF j
  <2>4. \A k \in Kinds : \A h \in Named(k)' : h \in Named(k)
    BY <2>1 DEF Named, lists
  <2> QED BY <1>1, <1>2, <2>2, <2>3, <2>4, PursuedStep
<1>5. ASSUME NEW h \in HeadIds, SearchIndex(t, h)
      PROVE  PursuedInv'
  <2> DEFINE j == MergeJob(h, DisableReassign)
  <2>1. /\ h \in Placed /\ jobs' = Append(jobs, j) /\ mergeList' = mergeList \cup {h}
        /\ UNCHANGED splitList
    BY <1>5 DEF SearchIndex, Visible, Placed
  <2>2. j.type = "merge" /\ j.head = h
    BY DEF MergeJob
  <2>3. Range(jobs') = Range(jobs) \cup {j}
    BY <2>1, QueueTypes
  <2>4. Pursued("merge", h)'
    BY <2>2, <2>3 DEF Pursued
  <2>5. \A k \in Kinds : \A g \in Named(k)' : g \in Named(k) \/ (g \in Placed /\ Pursued(k, g)')
    BY <2>1, <2>4 DEF Kinds, Named
  <2> HIDE DEF j
  <2> QED BY <1>1, <1>2, <2>3, <2>5, PursuedStep
<1> QED BY <1>s, <1>3, <1>4, <1>5
        DEF ReassignStep, ReassignStale, ReassignNotNeeded, ReassignSelect, ReassignCheck,
            ReassignIncVersion, AddIndex, DeleteIndex

LEMMA PursuedAlways == ~IoFails => (Spec => []PursuedInv)
<1> SUFFICES ASSUME ~IoFails PROVE Spec => []PursuedInv
  OBVIOUS
<1>1. Init => PursuedInv
  BY DEF Init, PursuedInv, Named
<1>2. TInv /\ PursuedInv /\ [Next]_vars => PursuedInv'
  <2> SUFFICES ASSUME TInv, PursuedInv, [Next]_vars PROVE PursuedInv'
    OBVIOUS
  <2>1. CASE UNCHANGED vars
    BY <2>1 DEF vars, PursuedInv, Named, Placed, Pursued, Works
  <2>2. CASE Next
    BY <2>2, NextSteps, AppendPursued, SplitPursued, MergePursued, OtherPursued DEF Step
  <2> QED BY <2>1, <2>2
<1> QED BY <1>1, <1>2, TypesInv, PTL DEF Spec

\* While no call of the store fails, neither list keeps a head that exists once all updates
\* are done, so that no head is barred for ever from being split or merged: whatever
\* interleaves, Split and MergePostings take the head off the list on every path on which it
\* survives, and a merge that finds m_mergeLock taken goes back to the queue
\* (ExtraDynamicSearcher.h:1036, 1222, 1320, 1524).
THEOREM NoHeadIsStuck == ~IoFails => (Spec => []NoStuckHead)
<1> SUFFICES ASSUME ~IoFails PROVE Spec => []NoStuckHead
  OBVIOUS
<1>1. PursuedInv => NoStuckHead
  <2> SUFFICES ASSUME PursuedInv, Quiescent, NEW h \in splitList \cup mergeList, ContainSample(h)
               PROVE  FALSE
    BY DEF NoStuckHead
  <2>1. PICK k \in Kinds : h \in Named(k)
    BY DEF Kinds, Named
  <2>2. Pursued(k, h)
    BY <2>1 DEF PursuedInv, ContainSample, Placed
  <2>3. Range(jobs) = {}
    BY DEF Quiescent, Range
  <2>4. \A t \in Threads : th[t].pc \notin Works(k)
    BY DEF Quiescent, Works, Splitting, MergePcs
  <2> QED BY <2>2, <2>3, <2>4 DEF Pursued
<1> QED BY <1>1, PursuedAlways, PTL

-----------------------------------------------------------------------------
(***************************************************************************)
(* Nothing is lost.                                                        *)
(***************************************************************************)

\* Filter drops nothing that is in S.
LEMMA FilterKeeps ==
    ASSUME NEW T, NEW list \in Seq(T), NEW S, NEW e \in Range(list) \cap S
    PROVE  e \in Range(Filter(list, S))
<1> DEFINE F == CHOOSE F : Steps(list, S, F)
           N == Len(list)
<1>1. Filter(list, S) = F[N]
  BY DEF Filter, Steps
<1>2. Steps(list, S, F)
  BY StepsExist
<1> HIDE DEF F
<1>3. \A n \in 0 .. N : F[n] = IF n = 0 THEN << >>
                               ELSE IF list[n] \in S THEN Append(F[n - 1], list[n]) ELSE F[n - 1]
  BY <1>2 DEF Steps
<1>4. N \in Nat
  OBVIOUS
<1> DEFINE G == {n \in 0 .. N : F[n] \in Seq(T) /\ \A i \in 1 .. n : list[i] \in S => list[i] \in Range(F[n])}
<1>5. 0 \in G
  <2>1. F[0] = << >>
    BY <1>3, <1>4
  <2>2. F[0] \in Seq(T) /\ 1 .. 0 = {} /\ 0 \in 0 .. N
    BY <1>4, <2>1
  <2> QED BY <2>2
<1>6. ASSUME NEW n \in 0 .. N, n + 1 \in 0 .. N, n \in G
      PROVE  n + 1 \in G
  <2>1. F[n] \in Seq(T) /\ \A i \in 1 .. n : list[i] \in S => list[i] \in Range(F[n])
    BY <1>6
  <2>2. n + 1 # 0 /\ (n + 1) - 1 = n /\ n + 1 \in 1 .. N
    BY <1>4, <1>6
  <2>3. F[n + 1] = IF list[n + 1] \in S THEN Append(F[n], list[n + 1]) ELSE F[n]
    BY <1>3, <1>6, <2>2
  <2>4. list[n + 1] \in T
    BY <2>2
  <2>5. \A i \in 1 .. n + 1 : i = n + 1 \/ i \in 1 .. n
    BY <1>6
  <2>6. CASE list[n + 1] \in S
    <3>1. F[n + 1] = Append(F[n], list[n + 1])
      BY <2>3, <2>6
    <3>2. F[n + 1] \in Seq(T)
      BY <3>1, <2>1, <2>4
    <3>3. Range(F[n + 1]) = Range(F[n]) \cup {list[n + 1]}
      BY <3>1, <2>1, RangeAppend
    <3>4. \A i \in 1 .. n + 1 : list[i] \in S => list[i] \in Range(F[n + 1])
      BY <2>1, <2>5, <3>3
    <3> QED BY <1>6, <3>2, <3>4
  <2>7. CASE list[n + 1] \notin S
    <3>1. F[n + 1] = F[n]
      BY <2>3, <2>7
    <3>2. \A i \in 1 .. n + 1 : list[i] \in S => list[i] \in Range(F[n + 1])
      BY <2>1, <2>5, <2>7, <3>1
    <3> QED BY <1>6, <2>1, <3>1, <3>2
  <2> QED BY <2>6, <2>7
<1>7. N \in G
  <2> HIDE DEF G
  <2>1. \A n \in 0 .. N : n \in G
    BY <1>4, <1>5, <1>6, UpTo
  <2> QED BY <2>1, <1>4
<1>8. PICK i \in 1 .. N : e = list[i]
  BY DEF Range
<1> QED BY <1>1, <1>7, <1>8

\* Compaction keeps the valid entries, and no others.
LEMMA LiveKeeps ==
    ASSUME NEW K, NEW list \in Seq(K)
    PROVE  /\ \A e \in Range(list) : Current(e) => e \in Range(Live(list))
           /\ \A e \in Range(Live(list)) : Current(e) /\ e \in Range(list)
<1> DEFINE S == {e \in Range(list) : Current(e)}
<1>1. Live(list) = Filter(list, S)
  BY DEF Live
<1>2. Range(Live(list)) \subseteq Range(list) \cap S
  <2> HIDE DEF S
  <2> QED BY <1>1, FilterFacts
<1>3. \A e \in Range(list) \cap S : e \in Range(Live(list))
  <2> HIDE DEF S
  <2> QED BY <1>1, FilterKeeps
<1> QED BY <1>2, <1>3

\* The phases of a merge in which the list of its head is in the hands of the thread.
Fusing == {"candidate", "mergeother"}
Reassigning == {"reassign", "reassigncheck", "inc"}

\* A split ends, or the thread goes on with the same head, entry and flags.
LEMMA SplitThread ==
    ASSUME TInv, NEW t \in Threads, SplitStep(t)
    PROVE  /\ th[t].pc \in {"split"} \cup SplitPcs
           /\ \/ SplitReturn(t)
              \/ /\ th'[t].pc \in SplitPcs
                 /\ th'[t].head = th[t].head /\ th'[t].e = th[t].e /\ th'[t].ret = th[t].ret
                 /\ th'[t].reassign = th[t].reassign
<1>0. th \in [Threads -> ThreadT(Placed, Known)] /\ th[t] \in ThreadT(Placed, Known)
  BY DEF TInv, ThreadsT
<1>1. th[t].pc \in {"split"} \cup SplitPcs
  BY DEF SplitStep, SplitMissing, SplitFails, SplitCollectGarbage, SplitOneCluster, SplitClusters,
     SplitSameHead, SplitNewHead, SplitIncVersion, SplitPut, SplitPutFails, SplitAddRow, SplitOldHead,
     SplitDeleteFails, SplitErase, CollectReAssign, MayEnterSplit, SplitPcs
<1>2. CASE \E p \in SplitPcs : Goto(t, p)
  BY <1>0, <1>1, <1>2 DEF Goto, ThreadT
<1>3. CASE SplitClusters(t)
  <2>1. PICK p, z : th' = [th EXCEPT ![t].pc = "cluster", ![t].same = z, ![t].news = << >>, ![t].parts = p]
    BY <1>3 DEF SplitClusters
  <2> QED BY <1>0, <1>1, <2>1 DEF ThreadT, SplitPcs
<1>4. CASE SplitNewHead(t)
  <2>1. PICK p \in {"center", "put"} : th' = [th EXCEPT ![t].other = NumSamples, ![t].pc = p]
    BY <1>4 DEF SplitNewHead
  <2> QED BY <1>0, <1>1, <2>1 DEF ThreadT, SplitPcs
<1>5. CASE SplitSameHead(t)
  <2>1. th[t].pc = "cluster" /\ th' = [th EXCEPT ![t].news = Append(@, th[t].head)]
    BY <1>5 DEF SplitSameHead
  <2> QED BY <1>0, <1>1, <2>1 DEF ThreadT, SplitPcs
<1>6. CASE SplitAddRow(t)
  <2>1. th' = [th EXCEPT ![t].pc = "cluster", ![t].news = Append(@, th[t].other)]
    BY <1>6 DEF SplitAddRow
  <2> QED BY <1>0, <1>1, <2>1 DEF ThreadT, SplitPcs
<1>7. {"put", "addrow", "erase", "collect"} \subseteq SplitPcs
  BY DEF SplitPcs
<1> QED BY <1>1, <1>2, <1>3, <1>4, <1>5, <1>6, <1>7
        DEF SplitStep, SplitMissing, SplitFails, SplitCollectGarbage, SplitOneCluster, CollectReAssign,
            SplitIncVersion, SplitPut, SplitPutFails, SplitOldHead, SplitDeleteFails, SplitErase

\* Where Split leaves its thread.
LEMMA ReturnThread ==
    ASSUME TInv, NEW t \in Threads, SplitReturn(t)
    PROVE  \/ th[t].ret = "idle" /\ th'[t] = IdleThread
           \/ /\ th[t].ret # "idle" /\ th'[t].pc = th[t].ret
              /\ th'[t].head = th[t].head /\ th'[t].e = th[t].e
<1>0. th \in [Threads -> ThreadT(Placed, Known)] /\ th[t] \in ThreadT(Placed, Known)
  BY DEF TInv, ThreadsT
<1>1. CASE th[t].ret = "idle"
  BY <1>0, <1>1 DEF SplitReturn
<1>2. CASE th[t].ret # "idle"
  BY <1>0, <1>2 DEF SplitReturn, ThreadT
<1> QED BY <1>1, <1>2

LEMMA AppendThread ==
    ASSUME TInv, NEW t \in Threads, AppendStep(t)
    PROVE  /\ th'[t].pc \in {"idle", "next", "append", "appendlock", "appended", "split"}
           /\ th'[t].pc = "split" => th'[t].reassign = ~DisableReassign
           /\ th[t].pc \in {"next", "append", "appendlock", "appended"}
<1>0. th \in [Threads -> ThreadT(Placed, Known)] /\ th[t] \in ThreadT(Placed, Known)
  BY DEF TInv, ThreadsT
<1>g. th[t].pc \in {"next", "append", "appendlock", "appended"}
  BY DEF AppendStep, NextReplica, AppendHeadMiss, AppendCheck, AppendRecheck, AppendFull,
     AppendMerge, AppendFails, AppendEnd
<1>1. CASE Finish(t)
  <2>1. th'[t].pc = "idle"
    BY <1>1, FinishFacts DEF IdleThread
  <2> QED BY <1>g, <2>1
<1>2. CASE \E p \in {"next", "append", "appendlock", "appended"} : Goto(t, p)
  <2>1. th'[t].pc \in {"next", "append", "appendlock", "appended"}
    BY <1>2, GotoFacts
  <2> QED BY <1>g, <2>1
<1>3. CASE th' = [th EXCEPT ![t].pc = "append", ![t].head = Head(th[t].sel), ![t].sel = Tail(@)]
  <2>1. th'[t].pc = "append"
    BY <1>0, <1>3 DEF ThreadT
  <2> QED BY <1>g, <2>1
<1>4. CASE \E n, r : th' = [th EXCEPT ![t].pc = "split", ![t].nested = n, ![t].ret = r,
                                      ![t].reassign = ~DisableReassign]
  BY <1>0, <1>g, <1>4 DEF ThreadT
<1> QED BY <1>1, <1>2, <1>3, <1>4
        DEF AppendStep, NextReplica, AppendHeadMiss, AppendCheck, AppendRecheck, AppendMerge, AppendFull,
            AppendFails, AppendEnd

\* The configurations in which no vector can get lost: no call of the store fails, k-means
\* never gives up on a list of different vectors, the vector of a removed head is put back,
\* and no job runs beside a merge.
Gentle ==
    /\ ~IoFails /\ ~OneCluster /\ ~(ExcludeHead /\ DisableReassign)
    /\ MaxMerges = 0 \/ \A u, w \in Workers : u = w

\* What a thread has been told to do, and the head whose lock it holds.
Ordered(t) ==
    /\ th[t].pc \in {"split"} \cup SplitPcs \cup MergePcs => th[t].reassign = ~DisableReassign
    /\ th[t].pc \in {"reassigncheck", "inc"} => th[t].sel # << >>
    /\ t \in Clients => th[t].pc \notin MergePcs \cup Reassigning
    /\ th[t].pc \in Splitting \cup Fusing => head[th[t].head] = "visible"

JobsOrdered == \A j \in Range(jobs) : j.type \in Kinds => j.reassign = ~DisableReassign

MergeLocked == mergeLock # NoThread => th[mergeLock].pc \in Merging

LabelsInv ==
    /\ \A h \in HeadIds : translate[h] # NoVector => ExcludeHead
    /\ \A v \in Vectors : Deleted(v) => v \in erased

OrderInv == (\A t \in Threads : Ordered(t)) /\ JobsOrdered /\ MergeLocked /\ LabelsInv

\* A thread that merges, or runs a job beside the one that does, is the only worker.
LEMMA OneMerger ==
    ASSUME Gentle, MergeFree, OrderInv, NEW t \in Threads, th[t].pc \in MergePcs,
           NEW u \in Threads, u \in Workers
    PROVE  u = t
<1>1. MaxMerges # 0
  BY DEF MergeFree
<1>2. t \in Workers
  BY DEF OrderInv, Ordered, Threads
<1> QED BY <1>1, <1>2 DEF Gentle

LEMMA NoRequeue ==
    ASSUME Gentle, MergeFree, OrderInv, TInv, NEW t \in Threads, MergeRequeue(t)
    PROVE  FALSE
<1>1. th[t].pc = "merge" /\ mergeLock # NoThread
  BY DEF MergeRequeue
<1>2. mergeLock \in Threads /\ th[mergeLock].pc \in Merging
  BY <1>1 DEF TInv, RestT, OrderInv, MergeLocked
<1>3. th[mergeLock].pc \in MergePcs
  BY <1>2 DEF Merging, MergePcs
<1>4. t \in Workers
  BY <1>1 DEF OrderInv, Ordered, MergePcs, Threads
<1>5. t = mergeLock
  BY <1>2, <1>3, <1>4, OneMerger
<1> QED BY <1>1, <1>2, <1>5 DEF Merging

\* Nobody deletes a head whose lock another thread holds.
LEMMA OthersVisible ==
    ASSUME TInv, LockInv, NEW t \in Threads, Step(t), NEW u \in Threads \ {t},
           th[u].pc \in Splitting \cup Fusing, head[th[u].head] = "visible"
    PROVE  head'[th[u].head] = "visible"
<1>0. head \in [HeadIds -> {"free", "added", "visible", "deleted"}]
  BY DEF TInv, StoreT
<1>1. th[u].head \in HeadIds /\ Holding(th[u])
  BY HeadOfThread DEF Splitting, Fusing, HeadPcs, SplitPcs, MergePcs, Holding
<1>2. PICK h \in HeadIds : h = th[u].head
  BY <1>1
<1>3. ~MayWrite(t, h)
  BY <1>1, <1>2, OthersHeads
<1>u. CASE UNCHANGED head
  BY <1>u
<1>n. CASE SplitNewHead(t)
  <2>1. NumSamples \in HeadIds /\ head[NumSamples] = "free"
    BY <1>n, NextHead, Configuration DEF SplitNewHead, HeadIds
  <2>2. head' = [head EXCEPT ![NumSamples] = "added"]
    BY <1>n DEF SplitNewHead
  <2> QED BY <1>0, <1>2, <2>1, <2>2
<1>a. CASE SplitAddRow(t)
  <2>1. head' = [head EXCEPT ![th[t].other] = "visible"]
    BY <1>a DEF SplitAddRow
  <2> QED BY <1>0, <1>2, <2>1
<1>o. CASE SplitOldHead(t)
  <2>1. th[t].pc = "cluster" /\ (UNCHANGED head \/ head' = [head EXCEPT ![th[t].head] = "deleted"])
    BY <1>o DEF SplitOldHead, RemoveHead
  <2>2. th[t].head \in HeadIds /\ Holding(th[t])
    BY <2>1, HeadOfThread DEF HeadPcs, SplitPcs, Holding
  <2>3. MayWrite(t, th[t].head)
    BY <2>2, OwnLock
  <2>4. th[t].head # h
    BY <1>3, <2>3
  <2> QED BY <1>0, <1>2, <2>1, <2>2, <2>4
<1>d. CASE SplitDeleteFails(t)
  <2>1. th[t].pc = "cluster" /\ head' = [head EXCEPT ![th[t].head] = "deleted"]
    BY <1>d DEF SplitDeleteFails, RemoveHead
  <2>2. th[t].head \in HeadIds /\ Holding(th[t])
    BY <2>1, HeadOfThread DEF HeadPcs, SplitPcs, Holding
  <2>3. MayWrite(t, th[t].head)
    BY <2>2, OwnLock
  <2>4. th[t].head # h
    BY <1>3, <2>3
  <2> QED BY <1>0, <1>2, <2>1, <2>2, <2>4
<1>m. CASE MergeOther(t) \/ MergeDeleteFails(t) \/ MergePutFails(t)
  <2>1. MayLockOther(t) /\ th[t].pc = "mergeother" /\ head' = [head EXCEPT ![Removed(t)] = "deleted"]
    BY <1>m DEF MergeOther, MergeDeleteFails, MergePutFails, MayLockOther, Merged
  <2>2. Removed(t) \in HeadIds
    BY <2>1, MergedFacts
  <2>3. th[t].head \in HeadIds /\ Holding(th[t])
    BY <2>1, MergeHands DEF Holding
  <2>4. MayWrite(t, th[t].head)
    BY <2>3, OwnLock
  <2>5. MayWrite(t, Removed(t))
    BY <2>1, <2>4 DEF MayWrite, Removed, MayLockOther, Unlocked
  <2>6. Removed(t) # h
    BY <1>3, <2>5
  <2> QED BY <1>0, <1>2, <2>1, <2>2, <2>6
<1>s. CASE SplitStep(t)
  BY <1>s, <1>u, <1>n, <1>a, <1>o, <1>d DEF SplitStep, SplitMissing, SplitFails, SplitCollectGarbage,
     SplitOneCluster, SplitClusters, SplitSameHead, SplitIncVersion, SplitPut, SplitPutFails, SplitErase,
     CollectReAssign, store
<1>g. CASE MergeStep(t)
  BY <1>g, <1>u, <1>m DEF MergeStep, MergeRequeue, MergeBegin, MergeAbandon, MergeNotNeeded, MergeSearch,
     MergeCandidate, MergeOtherMissing, MergeOtherFails, MergeReassign, MergeWriteBack,
     MergeWriteBackFails, store
<1>p. CASE AppendStep(t)
  BY <1>p, <1>u DEF AppendStep, NextReplica, AppendHeadMiss, AppendCheck, AppendRecheck, AppendFull,
     AppendMerge, AppendFails, AppendEnd, store
<1>c. CASE OtherStep(t)
  BY <1>c, <1>u DEF OtherStep, ReassignStep, ReassignStale, ReassignNotNeeded, ReassignSelect,
     ReassignCheck, ReassignIncVersion, TakeJob, AddIndex, DeleteIndex, SearchIndex, store
<1> QED BY <1>s, <1>g, <1>p, <1>c DEF Step

LEMMA OrderStep ==
    ASSUME TInv, LockInv, OrderInv, NEW t \in Threads, Step(t), Moved(t),
           Ordered(t)', JobsOrdered', MergeLocked', LabelsInv'
    PROVE  OrderInv'
<1>1. ASSUME NEW u \in Threads \ {t}
      PROVE  Ordered(u)'
  <2>1. th'[u] = th[u] /\ Ordered(u)
    BY DEF Moved, OrderInv
  <2>2. th[u].pc \in Splitting \cup Fusing => head'[th[u].head] = "visible"
    BY <2>1, OthersVisible DEF Ordered
  <2> QED BY <2>1, <2>2 DEF Ordered
<1> QED BY <1>1 DEF OrderInv

\* Steps of a thread that is not merging leave m_mergeLock alone.
LEMMA LockOfOthers ==
    ASSUME TInv, OrderInv, NEW t \in Threads, Moved(t), th[t].pc \notin Merging, UNCHANGED mergeLock
    PROVE  MergeLocked'
<1>1. SUFFICES ASSUME mergeLock # NoThread PROVE th'[mergeLock].pc \in Merging
  BY DEF MergeLocked
<1>2. mergeLock \in Threads /\ th[mergeLock].pc \in Merging
  BY <1>1 DEF TInv, RestT, OrderInv, MergeLocked
<1> QED BY <1>2 DEF Moved

\* The jobs that may be added.
LEMMA JobsStayOrdered ==
    ASSUME OrderInv, NEW J, Range(jobs') \subseteq Range(jobs) \cup J,
           \A j \in J : j.type \in Kinds => j.reassign = ~DisableReassign
    PROVE  JobsOrdered'
BY DEF OrderInv, JobsOrdered

LEMMA ReassignKinds ==
    ASSUME NEW R \in Seq(ReassignT(Placed, Known)), NEW j \in Range(R)
    PROVE  j \in ReassignT(Placed, Known) /\ j.type = "reassign" /\ j.type \notin Kinds
<1>1. j \in ReassignT(Placed, Known)
  BY DEF Range
<1> QED BY <1>1 DEF ReassignT, Kinds

LEMMA AppendOrder ==
    ASSUME TInv, LockInv, OrderInv, NEW t \in Threads, AppendStep(t)
    PROVE  OrderInv'
<1>1. Moved(t) /\ Step(t)
  BY AppendQuiet DEF Quiet, Step
<1>2. Ordered(t)'
  BY AppendThread DEF Ordered, SplitPcs, MergePcs, Reassigning, Splitting, Fusing
<1>3. MergeLocked'
  <2>1. th[t].pc \notin Merging
    BY AppendThread DEF Merging
  <2>2. UNCHANGED mergeLock
    BY DEF AppendStep, NextReplica, AppendHeadMiss, AppendCheck, AppendRecheck, AppendFull,
       AppendMerge, AppendFails, AppendEnd, locks
  <2> QED BY <1>1, <2>1, <2>2, LockOfOthers
<1>4. LabelsInv'
  <2>1. UNCHANGED <<translate, version, erased>>
    BY DEF AppendStep, NextReplica, AppendHeadMiss, AppendCheck, AppendRecheck, AppendFull,
       AppendMerge, AppendFails, AppendEnd, store, ghosts
  <2> QED BY <2>1 DEF OrderInv, LabelsInv, Deleted
<1>5. JobsOrdered'
  <2> DEFINE J == {ReassignJob(th[t].e, th[t].head), SplitJob(th[t].head)}
  <2>1. \/ UNCHANGED jobs
        \/ jobs' = Append(jobs, ReassignJob(th[t].e, th[t].head))
        \/ jobs' = Append(jobs, SplitJob(th[t].head))
    BY DEF AppendStep, NextReplica, AppendHeadMiss, AppendCheck, AppendRecheck, AppendFull,
       AppendMerge, AppendFails, AppendEnd
  <2>2. Range(jobs') \subseteq Range(jobs) \cup J
    BY <2>1, QueueTypes
  <2>3. \A j \in J : j.type \in Kinds => j.reassign = ~DisableReassign
    BY DEF ReassignJob, SplitJob, Kinds
  <2> HIDE DEF J
  <2> QED BY <2>2, <2>3, JobsStayOrdered
<1> QED BY <1>1, <1>2, <1>3, <1>4, <1>5, OrderStep

LEMMA SplitOrder ==
    ASSUME TInv, LockInv, OrderInv, NEW t \in Threads, SplitStep(t)
    PROVE  OrderInv'
<1>0. head \in [HeadIds -> {"free", "added", "visible", "deleted"}]
  BY DEF TInv, StoreT
<1>1. Moved(t) /\ Step(t) /\ th[t].pc \in {"split"} \cup SplitPcs /\ Ordered(t)
  BY SplitMoves, SplitThread DEF Step, OrderInv
<1>h. th[t].head \in Placed /\ th[t].head \in HeadIds
  BY <1>1, HeadOfThread DEF HeadPcs
<1>v. ASSUME th'[t].pc \in Splitting
      PROVE  head'[th[t].head] = "visible"
  <2>r. ~SplitReturn(t)
    BY <1>v, ReturnFacts DEF Splitting
  <2>g. ~Goto(t, "erase") /\ ~Goto(t, "collect")
    BY <1>v, GotoFacts DEF Splitting
  <2>1. CASE SplitClusters(t)
    BY <2>1, <1>h DEF SplitClusters, ContainSample, store, Placed
  <2>2. CASE SplitNewHead(t)
    <3>1. NumSamples \in HeadIds /\ head[NumSamples] = "free"
      BY <2>2, NextHead, Configuration DEF SplitNewHead, HeadIds
    <3>2. head' = [head EXCEPT ![NumSamples] = "added"] /\ head[th[t].head] = "visible"
      BY <1>1, <2>2 DEF SplitNewHead, Ordered, Splitting
    <3> QED BY <1>0, <1>h, <3>1, <3>2
  <2>3. CASE SplitAddRow(t)
    <3>1. head' = [head EXCEPT ![th[t].other] = "visible"] /\ head[th[t].head] = "visible"
      BY <1>1, <2>3 DEF SplitAddRow, Ordered, Splitting
    <3> QED BY <1>0, <1>h, <3>1
  <2>4. CASE SplitSameHead(t) \/ SplitIncVersion(t) \/ SplitPut(t)
    BY <1>1, <2>4 DEF SplitSameHead, SplitIncVersion, SplitPut, Ordered, Splitting
  <2> QED BY <2>r, <2>g, <2>1, <2>2, <2>3, <2>4
          DEF SplitStep, SplitMissing, SplitFails, SplitCollectGarbage, SplitOneCluster, CollectReAssign,
              SplitPutFails, SplitOldHead, SplitDeleteFails, SplitErase
<1>2. Ordered(t)'
  <2>1. CASE SplitReturn(t)
    <3>1. th'[t].pc \in {"idle", "append", "next"}
      BY <2>1, ReturnFacts
    <3> QED BY <3>1 DEF Ordered, SplitPcs, MergePcs, Reassigning, Splitting, Fusing
  <2>2. CASE ~SplitReturn(t)
    <3>1. /\ th'[t].pc \in SplitPcs /\ th'[t].head = th[t].head
          /\ th'[t].reassign = th[t].reassign
      BY <2>2, SplitThread
    <3>2. th[t].reassign = ~DisableReassign
      BY <1>1 DEF Ordered
    <3>3. th'[t].pc \notin MergePcs \cup Reassigning \cup Fusing
      BY <3>1 DEF SplitPcs, MergePcs, Reassigning, Fusing
    <3> QED BY <1>v, <3>1, <3>2, <3>3 DEF Ordered, Reassigning
  <2> QED BY <2>1, <2>2
<1>3. MergeLocked'
  <2>1. th[t].pc \notin Merging
    BY <1>1 DEF Merging, SplitPcs
  <2>2. UNCHANGED mergeLock
    BY DEF SplitStep, SplitMissing, SplitFails, SplitCollectGarbage, SplitOneCluster, SplitClusters,
       SplitSameHead, SplitNewHead, SplitIncVersion, SplitPut, SplitPutFails, SplitAddRow, SplitOldHead,
       SplitDeleteFails, SplitErase, CollectReAssign, locks
  <2> QED BY <1>1, <2>1, <2>2, LockOfOthers
<1>4. LabelsInv'
  <2>1. CASE SplitNewHead(t)
    <3>1. PICK v : /\ translate' = [translate EXCEPT ![NumSamples] = v]
                   /\ v # NoVector => ExcludeHead
      BY <2>1 DEF SplitNewHead
    <3>2. \A h \in HeadIds : translate'[h] # NoVector => ExcludeHead
      BY <3>1 DEF OrderInv, LabelsInv, TInv, StoreT
    <3>3. UNCHANGED <<version, erased>>
      BY <2>1 DEF SplitNewHead, ghosts
    <3> QED BY <3>2, <3>3 DEF OrderInv, LabelsInv, Deleted
  <2>2. CASE SplitIncVersion(t)
    <3>1. PICK x : version' = [version EXCEPT ![x] = Successor(@)]
      BY <2>2 DEF SplitIncVersion, IncVersion
    <3>2. UNCHANGED <<translate, erased>>
      BY <2>2 DEF SplitIncVersion, ghosts
    <3>3. \A v \in Vectors : version'[v] = DeletedVersion => version[v] = DeletedVersion
      <4> TAKE v \in Vectors
      <4>1. version[v] \in 0 .. NoVersion /\ version'[v] \in {version[v], Successor(version[v])}
        BY <3>1 DEF TInv, StoreT
      <4> QED BY <4>1, SuccessorType
    <3> QED BY <3>2, <3>3 DEF OrderInv, LabelsInv, Deleted
  <2>3. CASE ~SplitNewHead(t) /\ ~SplitIncVersion(t)
    <3>1. UNCHANGED <<translate, version, erased>>
      BY <2>3 DEF SplitStep, SplitMissing, SplitFails, SplitCollectGarbage, SplitOneCluster, SplitClusters,
         SplitSameHead, SplitPut, SplitPutFails, SplitAddRow, SplitOldHead,
         SplitDeleteFails, SplitErase, CollectReAssign, store, ghosts
    <3> QED BY <3>1 DEF OrderInv, LabelsInv, Deleted
  <2> QED BY <2>1, <2>2, <2>3
<1>5. JobsOrdered'
  <2>1. CASE CollectReAssign(t)
    <3>1. PICK A, B \in Seq(ReassignT(Placed, Known)) : jobs' = jobs \o A \o B
      BY <2>1, CollectJobs
    <3>2. Range(jobs') \subseteq Range(jobs) \cup (Range(A) \cup Range(B))
      BY <3>1, QueueGrows
    <3>3. \A j \in Range(A) \cup Range(B) : j.type \in Kinds => j.reassign = ~DisableReassign
      BY ReassignKinds
    <3> QED BY <3>2, <3>3, JobsStayOrdered
  <2>2. CASE ~CollectReAssign(t)
    <3>1. UNCHANGED jobs
      BY <2>2 DEF SplitStep, SplitMissing, SplitFails, SplitCollectGarbage, SplitOneCluster, SplitClusters,
         SplitSameHead, SplitNewHead, SplitIncVersion, SplitPut, SplitPutFails, SplitAddRow, SplitOldHead,
         SplitDeleteFails, SplitErase
    <3> QED BY <3>1 DEF OrderInv, JobsOrdered
  <2> QED BY <2>1, <2>2
<1> QED BY <1>1, <1>2, <1>3, <1>4, <1>5, OrderStep

\* A merge that goes on keeps its head and its flag.
LEMMA MergeThread ==
    ASSUME TInv, NEW t \in Threads, MergeStep(t)
    PROVE  \/ th'[t] = IdleThread
           \/ th'[t].pc \in MergePcs /\ th'[t].head = th[t].head /\ th'[t].reassign = th[t].reassign
<1>0. th \in [Threads -> ThreadT(Placed, Known)] /\ th[t] \in ThreadT(Placed, Known)
  BY DEF TInv, ThreadsT
<1>1. CASE Finish(t)
  BY <1>1, FinishFacts
<1>2. CASE MergeBegin(t)
  BY <1>0, <1>2 DEF MergeBegin, Goto, ThreadT, MergePcs
<1>3. CASE MergeSearch(t)
  <2>1. PICK c, p : th' = [th EXCEPT ![t].pc = "candidate", ![t].cand = c, ![t].parts = p]
    BY <1>3 DEF MergeSearch
  <2> QED BY <1>0, <2>1 DEF ThreadT, MergePcs
<1>4. CASE MergeCandidate(t)
  <2>1. PICK c : th' = [th EXCEPT ![t].pc = "mergeother", ![t].other = c] \/ th' = [th EXCEPT ![t].cand = @ \ {c}]
    BY <1>4 DEF MergeCandidate
  <2>2. th[t].pc = "candidate"
    BY <1>4 DEF MergeCandidate
  <2> QED BY <1>0, <2>1, <2>2 DEF ThreadT, MergePcs
<1>5. CASE MergeOtherMissing(t)
  <2>1. PICK c : th' = [th EXCEPT ![t].pc = "candidate", ![t].cand = c, ![t].other = NoHead]
    BY <1>5 DEF MergeOtherMissing
  <2> QED BY <1>0, <2>1 DEF ThreadT, MergePcs
<1>6. CASE MergeOther(t)
  <2>1. PICK n, p : th' = [th EXCEPT ![t].pc = "merged", ![t].news = n, ![t].parts = p, ![t].cand = {}]
    BY <1>6 DEF MergeOther
  <2> QED BY <1>0, <2>1 DEF ThreadT, MergePcs
<1> QED BY <1>1, <1>2, <1>3, <1>4, <1>5, <1>6
        DEF MergeStep, MergeRequeue, MergeAbandon, MergeNotNeeded, MergeOtherFails,
            MergeDeleteFails, MergePutFails, MergeReassign, MergeWriteBack, MergeWriteBackFails

LEMMA MergeOrder ==
    ASSUME Gentle, MergeFree, TInv, LockInv, OrderInv, NEW t \in Threads, t \in Workers, MergeStep(t)
    PROVE  OrderInv'
<1>0. th \in [Threads -> ThreadT(Placed, Known)] /\ th[t] \in ThreadT(Placed, Known)
  BY DEF TInv, ThreadsT
<1>1. Moved(t) /\ Step(t) /\ th[t].pc \in MergePcs /\ Ordered(t)
  BY MergeMoves DEF Step, OrderInv
<1>h. th[t].head \in Placed /\ th[t].head \in HeadIds
  BY <1>1, HeadOfThread DEF HeadPcs
<1>i. ~IoFails /\ ~MergeRequeue(t)
  BY NoRequeue DEF Gentle
<1>s. CASE MergeSearch(t) \/ MergeCandidate(t) \/ MergeOtherMissing(t)
  <2>1. UNCHANGED <<head, mergeLock>> /\ th'[t].pc \in Fusing /\ th[t].pc \in Merging
    <3>1. CASE MergeSearch(t)
      <4>1. PICK c, p : th' = [th EXCEPT ![t].pc = "candidate", ![t].cand = c, ![t].parts = p]
        BY <3>1 DEF MergeSearch
      <4> QED BY <1>0, <3>1, <4>1 DEF MergeSearch, ThreadT, Fusing, Merging, store
    <3>2. CASE MergeCandidate(t)
      <4>1. PICK c : th' = [th EXCEPT ![t].pc = "mergeother", ![t].other = c] \/ th' = [th EXCEPT ![t].cand = @ \ {c}]
        BY <3>2 DEF MergeCandidate
      <4> QED BY <1>0, <3>2, <4>1 DEF MergeCandidate, ThreadT, Fusing, Merging, store, locks
    <3>3. CASE MergeOtherMissing(t)
      <4>1. PICK c : th' = [th EXCEPT ![t].pc = "candidate", ![t].cand = c, ![t].other = NoHead]
        BY <3>3 DEF MergeOtherMissing
      <4> QED BY <1>0, <3>3, <4>1 DEF MergeOtherMissing, MayLockOther, ThreadT, Fusing, Merging, store, locks
    <3> QED BY <1>s, <3>1, <3>2, <3>3
  <2>2. th'[t].pc \in MergePcs /\ th'[t].head = th[t].head /\ th'[t].reassign = th[t].reassign
    <3>1. IdleThread.pc \notin Fusing
      BY DEF IdleThread, Fusing
    <3> QED BY <2>1, <3>1, MergeThread
  <2>3. head[th[t].head] = "visible"
    <3>1. CASE MergeSearch(t)
      BY <3>1, <1>h DEF MergeSearch, ContainSample, Placed
    <3>2. CASE ~MergeSearch(t)
      BY <1>s, <3>2, <1>1 DEF MergeCandidate, MergeOtherMissing, MayLockOther, Ordered, Fusing
    <3> QED BY <3>1, <3>2
  <2>4. Ordered(t)'
    <3>1. th[t].reassign = ~DisableReassign /\ t \notin Clients
      BY <1>1, Configuration DEF Ordered
    <3> QED BY <2>1, <2>2, <2>3, <3>1 DEF Ordered, Fusing
  <2>5. MergeLocked'
    <3>1. CASE mergeLock = t
      BY <2>1, <3>1 DEF MergeLocked, Fusing, Merging
    <3>2. CASE mergeLock # t
      <4>1. mergeLock # NoThread => mergeLock \in Threads \ {t} /\ th[mergeLock].pc \in Merging
        BY <3>2 DEF TInv, RestT, OrderInv, MergeLocked
      <4> QED BY <1>1, <2>1, <4>1 DEF Moved, MergeLocked
    <3> QED BY <3>1, <3>2
  <2>6. JobsOrdered' /\ LabelsInv'
    BY <1>s DEF MergeSearch, MergeCandidate, MergeOtherMissing, OrderInv, JobsOrdered, LabelsInv, Deleted,
       store, ghosts
  <2> QED BY <1>1, <2>4, <2>5, <2>6, OrderStep
<1>n. CASE ~MergeSearch(t) /\ ~MergeCandidate(t) /\ ~MergeOtherMissing(t)
  <2>1. th'[t].pc \in {"idle", "mergelock", "merged"}
    <3>1. Finish(t) => th'[t].pc = "idle"
      BY FinishFacts DEF IdleThread
    <3>2. MergeBegin(t) => th'[t].pc = "mergelock"
      BY GotoFacts DEF MergeBegin
    <3>3. ASSUME MergeOther(t) PROVE th'[t].pc = "merged"
      <4>1. PICK n, p : th' = [th EXCEPT ![t].pc = "merged", ![t].news = n, ![t].parts = p, ![t].cand = {}]
        BY <3>3 DEF MergeOther
      <4> QED BY <1>0, <4>1 DEF ThreadT
    <3> QED BY <1>n, <1>i, <3>1, <3>2, <3>3
            DEF MergeStep, MergeAbandon, MergeNotNeeded, MergeOtherFails,
                MergeDeleteFails, MergePutFails, MergeReassign, MergeWriteBack, MergeWriteBackFails
  <2>2. Ordered(t)'
    <3>1. th[t].reassign = ~DisableReassign /\ t \notin Clients
      BY <1>1, Configuration DEF Ordered
    <3>2. CASE th'[t] = IdleThread
      BY <3>2 DEF Ordered, IdleThread, SplitPcs, MergePcs, Splitting, Fusing, Reassigning
    <3>3. CASE th'[t] # IdleThread
      <4>1. th'[t].reassign = th[t].reassign
        BY <3>3, MergeThread
      <4> QED BY <2>1, <3>1, <4>1 DEF Ordered, Splitting, Fusing
    <3> QED BY <3>2, <3>3
  <2>3. MergeLocked'
    <3>1. CASE MergeBegin(t)
      <4>1. mergeLock' = t /\ th'[t].pc = "mergelock"
        BY <3>1, GotoFacts DEF MergeBegin
      <4> QED BY <4>1 DEF MergeLocked, Merging
    <3>2. CASE MergeReassign(t)
      <4>1. th[t].pc \notin Merging /\ UNCHANGED mergeLock
        BY <3>2 DEF MergeReassign, Merging, locks
      <4> QED BY <1>1, <4>1, LockOfOthers
    <3>3. CASE mergeLock' = NoThread
      BY <3>3 DEF MergeLocked
    <3> QED BY <1>n, <1>i, <3>1, <3>2, <3>3
            DEF MergeStep, MergeAbandon, MergeNotNeeded, MergeOtherFails, MergeOther, Merged,
                MergeDeleteFails, MergePutFails, MergeWriteBack, MergeWriteBackFails
  <2>4. LabelsInv'
    <3>1. UNCHANGED <<translate, version, erased>>
      BY DEF MergeStep, MergeRequeue, MergeBegin, MergeAbandon, MergeNotNeeded, MergeSearch,
         MergeCandidate, MergeOtherMissing, MergeOtherFails, MergeOther, MergeDeleteFails, MergePutFails,
         MergeReassign, MergeWriteBack, MergeWriteBackFails, store, ghosts
    <3> QED BY <3>1 DEF OrderInv, LabelsInv, Deleted
  <2>5. JobsOrdered'
    <3>1. CASE MergeReassign(t) /\ th[t].reassign
      <4>1. PICK R \in Seq(ReassignT(Placed, Known)) :
               jobs' = jobs \o R \o HeadVectorJob(th[t].news[2]) /\ th[t].news[2] \in Placed
        BY <3>1, MergedJobs
      <4> DEFINE B == HeadVectorJob(th[t].news[2])
      <4>2. B \in Seq(ReassignT(Placed, Known))
        BY <4>1, HeadVectorJobType DEF Placed
      <4>3. jobs' = jobs \o R \o B
        BY <4>1
      <4> HIDE DEF B
      <4>4. Range(jobs') \subseteq Range(jobs) \cup (Range(R) \cup Range(B))
        BY <4>2, <4>3, QueueGrows
      <4>5. \A j \in Range(R) \cup Range(B) : j.type \in Kinds => j.reassign = ~DisableReassign
        BY <4>2, ReassignKinds
      <4> QED BY <4>4, <4>5, JobsStayOrdered
    <3>2. CASE ~(MergeReassign(t) /\ th[t].reassign)
      <4>1. UNCHANGED jobs
        BY <1>i, <1>n, <3>2 DEF MergeStep, MergeBegin, MergeAbandon, MergeNotNeeded,
           MergeOtherFails, MergeOther, MergeDeleteFails, MergePutFails,
           MergeReassign, MergeWriteBack, MergeWriteBackFails
      <4> QED BY <4>1 DEF OrderInv, JobsOrdered
    <3> QED BY <3>1, <3>2
  <2> QED BY <1>1, <2>2, <2>3, <2>4, <2>5, OrderStep
<1> QED BY <1>s, <1>n

LEMMA SelectionSome ==
    ASSUME NEW k, NEW s \in RNGSelection(k)
    PROVE  s # << >>
<1>1. PICK n \in 1 .. ReplicaCount : s \in [1 .. n -> Visible \ {k}]
  BY DEF RNGSelection
<1>2. n \in Nat /\ n > 0
  BY Configuration
<1>3. 1 \in DOMAIN s
  BY <1>1, <1>2
<1> QED BY <1>3

\* The thread that takes a job.
LEMMA TakenThread ==
    ASSUME TInv, NEW t \in Threads, TakeJob(t)
    PROVE  \E j \in JobT(Placed, Known) :
              /\ Range(jobs) = {j} \cup Range(jobs') /\ j = Head(jobs)
              /\ th'[t].pc = j.type
              /\ j.type \in Kinds => th'[t].head = j.head /\ th'[t].reassign = j.reassign
              /\ j.type = "reassign" => th'[t].head = j.prev /\ th'[t].e = j.e
              /\ j.type \in Kinds \cup {"reassign"}
<1>0. th \in [Threads -> ThreadT(Placed, Known)]
  BY DEF TInv, ThreadsT
<1> DEFINE j == Head(jobs)
<1>1. jobs \in Seq(JobT(Placed, Known)) /\ jobs # << >> /\ jobs' = Tail(jobs)
  BY DEF TInv, RestT, TakeJob
<1>2. Range(jobs) = {j} \cup Range(jobs')
  BY <1>1, RangeTail
<1>3. j \in JobT(Placed, Known)
  BY <1>1
<1>4. j.type \in Kinds \cup {"reassign"}
  BY <1>3 DEF JobT, ReassignT, Kinds
<1>5. CASE j.type \in Kinds
  <2>1. th' = [th EXCEPT ![t] = [IdleThread EXCEPT !.pc = j.type, !.head = j.head,
                                                   !.reassign = j.reassign]]
    BY <1>5 DEF TakeJob, Kinds
  <2>2. j.type # "reassign" /\ j = Head(jobs)
    BY <1>5 DEF Kinds
  <2> HIDE DEF j
  <2>3. th'[t].pc = j.type /\ th'[t].head = j.head /\ th'[t].reassign = j.reassign
    BY <1>0, <2>1 DEF IdleThread
  <2> QED BY <1>2, <1>3, <1>4, <2>2, <2>3
<1>6. CASE j.type = "reassign"
  <2>1. th' = [th EXCEPT ![t] = [IdleThread EXCEPT !.pc = "reassign", !.head = j.prev, !.e = j.e,
                                                   !.slack = ReassignThreshold]]
    BY <1>6 DEF TakeJob
  <2>2. j.type \notin Kinds /\ j = Head(jobs)
    BY <1>6 DEF Kinds
  <2> HIDE DEF j
  <2>3. th'[t].pc = "reassign" /\ th'[t].head = j.prev /\ th'[t].e = j.e
    BY <1>0, <2>1 DEF IdleThread
  <2> QED BY <1>2, <1>3, <1>4, <1>6, <2>2, <2>3
<1> QED BY <1>4, <1>5, <1>6

LEMMA OtherOrder ==
    ASSUME TInv, LockInv, OrderInv, NEW t \in Threads, OtherStep(t)
    PROVE  OrderInv'
<1>0. th \in [Threads -> ThreadT(Placed, Known)] /\ th[t] \in ThreadT(Placed, Known)
  BY DEF TInv, ThreadsT
<1>1. Moved(t) /\ Step(t) /\ Ordered(t)
  BY ReassignQuiet, CallQuiet DEF OtherStep, Quiet, Step, OrderInv
<1>2. MergeLocked'
  <2>1. UNCHANGED mergeLock /\ th[t].pc \notin Merging
    BY DEF OtherStep, ReassignStep, ReassignStale, ReassignNotNeeded, ReassignSelect, ReassignCheck,
       ReassignIncVersion, TakeJob, AddIndex, DeleteIndex, SearchIndex, locks, Merging
  <2> QED BY <1>1, <2>1, LockOfOthers
<1>t. CASE t \in Workers /\ TakeJob(t)
  <2>1. PICK j \in JobT(Placed, Known) :
              /\ Range(jobs) = {j} \cup Range(jobs') /\ th'[t].pc = j.type
              /\ j.type \in Kinds => th'[t].head = j.head /\ th'[t].reassign = j.reassign
              /\ j.type \in Kinds \cup {"reassign"}
    BY <1>t, TakenThread
  <2>2. JobsOrdered' /\ (j.type \in Kinds => j.reassign = ~DisableReassign)
    BY <2>1 DEF OrderInv, JobsOrdered
  <2>3. LabelsInv'
    BY <1>t DEF TakeJob, store, ghosts, OrderInv, LabelsInv, Deleted
  <2>4. Ordered(t)'
    BY <1>t, <2>1, <2>2, Configuration DEF Ordered, Kinds, SplitPcs, MergePcs, Splitting, Fusing
  <2> QED BY <1>1, <1>2, <2>2, <2>3, <2>4, OrderStep
<1>r. CASE t \in Workers /\ ReassignStep(t)
  <2>1. UNCHANGED <<translate, erased, jobs>>
    BY <1>r DEF ReassignStep, ReassignStale, ReassignNotNeeded, ReassignSelect, ReassignCheck,
       ReassignIncVersion, store, ghosts
  <2>2. JobsOrdered'
    BY <2>1 DEF OrderInv, JobsOrdered
  <2>3. \A v \in Vectors : version'[v] = DeletedVersion => version[v] = DeletedVersion
    <3>1. CASE UNCHANGED version
      BY <3>1
    <3>2. CASE ReassignIncVersion(t)
      <4>1. PICK x : version' = [version EXCEPT ![x] = Successor(@)]
        BY <3>2 DEF ReassignIncVersion, IncVersion
      <4> TAKE v \in Vectors
      <4>2. version[v] \in 0 .. NoVersion /\ version'[v] \in {version[v], Successor(version[v])}
        BY <4>1 DEF TInv, StoreT
      <4> QED BY <4>2, SuccessorType
    <3> QED BY <1>r, <3>1, <3>2 DEF ReassignStep, ReassignStale, ReassignNotNeeded, ReassignSelect,
          ReassignCheck, store
  <2>4. LabelsInv'
    BY <2>1, <2>3 DEF OrderInv, LabelsInv, Deleted
  <2>5. /\ th'[t].pc \in {"idle", "reassigncheck", "inc", "next"}
        /\ th'[t].pc \in {"reassigncheck", "inc"} => th'[t].sel # << >>
    <3>1. CASE Finish(t)
      BY <3>1, FinishFacts DEF IdleThread
    <3>2. CASE ReassignSelect(t)
      <4>1. PICK s \in RNGSelection(th[t].head) :
              th' = [th EXCEPT ![t].pc = "reassigncheck", ![t].sel = s, ![t].head = NoHead]
        BY <3>2 DEF ReassignSelect
      <4>2. th'[t].pc = "reassigncheck" /\ th'[t].sel = s
        BY <1>0, <4>1 DEF ThreadT
      <4>3. s # << >>
        BY SelectionSome
      <4> QED BY <4>2, <4>3
    <3>3. CASE th[t].pc = "reassigncheck" /\ Goto(t, "inc")
      <4>1. th'[t].pc = "inc" /\ th'[t].sel = th[t].sel
        BY <1>0, <3>3 DEF Goto, ThreadT
      <4> QED BY <1>1, <3>3, <4>1 DEF Ordered
    <3>4. CASE ReassignIncVersion(t)
      <4>1. PICK n : th' = [th EXCEPT ![t].pc = "next", ![t].e.ver = n]
        BY <3>4 DEF ReassignIncVersion
      <4>2. th'[t].pc = "next"
        BY <1>0, <4>1 DEF ThreadT
      <4> QED BY <4>2
    <3> QED BY <1>r, <3>1, <3>2, <3>3, <3>4 DEF ReassignStep, ReassignStale, ReassignNotNeeded, ReassignCheck
  <2>6. Ordered(t)'
    BY <1>r, <2>5, Configuration DEF Ordered, SplitPcs, MergePcs, Splitting, Fusing
  <2> QED BY <1>1, <1>2, <2>2, <2>4, <2>6, OrderStep
<1>a. ASSUME NEW v \in Vectors, AddIndex(t, v)
      PROVE  OrderInv'
  <2>1. PICK s, f : th' = [th EXCEPT ![t] = [IdleThread EXCEPT !.pc = "next", !.sel = s, !.e = f]]
    BY <1>a DEF AddIndex
  <2>2. th'[t].pc = "next"
    BY <1>0, <2>1 DEF IdleThread
  <2>3. Ordered(t)'
    BY <2>2 DEF Ordered, SplitPcs, MergePcs, Splitting, Fusing, Reassigning
  <2>4. UNCHANGED <<translate, erased, jobs>> /\ version' = [version EXCEPT ![v] = FirstVersion]
    BY <1>a DEF AddIndex, ghosts
  <2>5. JobsOrdered'
    BY <2>4 DEF OrderInv, JobsOrdered
  <2>6. FirstVersion # DeletedVersion
    BY Configuration DEF FirstVersion, DeletedVersion
  <2>7. LabelsInv'
    BY <2>4, <2>6 DEF OrderInv, LabelsInv, Deleted, TInv, StoreT
  <2> QED BY <1>1, <1>2, <2>3, <2>5, <2>7, OrderStep
<1>d. ASSUME NEW v \in Vectors, DeleteIndex(t, v)
      PROVE  OrderInv'
  <2>1. /\ UNCHANGED <<head, translate, jobs, th>> /\ version' = [version EXCEPT ![v] = DeletedVersion]
        /\ erased' = erased \cup {v}
    BY <1>d DEF DeleteIndex
  <2>2. Ordered(t)' /\ JobsOrdered'
    BY <1>1, <2>1 DEF Ordered, OrderInv, JobsOrdered
  <2>3. LabelsInv'
    BY <2>1 DEF OrderInv, LabelsInv, Deleted, TInv, StoreT
  <2> QED BY <1>1, <1>2, <2>2, <2>3, OrderStep
<1>s. ASSUME NEW h \in HeadIds, SearchIndex(t, h)
      PROVE  OrderInv'
  <2>1. /\ UNCHANGED <<head, translate, version, erased, th>>
        /\ jobs' = Append(jobs, MergeJob(h, DisableReassign))
    BY <1>s DEF SearchIndex, store
  <2>2. Ordered(t)' /\ LabelsInv'
    BY <1>1, <2>1 DEF Ordered, OrderInv, LabelsInv, Deleted
  <2>3. Range(jobs') \subseteq Range(jobs) \cup {MergeJob(h, DisableReassign)}
    BY <2>1, QueueTypes
  <2>4. MergeJob(h, DisableReassign).reassign = ~DisableReassign
    BY DEF MergeJob
  <2>5. JobsOrdered'
    BY <2>3, <2>4 DEF OrderInv, JobsOrdered
  <2> QED BY <1>1, <1>2, <2>2, <2>5, OrderStep
<1> QED BY <1>t, <1>r, <1>a, <1>d, <1>s DEF OtherStep

LEMMA OrderAlways == Gentle => (Spec => []OrderInv)
<1> SUFFICES ASSUME Gentle PROVE Spec => []OrderInv
  OBVIOUS
<1>1. Init => OrderInv
  <2> SUFFICES ASSUME Init PROVE OrderInv
    OBVIOUS
  <2>1. \A t \in Threads : th[t].pc = "idle"
    BY DEF Init, IdleThread
  <2>2. \A t \in Threads : Ordered(t)
    BY <2>1 DEF Ordered, SplitPcs, MergePcs, Splitting, Fusing, Reassigning
  <2>3. JobsOrdered /\ MergeLocked
    BY DEF Init, JobsOrdered, MergeLocked, Range
  <2>4. \A h \in HeadIds : translate[h] # NoVector => ExcludeHead
    BY DEF Init
  <2>5. \A v \in Vectors : version[v] \in {FirstVersion, NoVersion}
    BY DEF Init
  <2>6. FirstVersion # DeletedVersion /\ NoVersion # DeletedVersion
    BY Configuration DEF FirstVersion, NoVersion, DeletedVersion
  <2> QED BY <2>2, <2>3, <2>4, <2>5, <2>6 DEF OrderInv, LabelsInv, Deleted
<1>2. TInv /\ LockInv /\ MergeFree /\ OrderInv /\ [Next]_vars => OrderInv'
  <2> SUFFICES ASSUME TInv, LockInv, MergeFree, OrderInv, [Next]_vars PROVE OrderInv'
    OBVIOUS
  <2>1. CASE UNCHANGED vars
    BY <2>1 DEF vars, OrderInv, Ordered, JobsOrdered, MergeLocked, LabelsInv, Deleted
  <2>2. CASE Next
    BY <2>2, NextSteps, AppendOrder, SplitOrder, MergeOrder, OtherOrder DEF Step
  <2> QED BY <2>1, <2>2
<1> QED BY <1>1, <1>2, TypesInv, LocksInv, BoundsInv, PTL DEF Spec

\* Each head of m_mergeList has one merge at most, in the queue or under way, and a merge
\* never takes its own head for the candidate.
MergeJobs == {i \in 1 .. Len(jobs) : jobs[i].type = "merge"}

Queued(i) ==
    jobs[i].head \in mergeList /\ \A k \in MergeJobs \ {i} : jobs[k].head # jobs[i].head

Sole(t) ==
    /\ th[t].pc \in MergePcs => th[t].head \in mergeList /\ \A i \in MergeJobs : jobs[i].head # th[t].head
    /\ th[t].pc = "mergeother" => th[t].other # th[t].head

QueuedInv == (\A i \in MergeJobs : Queued(i)) /\ \A t \in Threads : Sole(t)

\* A step that adds no merge job.
MergeJobsKept == \A i \in MergeJobs' : i \in MergeJobs /\ jobs'[i] = jobs[i]

LEMMA AppendKeeps ==
    ASSUME TInv, NEW j, j.type # "merge", jobs' = Append(jobs, j)
    PROVE  MergeJobsKept
<1>1. jobs \in Seq(JobT(Placed, Known) \cup {j})
  BY QueueTypes, SeqMono
<1>2. \A i \in 1 .. Len(jobs') : jobs'[i] = IF i <= Len(jobs) THEN jobs[i] ELSE j
  BY <1>1
<1>3. \A i \in 1 .. Len(jobs') : i <= Len(jobs) => i \in 1 .. Len(jobs)
  OBVIOUS
<1> QED BY <1>2, <1>3 DEF MergeJobsKept, MergeJobs

LEMMA ConcatKeeps ==
    ASSUME NEW T, NEW s \in Seq(T), NEW R \in Seq(ReassignT(Placed, Known)),
           NEW i \in 1 .. Len(s \o R), (s \o R)[i].type = "merge"
    PROVE  i \in 1 .. Len(s) /\ (s \o R)[i] = s[i]
<1>1. s \in Seq(T \cup ReassignT(Placed, Known)) /\ R \in Seq(T \cup ReassignT(Placed, Known))
  BY SeqMono
<1>2. Len(s \o R) = Len(s) + Len(R) /\ Len(s) \in Nat /\ Len(R) \in Nat
  BY <1>1
<1>3. (s \o R)[i] = IF i <= Len(s) THEN s[i] ELSE R[i - Len(s)]
  BY <1>1, <1>2
<1>4. CASE i <= Len(s)
  BY <1>2, <1>3, <1>4
<1>5. CASE ~(i <= Len(s))
  <2>1. i - Len(s) \in 1 .. Len(R)
    BY <1>2, <1>5
  <2>2. R[i - Len(s)] \in ReassignT(Placed, Known)
    BY <2>1
  <2>3. \A r \in ReassignT(Placed, Known) : r.type = "reassign"
    BY DEF ReassignT
  <2> QED BY <1>3, <1>5, <2>2, <2>3
<1> QED BY <1>4, <1>5

LEMMA ReassignsKeep ==
    ASSUME TInv, NEW A \in Seq(ReassignT(Placed, Known)), NEW B \in Seq(ReassignT(Placed, Known)),
           jobs' = jobs \o A \o B
    PROVE  MergeJobsKept
<1> DEFINE S == jobs \o A
           T == JobT(Placed, Known)
<1>1. jobs \in Seq(T) /\ S \in Seq(T)
  <2>1. jobs \in Seq(T) /\ A \in Seq(T)
    BY QueueTypes, JobsOK, SeqMono
  <2> QED BY <2>1
<1>2. \A i \in 1 .. Len(S) : S[i].type = "merge" => i \in 1 .. Len(jobs) /\ S[i] = jobs[i]
  <2> HIDE DEF T
  <2> QED BY <1>1, ConcatKeeps
<1>3. jobs' = S \o B
  OBVIOUS
<1> HIDE DEF S, T
<1>4. \A i \in 1 .. Len(S \o B) : (S \o B)[i].type = "merge" => i \in 1 .. Len(S) /\ (S \o B)[i] = S[i]
  BY <1>1, ConcatKeeps
<1>5. ASSUME NEW i \in 1 .. Len(jobs'), jobs'[i].type = "merge"
      PROVE  i \in 1 .. Len(jobs) /\ jobs[i].type = "merge" /\ jobs'[i] = jobs[i]
  <2>1. i \in 1 .. Len(S) /\ jobs'[i] = S[i]
    BY <1>3, <1>4, <1>5
  <2>2. S[i].type = "merge"
    BY <1>5, <2>1
  <2> QED BY <1>2, <2>1, <2>2
<1> QED BY <1>5 DEF MergeJobsKept, MergeJobs

\* Steps of threads that neither merge nor start to.
LEMMA QueuedQuiet ==
    ASSUME QueuedInv, NEW t \in Threads, Moved(t), UNCHANGED mergeList, MergeJobsKept,
           th'[t].pc \notin MergePcs
    PROVE  QueuedInv'
<1>1. \A i \in MergeJobs' : Queued(i)'
  BY DEF QueuedInv, Queued, MergeJobsKept
<1>2. ASSUME NEW u \in Threads
      PROVE  Sole(u)'
  <2>1. CASE u = t
    BY <2>1 DEF Sole, MergePcs
  <2>2. CASE u # t
    BY <2>2 DEF Moved, QueuedInv, Sole, MergeJobsKept
  <2> QED BY <2>1, <2>2
<1> QED BY <1>1, <1>2 DEF QueuedInv

LEMMA MergeQueued ==
    ASSUME Gentle, MergeFree, OrderInv, TInv, QueuedInv, NEW t \in Threads, t \in Workers, MergeStep(t)
    PROVE  QueuedInv'
<1>0. th \in [Threads -> ThreadT(Placed, Known)] /\ th[t] \in ThreadT(Placed, Known)
  BY DEF TInv, ThreadsT
<1>1. Moved(t) /\ th[t].pc \in MergePcs
  BY MergeMoves
<1>2. \A u \in Threads \ {t} : th[u].pc \notin MergePcs
  BY OneMerger
<1>3. MergeJobsKept
  <2>1. CASE MergeReassign(t) /\ th[t].reassign
    <3>1. PICK R \in Seq(ReassignT(Placed, Known)) :
             jobs' = jobs \o R \o HeadVectorJob(th[t].news[2]) /\ th[t].news[2] \in Placed
      BY <2>1, MergedJobs
    <3>2. HeadVectorJob(th[t].news[2]) \in Seq(ReassignT(Placed, Known))
      BY <3>1, HeadVectorJobType DEF Placed
    <3> QED BY <3>1, <3>2, ReassignsKeep
  <2>2. CASE ~(MergeReassign(t) /\ th[t].reassign)
    <3>1. ~MergeRequeue(t)
      BY NoRequeue
    <3>2. UNCHANGED jobs
      BY <2>2, <3>1 DEF MergeStep, MergeBegin, MergeAbandon, MergeNotNeeded, MergeSearch,
         MergeCandidate, MergeOtherMissing, MergeOtherFails, MergeOther, MergeDeleteFails, MergePutFails,
         MergeReassign, MergeWriteBack, MergeWriteBackFails
    <3> QED BY <3>2 DEF MergeJobsKept, MergeJobs
  <2> QED BY <2>1, <2>2
<1>4. mergeList \ {th[t].head} \subseteq mergeList'
  BY DEF MergeStep, MergeRequeue, MergeBegin, MergeAbandon, MergeNotNeeded, MergeSearch,
     MergeCandidate, MergeOtherMissing, MergeOtherFails, MergeOther, MergeDeleteFails, MergePutFails,
     MergeReassign, MergeWriteBack, MergeWriteBackFails, lists
<1>5. ASSUME NEW i \in MergeJobs'
      PROVE  Queued(i)'
  <2>1. i \in MergeJobs /\ jobs'[i] = jobs[i]
    BY <1>3 DEF MergeJobsKept
  <2>2. Queued(i) /\ Sole(t)
    BY <2>1 DEF QueuedInv
  <2>3. jobs[i].head # th[t].head /\ jobs[i].head \in mergeList
    BY <1>1, <2>1, <2>2 DEF Sole, Queued
  <2>4. jobs'[i].head \in mergeList'
    BY <1>4, <2>1, <2>3
  <2>5. \A k \in MergeJobs' \ {i} : jobs'[k].head # jobs'[i].head
    BY <1>3, <2>1, <2>2 DEF Queued, MergeJobsKept
  <2> QED BY <2>4, <2>5 DEF Queued
<1>6. ASSUME NEW u \in Threads
      PROVE  Sole(u)'
  <2>1. CASE u # t
    <3>1. th'[u].pc \notin MergePcs
      BY <1>1, <1>2, <2>1 DEF Moved
    <3> QED BY <3>1 DEF Sole, MergePcs
  <2>2. CASE u = t
    <3>0. th[t].head \in mergeList /\ \A i \in MergeJobs : jobs[i].head # th[t].head
      BY <1>1 DEF QueuedInv, Sole
    <3>1. CASE th'[t] = IdleThread
      <4>1. th'[t].pc \notin MergePcs
        BY <3>1 DEF IdleThread, MergePcs
      <4> QED BY <2>2, <4>1 DEF Sole, MergePcs
    <3>2. CASE th'[t] # IdleThread
      <4>1. th'[t].head = th[t].head
        BY <3>2, MergeThread
      <4>2. ~Finish(t)
        BY <3>2, FinishFacts
      <4>3. UNCHANGED mergeList
        BY <4>2 DEF MergeStep, MergeRequeue, MergeBegin, MergeAbandon, MergeNotNeeded, MergeSearch,
           MergeCandidate, MergeOtherMissing, MergeOtherFails, MergeOther, MergeDeleteFails, MergePutFails,
           MergeReassign, MergeWriteBack, MergeWriteBackFails, lists
      <4>4. ASSUME th'[t].pc = "mergeother" PROVE th'[t].other # th'[t].head
        <5>1. ~MergeBegin(t) /\ ~MergeSearch(t) /\ ~MergeOtherMissing(t) /\ ~MergeOther(t)
          <6>1. ~MergeBegin(t)
            BY <4>4, GotoFacts DEF MergeBegin
          <6>2. ASSUME MergeSearch(t) \/ MergeOtherMissing(t) \/ MergeOther(t) PROVE FALSE
            <7>1. CASE MergeSearch(t)
              <8>1. PICK c, q : th' = [th EXCEPT ![t].pc = "candidate", ![t].cand = c, ![t].parts = q]
                BY <7>1 DEF MergeSearch
              <8> QED BY <1>0, <4>4, <8>1 DEF ThreadT
            <7>2. CASE MergeOtherMissing(t)
              <8>1. PICK c, o : th' = [th EXCEPT ![t].pc = "candidate", ![t].cand = c, ![t].other = o]
                BY <7>2 DEF MergeOtherMissing
              <8> QED BY <1>0, <4>4, <8>1 DEF ThreadT
            <7>3. CASE MergeOther(t)
              <8>1. PICK n, q, c : th' = [th EXCEPT ![t].pc = "merged", ![t].news = n, ![t].parts = q, ![t].cand = c]
                BY <7>3 DEF MergeOther
              <8> QED BY <1>0, <4>4, <8>1 DEF ThreadT
            <7> QED BY <6>2, <7>1, <7>2, <7>3
          <6> QED BY <6>1, <6>2
        <5>2. MergeCandidate(t)
          BY <4>2, <5>1 DEF MergeStep, MergeRequeue, MergeAbandon, MergeNotNeeded, MergeOtherFails,
             MergeDeleteFails, MergePutFails, MergeReassign, MergeWriteBack, MergeWriteBackFails
        <5>3. PICK c \in th[t].cand : th' = IF Mergeable(t, c)
                                        THEN [th EXCEPT ![t].pc = "mergeother", ![t].other = c]
                                        ELSE [th EXCEPT ![t].cand = @ \ {c}]
          BY <5>2 DEF MergeCandidate
        <5>4. Mergeable(t, c)
          <6>1. th[t].pc = "candidate"
            BY <5>2 DEF MergeCandidate
          <6> QED BY <1>0, <4>4, <5>3, <6>1 DEF ThreadT
        <5>5. c \notin mergeList
          BY <5>4 DEF Mergeable
        <5>6. th'[t].other = c
          BY <1>0, <5>3, <5>4 DEF ThreadT
        <5> QED BY <3>0, <4>1, <5>5, <5>6
      <4> QED BY <1>3, <2>2, <3>0, <4>1, <4>3, <4>4 DEF Sole, MergeJobsKept
    <3> QED BY <3>1, <3>2
  <2> QED BY <2>1, <2>2
<1> QED BY <1>5, <1>6 DEF QueuedInv

LEMMA OtherQueued ==
    ASSUME TInv, QueuedInv, NEW t \in Threads, OtherStep(t)
    PROVE  QueuedInv'
<1>m. Moved(t)
  BY ReassignQuiet, CallQuiet DEF OtherStep, Quiet
<1>j. jobs \in Seq(JobT(Placed, Known))
  BY QueueTypes
<1>1. CASE ReassignStep(t)
  <2>1. th'[t].pc \notin MergePcs
    BY <1>1, ReassignQuiet
  <2>2. UNCHANGED <<mergeList, jobs>>
    BY <1>1 DEF ReassignStep, ReassignStale, ReassignNotNeeded, ReassignSelect, ReassignCheck,
       ReassignIncVersion, lists
  <2>3. MergeJobsKept
    BY <2>2 DEF MergeJobsKept, MergeJobs
  <2> QED BY <1>m, <2>1, <2>2, <2>3, QueuedQuiet
<1>2. CASE TakeJob(t)
  <2>1. jobs # << >> /\ jobs' = Tail(jobs) /\ UNCHANGED mergeList
    BY <1>2 DEF TakeJob, lists
  <2>2. \A i \in MergeJobs' : i + 1 \in MergeJobs /\ jobs'[i] = jobs[i + 1] /\ i + 1 # 1 /\ i \in Nat
    <3> TAKE i \in MergeJobs'
    <3>1. i \in 1 .. Len(jobs') /\ jobs'[i].type = "merge"
      BY DEF MergeJobs
    <3>2. Len(jobs') = Len(jobs) - 1 /\ Len(jobs) \in Nat /\ jobs'[i] = jobs[i + 1]
      BY <1>j, <2>1, <3>1
    <3>3. i + 1 \in 1 .. Len(jobs) /\ i + 1 # 1 /\ i \in Nat
      BY <3>1, <3>2
    <3> QED BY <3>1, <3>2, <3>3 DEF MergeJobs
  <2>3. \A i \in MergeJobs' : Queued(i)'
    <3> TAKE i \in MergeJobs'
    <3>1. Queued(i + 1)
      BY <2>2 DEF QueuedInv
    <3>2. \A k \in MergeJobs' \ {i} : k + 1 \in MergeJobs \ {i + 1} /\ jobs'[k] = jobs[k + 1]
      BY <2>2
    <3> QED BY <2>1, <2>2, <3>1, <3>2 DEF Queued
  <2>4. PICK j : /\ j = Head(jobs) /\ th'[t].pc = j.type
                 /\ j.type \in Kinds => th'[t].head = j.head
                 /\ j.type \in Kinds \cup {"reassign"}
    BY <1>2, TakenThread
  <2>5. ASSUME NEW u \in Threads \ {t}
        PROVE  Sole(u)'
    <3>1. th'[u] = th[u] /\ Sole(u)
      BY <1>m DEF Moved, QueuedInv
    <3> QED BY <2>1, <2>2, <3>1 DEF Sole
  <2>6. Sole(t)'
    <3>1. CASE j.type # "merge"
      <4>1. th'[t].pc \notin MergePcs
        BY <2>4, <3>1 DEF MergePcs, Kinds
      <4> QED BY <4>1 DEF Sole, MergePcs
    <3>2. CASE j.type = "merge"
      <4>1. Head(jobs) = jobs[1] /\ 1 \in 1 .. Len(jobs)
        BY <1>j, <2>1
      <4>2. 1 \in MergeJobs /\ j = jobs[1]
        BY <2>4, <3>2, <4>1 DEF MergeJobs
      <4>3. Queued(1)
        BY <4>2 DEF QueuedInv
      <4>4. th'[t].head = jobs[1].head /\ th'[t].pc = "merge"
        BY <2>4, <3>2, <4>2 DEF Kinds
      <4>5. \A i \in MergeJobs' : jobs'[i].head # jobs[1].head
        BY <2>2, <4>3 DEF Queued
      <4> QED BY <2>1, <4>3, <4>4, <4>5 DEF Sole, Queued
    <3> QED BY <3>1, <3>2
  <2> QED BY <2>3, <2>5, <2>6 DEF QueuedInv
<1>3. CASE \E v \in Vectors : AddIndex(t, v) \/ DeleteIndex(t, v)
  <2>1. UNCHANGED <<mergeList, jobs>> /\ th'[t].pc \in {"next", th[t].pc} /\ th[t].pc = "idle"
    <3>1. th \in [Threads -> ThreadT(Placed, Known)]
      BY DEF TInv, ThreadsT
    <3>2. ASSUME NEW v \in Vectors, AddIndex(t, v) PROVE th'[t].pc = "next"
      <4>1. PICK s, f : th' = [th EXCEPT ![t] = [IdleThread EXCEPT !.pc = "next", !.sel = s, !.e = f]]
        BY <3>2 DEF AddIndex
      <4> QED BY <3>1, <4>1 DEF IdleThread
    <3> QED BY <1>3, <3>2 DEF AddIndex, DeleteIndex, lists
  <2>2. MergeJobsKept
    BY <2>1 DEF MergeJobsKept, MergeJobs
  <2>3. th'[t].pc \notin MergePcs
    BY <2>1 DEF MergePcs
  <2> QED BY <1>m, <2>1, <2>2, <2>3, QueuedQuiet
<1>4. ASSUME NEW h \in HeadIds, SearchIndex(t, h)
      PROVE  QueuedInv'
  <2> DEFINE j == MergeJob(h, DisableReassign)
  <2>1. h \notin mergeList /\ mergeList' = mergeList \cup {h} /\ jobs' = Append(jobs, j) /\ UNCHANGED th
    BY <1>4 DEF SearchIndex
  <2>2. j.head = h
    BY DEF MergeJob
  <2> HIDE DEF j
  <2>3. jobs \in Seq(JobT(Placed, Known) \cup {j}) /\ Len(jobs) \in Nat
    BY <1>j, SeqMono
  <2>4. /\ Len(jobs') = Len(jobs) + 1
        /\ \A i \in 1 .. Len(jobs') : jobs'[i] = IF i <= Len(jobs) THEN jobs[i] ELSE j
    BY <2>1, <2>3
  <2>5. \A i \in MergeJobs' : \/ i \in MergeJobs /\ jobs'[i] = jobs[i] /\ jobs[i].head \in mergeList
                              \/ i = Len(jobs) + 1 /\ jobs'[i].head = h
    <3> TAKE i \in MergeJobs'
    <3>1. i \in 1 .. Len(jobs) + 1 /\ jobs'[i].type = "merge" /\ i \in 1 .. Len(jobs')
      BY <2>4 DEF MergeJobs
    <3>2. CASE i <= Len(jobs)
      <4>1. i \in 1 .. Len(jobs) /\ jobs'[i] = jobs[i]
        BY <2>4, <3>1, <3>2
      <4>2. i \in MergeJobs
        BY <3>1, <4>1 DEF MergeJobs
      <4> QED BY <4>1, <4>2 DEF QueuedInv, Queued
    <3>3. CASE ~(i <= Len(jobs))
      BY <2>2, <2>3, <2>4, <3>1, <3>3
    <3> QED BY <3>2, <3>3
  <2>6. \A i \in MergeJobs' : Queued(i)'
    <3> TAKE i \in MergeJobs'
    <3>1. jobs'[i].head \in mergeList'
      BY <2>1, <2>5
    <3>2. \A k \in MergeJobs' \ {i} : jobs'[k].head # jobs'[i].head
      <4> TAKE k \in MergeJobs' \ {i}
      <4>1. i \in MergeJobs /\ k \in MergeJobs => jobs[k].head # jobs[i].head
        BY DEF QueuedInv, Queued
      <4> QED BY <2>1, <2>5, <4>1
    <3> QED BY <3>1, <3>2 DEF Queued
  <2>7. \A u \in Threads : Sole(u)'
    <3> TAKE u \in Threads
    <3>1. Sole(u) /\ th'[u] = th[u]
      BY <2>1 DEF QueuedInv
    <3>2. th[u].pc \in MergePcs => \A i \in MergeJobs' : jobs'[i].head # th[u].head
      BY <2>1, <2>5, <3>1 DEF Sole
    <3> QED BY <2>1, <3>1, <3>2 DEF Sole
  <2> QED BY <2>6, <2>7 DEF QueuedInv
<1> QED BY <1>1, <1>2, <1>3, <1>4 DEF OtherStep

LEMMA QueuedAlways == Gentle => (Spec => []QueuedInv)
<1> SUFFICES ASSUME Gentle PROVE Spec => []QueuedInv
  OBVIOUS
<1>1. Init => QueuedInv
  <2> SUFFICES ASSUME Init PROVE QueuedInv
    OBVIOUS
  <2>1. \A t \in Threads : th[t].pc = "idle"
    BY DEF Init, IdleThread
  <2>2. MergeJobs = {}
    BY DEF Init, MergeJobs
  <2> QED BY <2>1, <2>2 DEF QueuedInv, Sole, MergePcs
<1>2. TInv /\ MergeFree /\ OrderInv /\ QueuedInv /\ [Next]_vars => QueuedInv'
  <2> SUFFICES ASSUME TInv, MergeFree, OrderInv, QueuedInv, [Next]_vars PROVE QueuedInv'
    OBVIOUS
  <2>1. CASE UNCHANGED vars
    BY <2>1 DEF vars, QueuedInv, Queued, Sole, MergeJobs
  <2>2. ASSUME NEW t \in Threads, AppendStep(t) PROVE QueuedInv'
    <3>1. Moved(t) /\ th'[t].pc \notin MergePcs
      BY <2>2, AppendQuiet DEF Quiet
    <3>2. UNCHANGED mergeList
      BY <2>2 DEF AppendStep, NextReplica, AppendHeadMiss, AppendCheck, AppendRecheck, AppendFull,
         AppendMerge, AppendFails, AppendEnd, lists
    <3>3. \/ UNCHANGED jobs
          \/ jobs' = Append(jobs, ReassignJob(th[t].e, th[t].head))
          \/ jobs' = Append(jobs, SplitJob(th[t].head))
      BY <2>2 DEF AppendStep, NextReplica, AppendHeadMiss, AppendCheck, AppendRecheck, AppendFull,
         AppendMerge, AppendFails, AppendEnd
    <3>4. ReassignJob(th[t].e, th[t].head).type # "merge" /\ SplitJob(th[t].head).type # "merge"
      BY DEF ReassignJob, SplitJob
    <3>5. UNCHANGED jobs => MergeJobsKept
      BY DEF MergeJobsKept, MergeJobs
    <3>6. MergeJobsKept
      BY <3>3, <3>4, <3>5, AppendKeeps
    <3> QED BY <3>1, <3>2, <3>6, QueuedQuiet
  <2>3. ASSUME NEW t \in Threads, SplitStep(t) PROVE QueuedInv'
    <3>1. Moved(t) /\ th'[t].pc \notin MergePcs
      BY <2>3, SplitMoves, SplitThread, ReturnQuiet DEF SplitPcs, MergePcs
    <3>2. UNCHANGED mergeList
      BY <2>3 DEF SplitStep, SplitMissing, SplitFails, SplitCollectGarbage, SplitOneCluster, SplitClusters,
         SplitSameHead, SplitNewHead, SplitIncVersion, SplitPut, SplitPutFails, SplitAddRow, SplitOldHead,
         SplitDeleteFails, SplitErase, CollectReAssign, lists
    <3>3. MergeJobsKept
      <4>1. CASE CollectReAssign(t)
        BY <4>1, CollectJobs, ReassignsKeep
      <4>2. CASE ~CollectReAssign(t)
        <5>1. UNCHANGED jobs
          BY <2>3, <4>2 DEF SplitStep, SplitMissing, SplitFails, SplitCollectGarbage, SplitOneCluster,
             SplitClusters, SplitSameHead, SplitNewHead, SplitIncVersion, SplitPut, SplitPutFails,
             SplitAddRow, SplitOldHead, SplitDeleteFails, SplitErase
        <5> QED BY <5>1 DEF MergeJobsKept, MergeJobs
      <4> QED BY <4>1, <4>2
    <3> QED BY <3>1, <3>2, <3>3, QueuedQuiet
  <2>4. CASE Next
    BY <2>2, <2>3, <2>4, NextSteps, MergeQueued, OtherQueued DEF Step
  <2> QED BY <2>1, <2>4
<1> QED BY <1>1, <1>2, TypesInv, BoundsInv, OrderAlways, PTL DEF Spec

\* A split that will still rewrite or delete the list of its head, or a merge that has read
\* it: what the list holds is in the hands of the thread.
Unsettled(t) ==
    \/ th[t].pc \in Splitting /\ (th[t].same = 0 \/ Len(th[t].news) < th[t].same)
    \/ th[t].pc \in Fusing

Settled(h) == \A t \in Threads : Unsettled(t) => th[t].head # h

Valid(v) == Entry(v, version[v])

\* The four ways in which a vector is kept.  Its valid entry is in the list of a visible head
\* that nobody is about to rewrite:
ListedAt(v, h) == h \in Visible /\ Valid(v) \in Range(db[h]) /\ Settled(h)
Listed(v) == \E h \in HeadIds : ListedAt(v, h)

\* a split or a merge has it in its hands and will write it:
Handed(t, v) ==
    \/ th[t].pc \in Splitting /\ \E i \in 1 .. 2 : i > Len(th[t].news) /\ Valid(v) \in Range(th[t].parts[i])
    \/ th[t].pc \in Fusing /\ Valid(v) \in Range(th[t].parts[1])

\* a thread is about to append it:
Bears(t, v) ==
    \/ /\ th[t].e = Valid(v)
       /\ \/ th[t].pc \in {"append", "appendlock"}
          \/ th[t].pc \in {"reassigncheck", "next"} /\ th[t].sel # << >>
          \/ th[t].pc \in {"split"} \cup SplitPcs /\ th[t].ret = "append"
          \/ th[t].pc = "reassign" /\ th[t].head \notin Visible
    \/ th[t].pc = "inc" /\ th[t].e.vid = v

\* or it is a head, will be one, or was one and is to be reassigned.
Crowned(v) == \E h \in Visible : translate[h] = v
Awaits(j, v) == j.type = "reassign" /\ j.e = Valid(v) /\ j.prev \notin Visible
Awaited(v) == \E j \in Range(jobs) : Awaits(j, v)
Lifts(t, v) ==
    \/ th[t].pc \in Creating /\ translate[th[t].other] = v
    \/ /\ th[t].pc \in {"erase", "collect"} /\ th[t].reassign /\ th[t].same = 0
       /\ translate[th[t].head] = v
    \/ th[t].pc = "merged" /\ th[t].reassign /\ translate[th[t].news[2]] = v
Lifted(v) == Crowned(v) \/ Awaited(v) \/ \E t \in Threads : Lifts(t, v)

Carried(v) == Lifted(v) \/ Listed(v) \/ \E t \in Threads : Handed(t, v) \/ Bears(t, v)

CarryInv == \A v \in Added \ erased : Carried(v)

\* What a merge has read is current, or the vector is a head or on its way by now.
Sound(t) ==
    th[t].pc \in Fusing =>
        \A e \in Range(th[t].parts[1]) : Current(e) \/ e.vid \in erased \/ Lifted(e.vid)

LostInv == CarryInv /\ \A t \in Threads : Sound(t)

-----------------------------------------------------------------------------
\* The vectors that the invariant is about.
Present(v) == v \in Vectors /\ v \in Added /\ v \notin erased

LEMMA PresentFacts ==
    ASSUME TInv, OrderInv, NEW v, Present(v)
    PROVE  /\ v \in Vectors /\ v # NoVector /\ Valid(v) \in Known /\ Valid(v).vid = v
           /\ Valid(v).ver = version[v] /\ Current(Valid(v)) /\ ~Deleted(v)
<1>1. v \in Vectors /\ v \notin erased /\ version[v] # NoVersion /\ ~Deleted(v)
  BY DEF Present, Added, OrderInv, LabelsInv
<1>2. version[v] \in 0 .. NoVersion /\ VersionMask \in Nat
  BY <1>1, Configuration DEF TInv, StoreT
<1>3. version[v] \in 0 .. FirstVersion
  BY <1>1, <1>2 DEF NoVersion, FirstVersion, DeletedVersion
<1>4. Valid(v).vid = v /\ Valid(v).ver = version[v]
  BY DEF Valid, Entry
<1>5. Valid(v) \in Known
  BY <1>1, <1>3 DEF Valid, Entry, Known, Entries
<1> QED BY <1>1, <1>4, <1>5, Configuration DEF Current

\* A valid entry is told by its two fields.
LEMMA ValidEntry ==
    ASSUME TInv, NEW e \in Known, NEW v, e.vid = v, e.ver = version[v]
    PROVE  e = Valid(v)
BY DEF Known, Entries, Valid, Entry

LEMMA HiddenStays ==
    ASSUME TInv, HeadsForward, NEW h \in Placed \cup {NoHead}, h \notin Visible
    PROVE  h \notin Visible'
<1>1. NoHead \notin HeadIds
  BY Configuration DEF NoHead, HeadIds
<1> QED BY <1>1 DEF HeadsForward, Visible, Placed

LEMMA NoHeadHidden ==
    NoHead \notin Visible /\ NoHead \notin Visible'
BY Configuration DEF NoHead, HeadIds, Visible

LEMMA UnsettledHolds ==
    ASSUME TInv, NEW u \in Threads, Unsettled(u)
    PROVE  Holding(th[u]) /\ th[u].head \in Placed /\ th[u].head \in HeadIds
<1>1. Holding(th[u]) /\ th[u].pc \in HeadPcs
  BY DEF Unsettled, Holding, Splitting, Fusing, HeadPcs, SplitPcs, MergePcs
<1> QED BY <1>1, HeadOfThread

\* The list of h was settled and keeps the entry.
LEMMA ListKept ==
    ASSUME NEW t \in Threads, Moved(t), NEW v, version'[v] = version[v], NEW h \in HeadIds,
           ListedAt(v, h), head'[h] = "visible", Valid(v) \in Range(db'[h]),
           Unsettled(t)' => th'[t].head # h
    PROVE  Carried(v)'
<1>1. Valid(v)' = Valid(v) /\ h \in Visible'
  BY DEF Valid, Visible
<1>2. ASSUME NEW u \in Threads, Unsettled(u)'
      PROVE  th'[u].head # h
  <2>1. CASE u = t
    BY <1>2, <2>1
  <2>2. CASE u # t
    <3>1. th'[u] = th[u]
      BY <2>2 DEF Moved
    <3>2. Unsettled(u)
      BY <1>2, <3>1 DEF Unsettled
    <3> QED BY <3>1, <3>2 DEF ListedAt, Settled
  <2> QED BY <2>1, <2>2
<1>3. Settled(h)'
  BY <1>2 DEF Settled
<1>4. ListedAt(v, h)'
  BY <1>1, <1>3 DEF ListedAt
<1> QED BY <1>4 DEF Carried, Listed

\* The entry is now in a list whose lock is free or t's own.
LEMMA ListNew ==
    ASSUME TInv, LockInv, NEW t \in Threads, Moved(t), NEW v, version'[v] = version[v], NEW h \in HeadIds,
           MayWrite(t, h), head'[h] = "visible", Valid(v) \in Range(db'[h]),
           Unsettled(t)' => th'[t].head # h
    PROVE  Carried(v)'
<1>1. Valid(v)' = Valid(v) /\ h \in Visible'
  BY DEF Valid, Visible
<1>2. ASSUME NEW u \in Threads, Unsettled(u)'
      PROVE  th'[u].head # h
  <2>1. CASE u = t
    BY <1>2, <2>1
  <2>2. CASE u # t
    <3>1. th'[u] = th[u]
      BY <2>2 DEF Moved
    <3>2. Unsettled(u)
      BY <1>2, <3>1 DEF Unsettled
    <3>3. Holding(th[u]) /\ th[u].head \in HeadIds
      BY <3>2, UnsettledHolds
    <3> QED BY <2>2, <3>1, <3>3, OthersHeads
  <2> QED BY <2>1, <2>2
<1>3. Settled(h)'
  BY <1>2 DEF Settled
<1>4. ListedAt(v, h)'
  BY <1>1, <1>3 DEF ListedAt
<1> QED BY <1>4 DEF Carried, Listed

\* What the threads other than t do for v.
LEMMA OthersCarry ==
    ASSUME TInv, HeadsForward, NEW t \in Threads, Moved(t), NEW v, version'[v] = version[v],
           NEW u \in Threads \ {t}, Handed(u, v) \/ Bears(u, v)
    PROVE  Carried(v)'
<1>1. Valid(v)' = Valid(v) /\ th'[u] = th[u]
  BY DEF Valid, Moved
<1>2. th[u].head \in Placed \cup {NoHead}
  BY DEF TInv, ThreadsT, ThreadT
<1>3. th[u].head \notin Visible => th[u].head \notin Visible'
  BY <1>2, HiddenStays
<1>4. CASE Handed(u, v)
  <2>1. Handed(u, v)'
    BY <1>1, <1>4 DEF Handed
  <2> QED BY <2>1 DEF Carried
<1>5. CASE Bears(u, v)
  <2>1. Bears(u, v)'
    BY <1>1, <1>3, <1>5 DEF Bears
  <2> QED BY <2>1 DEF Carried
<1> QED BY <1>4, <1>5

LEMMA CarryStep ==
    ASSUME TInv, HeadsForward, NEW t \in Threads, Moved(t), NEW v, version'[v] = version[v], Carried(v),
           Lifted(v) => Carried(v)',
           Handed(t, v) => Carried(v)', Bears(t, v) => Carried(v)',
           \A h \in HeadIds : ListedAt(v, h) => Carried(v)'
    PROVE  Carried(v)'
<1>1. CASE Lifted(v) \/ Listed(v)
  BY <1>1 DEF Listed
<1>2. ASSUME NEW u \in Threads, Handed(u, v) \/ Bears(u, v)
      PROVE  Carried(v)'
  BY <1>2, OthersCarry
<1> QED BY <1>1, <1>2 DEF Carried

\* What becomes of the labels of heads.
Relabels == \A h \in HeadIds : head[h] # "free" => translate'[h] = translate[h]

LEMMA OthersLift ==
    ASSUME TInv, NEW t \in Threads, Moved(t), NEW v, Relabels, NEW u \in Threads \ {t}, Lifts(u, v)
    PROVE  Lifted(v)'
<1>1. th'[u] = th[u] /\ th[u] \in ThreadT(Placed, Known) /\ Shape(th[u])
  BY DEF Moved, TInv, ThreadsT
<1>2. \A h \in Placed : translate'[h] = translate[h]
  BY DEF Relabels, Placed
<1>3. CASE th[u].pc \in Creating /\ translate[th[u].other] = v
  <2>1. th[u].other \in HeadIds /\ head[th[u].other] = "added"
    BY <1>1, <1>3 DEF Shape, TInv, Pending
  <2>2. translate'[th[u].other] = v
    BY <1>3, <2>1 DEF Relabels
  <2>3. Lifts(u, v)'
    BY <1>1, <1>3, <2>2 DEF Lifts
  <2> QED BY <2>3 DEF Lifted
<1>4. CASE /\ th[u].pc \in {"erase", "collect"} /\ th[u].reassign /\ th[u].same = 0
           /\ translate[th[u].head] = v
  <2>1. th[u].head \in Placed
    BY <1>4, HeadOfThread DEF HeadPcs, SplitPcs
  <2>2. Lifts(u, v)'
    BY <1>1, <1>2, <1>4, <2>1 DEF Lifts
  <2> QED BY <2>2 DEF Lifted
<1>5. CASE th[u].pc = "merged" /\ th[u].reassign /\ translate[th[u].news[2]] = v
  <2>1. th[u].news \in Seq(Placed) /\ Len(th[u].news) = 2
    BY <1>1, <1>5 DEF ThreadT, Shape
  <2>2. th[u].news[2] \in Placed
    BY <2>1
  <2>3. Lifts(u, v)'
    BY <1>1, <1>2, <1>5, <2>2 DEF Lifts
  <2> QED BY <2>3 DEF Lifted
<1> QED BY <1>3, <1>4, <1>5 DEF Lifts

LEMMA LiftKept ==
    ASSUME TInv, HeadsForward, NEW t \in Threads, Moved(t), NEW v, version'[v] = version[v], Relabels,
           Lifted(v), Range(jobs) \subseteq Range(jobs'),
           \A h \in Visible : translate[h] = v => h \in Visible' \/ Lifted(v)',
           Lifts(t, v) => Lifted(v)'
    PROVE  Lifted(v)'
<1>1. CASE Crowned(v)
  <2>1. PICK h \in Visible : translate[h] = v
    BY <1>1 DEF Crowned
  <2>2. translate'[h] = v
    BY <2>1 DEF Relabels, Visible
  <2>3. h \in Visible' => Crowned(v)'
    BY <2>2 DEF Crowned
  <2> QED BY <2>1, <2>3 DEF Lifted
<1>2. CASE Awaited(v)
  <2>1. PICK j \in Range(jobs) : Awaits(j, v)
    BY <1>2 DEF Awaited
  <2>2. j \in JobT(Placed, Known)
    BY QueueTypes DEF Range
  <2>3. j.prev \in Placed \cup {NoHead}
    BY <2>1, <2>2 DEF JobT, ReassignT, Awaits
  <2>4. j.prev \notin Visible'
    BY <2>1, <2>3, HiddenStays DEF Awaits
  <2>5. Awaits(j, v)'
    BY <2>1, <2>4 DEF Awaits, Valid
  <2>6. Awaited(v)'
    BY <2>5 DEF Awaited
  <2> QED BY <2>6 DEF Lifted
<1>3. ASSUME NEW u \in Threads, Lifts(u, v)
      PROVE  Lifted(v)'
  <2>1. CASE u = t
    BY <1>3, <2>1
  <2>2. CASE u # t
    BY <1>3, <2>2, OthersLift
  <2> QED BY <2>1, <2>2
<1> QED BY <1>1, <1>2, <1>3 DEF Lifted

\* A step that keeps the vector, and keeps it lifted.
Keeps(v) == (Carried(v) => Carried(v)') /\ (Lifted(v) => Lifted(v)')

LEMMA KeepStep ==
    ASSUME TInv, HeadsForward, NEW t \in Threads, Moved(t), NEW v, version'[v] = version[v], Relabels,
           Range(jobs) \subseteq Range(jobs'),
           \A h \in Visible : translate[h] = v => h \in Visible' \/ Lifted(v)',
           Lifts(t, v) => Lifted(v)',
           Handed(t, v) => Carried(v)', Bears(t, v) => Carried(v)',
           \A h \in HeadIds : ListedAt(v, h) => Carried(v)'
    PROVE  Keeps(v)
<1>1. Lifted(v) => Lifted(v)'
  BY LiftKept
<1>2. Lifted(v) => Carried(v)'
  BY <1>1 DEF Carried
<1>3. Carried(v) => Carried(v)'
  BY <1>2, CarryStep
<1> QED BY <1>1, <1>3 DEF Keeps

\* Phases in which a thread neither splits nor merges.
LEMMA IdleHands ==
    ASSUME NEW t, th[t].pc \notin Splitting \cup Fusing
    PROVE  ~Unsettled(t) /\ \A v : ~Handed(t, v)
BY DEF Unsettled, Handed

LEMMA IdleHandsNext ==
    ASSUME NEW t, th'[t].pc \notin Splitting \cup Fusing
    PROVE  ~Unsettled(t)'
BY DEF Unsettled

LEMMA AppendBears ==
    ASSUME Gentle, TInv, LockInv, OrderInv, NEW t \in Threads, AppendStep(t), NEW v, Present(v), Bears(t, v),
           Moved(t), ~Unsettled(t)'
    PROVE  Carried(v)'
<1>0. th \in [Threads -> ThreadT(Placed, Known)] /\ th[t] \in ThreadT(Placed, Known)
  BY DEF TInv, ThreadsT
<1>1. UNCHANGED <<version, head>>
  BY DEF AppendStep, NextReplica, AppendHeadMiss, AppendCheck, AppendRecheck, AppendFull,
     AppendMerge, AppendFails, AppendEnd, store
<1>2. Valid(v)' = Valid(v) /\ Valid(v).vid = v /\ Valid(v).ver = version[v] /\ Valid(v) \in Known
  BY <1>1, PresentFacts DEF Valid
<1>3. th[t].pc \in {"next", "append", "appendlock", "appended"}
  BY AppendThread
<1>4. th[t].e = Valid(v) /\ th[t].pc # "appended" /\ (th[t].pc = "next" => th[t].sel # << >>)
  BY <1>3 DEF Bears, SplitPcs
<1>p. ASSUME th'[t].e = th[t].e, th'[t].pc \in {"append", "appendlock"}
      PROVE  Carried(v)'
  <2>1. Bears(t, v)'
    BY <1>2, <1>4, <1>p DEF Bears
  <2> QED BY <2>1 DEF Carried
<1>n. CASE NextReplica(t)
  <2>1. version[th[t].e.vid] = th[t].e.ver /\ th[t].sel # << >>
    BY <1>2, <1>4, <1>n DEF NextReplica
  <2>2. th' = [th EXCEPT ![t].pc = "append", ![t].head = Head(th[t].sel), ![t].sel = Tail(@)]
    BY <1>n, <2>1 DEF NextReplica
  <2>3. th'[t].e = th[t].e /\ th'[t].pc = "append"
    BY <1>0, <2>2 DEF ThreadT
  <2> QED BY <1>p, <2>3
<1>h. CASE AppendHeadMiss(t)
  <2>0. PICK j : j = ReassignJob(th[t].e, th[t].head)
    OBVIOUS
  <2>1. jobs' = Append(jobs, j) /\ ~ContainSample(th[t].head)
    BY <1>2, <1>4, <1>h, <2>0 DEF AppendHeadMiss
  <2>2. j.type = "reassign" /\ j.e = Valid(v) /\ j.prev = th[t].head
    BY <1>4, <2>0 DEF ReassignJob
  <2>3. j \in Range(jobs')
    BY <2>1, QueueTypes
  <2>4. th[t].head \notin Visible'
    BY <1>1, <2>1 DEF Visible, ContainSample
  <2>5. Awaits(j, v)'
    BY <1>2, <2>2, <2>4 DEF Awaits
  <2>6. Awaited(v)'
    BY <2>3, <2>5 DEF Awaited
  <2> QED BY <2>6 DEF Carried, Lifted
<1>c. CASE AppendCheck(t) \/ AppendRecheck(t)
  <2>1. \E p \in {"append", "appendlock"} : th' = [th EXCEPT ![t].pc = p]
    BY <1>c DEF AppendCheck, AppendRecheck, Goto
  <2>2. th'[t].e = th[t].e /\ th'[t].pc \in {"append", "appendlock"}
    BY <1>0, <2>1 DEF ThreadT
  <2> QED BY <1>p, <2>2
<1>f. CASE AppendFull(t)
  <2>1. th' = [th EXCEPT ![t].pc = "split", ![t].nested = TRUE, ![t].ret = "append",
                         ![t].reassign = ~DisableReassign]
    BY <1>f DEF AppendFull
  <2>2. th'[t].e = th[t].e /\ th'[t].pc = "split" /\ th'[t].ret = "append"
    BY <1>0, <2>1 DEF ThreadT
  <2>3. Bears(t, v)'
    BY <1>2, <1>4, <2>2 DEF Bears
  <2> QED BY <2>3 DEF Carried
<1>m. CASE AppendMerge(t)
  <2>1. th[t].head \in HeadIds /\ th[t].head \in Placed
    BY <1>m, HeadOfThread DEF AppendMerge, HeadPcs
  <2>2. PICK h \in HeadIds : h = th[t].head
    BY <2>1
  <2>3. db' = [db EXCEPT ![h] = Append(@, th[t].e)] /\ Unlocked(h) /\ ContainSample(h)
    BY <1>m, <2>2 DEF AppendMerge
  <2>4. MayWrite(t, h) /\ head'[h] = "visible"
    BY <1>1, <2>1, <2>2, <2>3 DEF MayWrite, Unlocked, ContainSample, Placed
  <2>5. db \in [HeadIds -> Seq(Known)]
    BY DEF TInv, StoreT
  <2>6. db'[h] = Append(db[h], Valid(v)) /\ db[h] \in Seq(Known)
    BY <1>4, <2>3, <2>5
  <2>7. Valid(v) \in Range(db'[h])
    BY <2>6, RangeAppend
  <2> QED BY <1>1, <2>4, <2>7, ListNew
<1> QED BY <1>4, <1>n, <1>h, <1>c, <1>f, <1>m DEF AppendStep, AppendEnd, AppendFails, Gentle

LEMMA AppendKeep ==
    ASSUME Gentle, TInv, LockInv, OrderInv, NEW t \in Threads, AppendStep(t), NEW v, Present(v)
    PROVE  Keeps(v)
<1>1. UNCHANGED <<version, head, translate>>
  BY DEF AppendStep, NextReplica, AppendHeadMiss, AppendCheck, AppendRecheck, AppendFull,
     AppendMerge, AppendFails, AppendEnd, store
<1>2. Moved(t) /\ HeadsForward
  BY AppendQuiet, StepsForward DEF Quiet, Step
<1>3. /\ th[t].pc \in {"next", "append", "appendlock", "appended"}
      /\ th'[t].pc \in {"idle", "next", "append", "appendlock", "appended", "split"}
  BY AppendThread
<1>4. ~Handed(t, v) /\ ~Unsettled(t)'
  BY <1>3, IdleHands, IdleHandsNext DEF Splitting, Fusing
<1>5. ~Lifts(t, v)
  BY <1>3 DEF Lifts, Creating
<1>6. Range(jobs) \subseteq Range(jobs')
  <2>1. \/ UNCHANGED jobs
        \/ \E x : jobs' = Append(jobs, x)
    BY DEF AppendStep, NextReplica, AppendHeadMiss, AppendCheck, AppendRecheck, AppendFull,
       AppendMerge, AppendFails, AppendEnd
  <2> QED BY <2>1, QueueTypes
<1>7. Relabels /\ \A h \in Visible : h \in Visible'
  BY <1>1 DEF Relabels, Visible
<1>8. ASSUME NEW h \in HeadIds, ListedAt(v, h)
      PROVE  Carried(v)'
  <2>1. Valid(v) \in Range(db[h]) /\ head'[h] = "visible" /\ db \in [HeadIds -> Seq(Known)]
    BY <1>1, <1>8 DEF ListedAt, Visible, TInv, StoreT
  <2>2. \/ UNCHANGED db \/ db' = [db EXCEPT ![th[t].head] = Append(@, th[t].e)]
    BY DEF AppendStep, NextReplica, AppendHeadMiss, AppendCheck, AppendRecheck, AppendFull,
     AppendMerge, AppendFails, AppendEnd, store
  <2>3. db'[h] = db[h] \/ db'[h] = Append(db[h], th[t].e)
    BY <2>1, <2>2
  <2>4. Range(Append(db[h], th[t].e)) = Range(db[h]) \cup {th[t].e}
    <3>1. db[h] \in Seq(Known)
      BY <2>1
    <3> QED BY <3>1, RangeAppend
  <2>5. Valid(v) \in Range(db'[h])
    BY <2>1, <2>3, <2>4
  <2> QED BY <1>1, <1>2, <1>4, <1>8, <2>1, <2>5, ListKept
<1>9. Bears(t, v) => Carried(v)'
  BY <1>2, <1>4, AppendBears
<1> QED BY <1>1, <1>2, <1>4, <1>5, <1>6, <1>7, <1>8, <1>9, KeepStep

-----------------------------------------------------------------------------
\* Steps of a thread that has just been idle, or is reassigning.
LEMMA OtherPart ==
    ASSUME TInv, NEW t \in Threads, OtherStep(t)
    PROVE  /\ Moved(t) /\ HeadsForward /\ Relabels /\ UNCHANGED <<head, translate, db>>
           /\ th[t].pc \in {"idle"} \cup Reassigning
           /\ ~Unsettled(t)' /\ \A v : ~Handed(t, v) /\ ~Lifts(t, v)
           /\ \A v, h : ListedAt(v, h) /\ h \in HeadIds /\ version'[v] = version[v] => Carried(v)'
<1>1. Moved(t) /\ HeadsForward
  BY ReassignQuiet, CallQuiet, StepsForward DEF Quiet, Step, OtherStep
<1>2. UNCHANGED <<head, translate, db>> /\ th[t].pc \in {"idle"} \cup Reassigning
  BY DEF OtherStep, ReassignStep, ReassignStale, ReassignNotNeeded, ReassignSelect,
     ReassignCheck, ReassignIncVersion, TakeJob, AddIndex, DeleteIndex, SearchIndex, store, Reassigning
<1>3. th'[t].pc \in QuietPcs
  BY ReassignQuiet, CallQuiet DEF Quiet, OtherStep
<1>4. ~Unsettled(t)' /\ \A v : ~Handed(t, v)
  BY <1>2, <1>3, IdleHands, IdleHandsNext DEF Splitting, Fusing, QuietPcs, Reassigning
<1>5. \A v : ~Lifts(t, v)
  BY <1>2 DEF Lifts, Creating, Reassigning
<1>6. ASSUME NEW v, NEW h \in HeadIds, ListedAt(v, h), version'[v] = version[v]
      PROVE  Carried(v)'
  <2>1. head'[h] = "visible" /\ Valid(v) \in Range(db'[h])
    BY <1>2, <1>6 DEF ListedAt, Visible
  <2> QED BY <1>1, <1>4, <1>6, <2>1, ListKept
<1> QED BY <1>1, <1>2, <1>4, <1>5, <1>6 DEF Relabels

\* The calls of a client.
LEMMA ClientKeeps ==
    ASSUME TInv, OrderInv, NEW t \in Threads, OtherStep(t), t \in Clients, NEW v, version'[v] = version[v]
    PROVE  Keeps(v)
<1>1. \/ \E x \in Vectors : AddIndex(t, x) \/ DeleteIndex(t, x)
      \/ \E h \in HeadIds : SearchIndex(t, h)
  BY Configuration DEF OtherStep
<1>2. th[t].pc = "idle" /\ Range(jobs) \subseteq Range(jobs')
  BY <1>1, QueueTypes DEF AddIndex, DeleteIndex, SearchIndex
<1>3. ~Bears(t, v)
  BY <1>2 DEF Bears, SplitPcs
<1>4. /\ Moved(t) /\ HeadsForward /\ Relabels /\ UNCHANGED head
      /\ ~Handed(t, v) /\ ~Lifts(t, v)
      /\ \A h \in HeadIds : ListedAt(v, h) => Carried(v)'
  BY OtherPart
<1>5. \A h \in Visible : h \in Visible'
  BY <1>4 DEF Visible
<1> QED BY <1>2, <1>3, <1>4, <1>5, KeepStep

\* The job that a worker takes is in its hands.
LEMMA TakeCarries ==
    ASSUME TInv, NEW t \in Threads, OtherStep(t), TakeJob(t), NEW v, Carried(v)
    PROVE  Carried(v)'
<1>1. version'[v] = version[v] /\ th[t].pc = "idle"
  BY DEF TakeJob, store
<1>2. /\ Moved(t) /\ HeadsForward /\ Relabels /\ UNCHANGED <<head, translate>>
      /\ ~Handed(t, v) /\ ~Lifts(t, v)
      /\ \A h \in HeadIds : ListedAt(v, h) => Carried(v)'
  BY <1>1, OtherPart
<1>3. ~Bears(t, v)
  BY <1>1 DEF Bears, SplitPcs
<1>4. Lifted(v) => Carried(v)'
  <2>1. CASE Crowned(v)
    <3>1. Crowned(v)'
      BY <1>2, <2>1 DEF Crowned, Visible
    <3> QED BY <3>1 DEF Lifted, Carried
  <2>2. CASE Awaited(v)
    <3>1. PICK j \in Range(jobs) : Awaits(j, v)
      BY <2>2 DEF Awaited
    <3>2. Awaits(j, v)'
      BY <1>1, <1>2, <3>1 DEF Awaits, Valid, Visible
    <3>3. CASE j \in Range(jobs')
      <4>1. Awaited(v)'
        BY <3>2, <3>3 DEF Awaited
      <4> QED BY <4>1 DEF Lifted, Carried
    <3>4. CASE j \notin Range(jobs')
      <4>1. PICK k : /\ Range(jobs) = {k} \cup Range(jobs') /\ th'[t].pc = k.type
                     /\ k.type = "reassign" => th'[t].head = k.prev /\ th'[t].e = k.e
        BY TakenThread
      <4>2. k = j
        BY <3>4, <4>1
      <4>3. th'[t].pc = "reassign" /\ th'[t].head = j.prev /\ th'[t].e = j.e
        BY <3>1, <4>1, <4>2 DEF Awaits
      <4>4. Bears(t, v)'
        BY <3>2, <4>3 DEF Bears, Awaits
      <4> QED BY <4>4 DEF Carried
    <3> QED BY <3>3, <3>4
  <2>3. ASSUME NEW u \in Threads, Lifts(u, v)
        PROVE  Carried(v)'
    <3>1. u # t
      BY <1>2, <2>3
    <3>2. Lifted(v)'
      BY <1>2, <2>3, <3>1, OthersLift
    <3> QED BY <3>2 DEF Carried
  <2> QED BY <2>1, <2>2, <2>3 DEF Lifted
<1> QED BY <1>1, <1>2, <1>3, <1>4, CarryStep

LEMMA ReassignCarries ==
    ASSUME TInv, OrderInv, NEW t \in Threads, OtherStep(t), ReassignStep(t), NEW v, Present(v), Carried(v)
    PROVE  Carried(v)'
<1>0. th \in [Threads -> ThreadT(Placed, Known)] /\ th[t] \in ThreadT(Placed, Known) /\ Ordered(t)
  BY DEF TInv, ThreadsT, OrderInv
<1>1. Valid(v).vid = v /\ Current(Valid(v)) /\ v \in Vectors
  BY PresentFacts
<1>c. ASSUME version'[v] = version[v], Bears(t, v) => Carried(v)'
      PROVE  Carried(v)'
  <2>1. /\ Moved(t) /\ HeadsForward /\ Relabels /\ UNCHANGED head
        /\ ~Handed(t, v) /\ ~Lifts(t, v)
        /\ \A h \in HeadIds : ListedAt(v, h) => Carried(v)'
    BY <1>c, OtherPart
  <2>2. UNCHANGED jobs
    BY DEF ReassignStep, ReassignStale, ReassignNotNeeded, ReassignSelect, ReassignCheck, ReassignIncVersion
  <2>3. \A h \in Visible : h \in Visible'
    BY <2>1 DEF Visible
  <2>4. Keeps(v)
    BY <1>c, <2>1, <2>2, <2>3, KeepStep
  <2> QED BY <2>4 DEF Keeps
<1>i. CASE ReassignIncVersion(t)
  <2>1. th[t].pc = "inc" /\ th[t].e \in Known /\ th[t].sel # << >>
    BY <1>0, <1>i, EntryOfThread DEF ReassignIncVersion, EntryPcs, Ordered
  <2>2. PICK w, n : /\ w \in Vectors /\ w = th[t].e.vid /\ n = Successor(version[w])
                    /\ version' = [version EXCEPT ![w] = n]
                    /\ th' = [th EXCEPT ![t].pc = "next", ![t].e.ver = n]
    BY <1>i, <2>1 DEF ReassignIncVersion, IncVersion, Known, Entries
  <2>3. CASE v # w
    <3>1. version'[v] = version[v]
      BY <1>1, <2>2, <2>3 DEF TInv, StoreT
    <3>2. ~Bears(t, v)
      BY <2>1, <2>2, <2>3 DEF Bears, SplitPcs
    <3> QED BY <1>c, <3>1, <3>2
  <2>4. CASE v = w
    <3>1. version'[v] = n
      BY <2>2, <2>4 DEF TInv, StoreT
    <3>2. th'[t].pc = "next" /\ th'[t].sel = th[t].sel /\ th'[t].e = [th[t].e EXCEPT !.ver = n]
      BY <1>0, <2>2 DEF ThreadT
    <3>3. [th[t].e EXCEPT !.ver = n] = Entry(v, n)
      BY <2>1, <2>2, <2>4 DEF Known, Entries, Entry
    <3>4. th'[t].e = Valid(v)'
      BY <3>1, <3>2, <3>3 DEF Valid
    <3>5. Bears(t, v)'
      BY <2>1, <3>2, <3>4 DEF Bears
    <3> QED BY <3>5 DEF Carried
  <2> QED BY <2>3, <2>4
<1>q. CASE ~ReassignIncVersion(t)
  <2>1. UNCHANGED <<version, head>>
    BY <1>q DEF ReassignStep, ReassignStale, ReassignNotNeeded, ReassignSelect, ReassignCheck, store
  <2>2. ASSUME Bears(t, v)
        PROVE  Bears(t, v)'
    <3>1. Valid(v)' = Valid(v)
      BY <2>1 DEF Valid
    <3>2. th[t].pc \in {"reassign", "reassigncheck"}
      BY <1>q DEF ReassignStep, ReassignStale, ReassignNotNeeded, ReassignSelect, ReassignCheck
    <3>3. th[t].e = Valid(v) /\ (th[t].pc = "reassign" => th[t].head \notin Visible)
      BY <2>2, <3>2 DEF Bears, SplitPcs
    <3>4. ReassignSelect(t) \/ ReassignCheck(t)
      BY <1>1, <1>q, <3>3 DEF ReassignStep, ReassignStale, ReassignNotNeeded
    <3>5. CASE ReassignSelect(t)
      <4>1. PICK s \in RNGSelection(th[t].head) :
               th' = [th EXCEPT ![t].pc = "reassigncheck", ![t].sel = s, ![t].head = NoHead]
        BY <3>5 DEF ReassignSelect
      <4>2. th'[t].pc = "reassigncheck" /\ th'[t].sel = s /\ th'[t].e = th[t].e
        BY <1>0, <4>1 DEF ThreadT
      <4>3. s # << >>
        BY SelectionSome
      <4> QED BY <3>1, <3>3, <4>2, <4>3 DEF Bears
    <3>6. CASE ReassignCheck(t)
      <4>1. th' = [th EXCEPT ![t].pc = "inc"]
        BY <1>1, <3>3, <3>6 DEF ReassignCheck, Goto
      <4>2. th'[t].pc = "inc" /\ th'[t].e = th[t].e
        BY <1>0, <4>1 DEF ThreadT
      <4> QED BY <1>1, <3>3, <4>2 DEF Bears
    <3> QED BY <3>4, <3>5, <3>6
  <2> QED BY <1>c, <2>1, <2>2 DEF Carried
<1> QED BY <1>i, <1>q

LEMMA AddedCarries ==
    ASSUME TInv, NEW t \in Threads, NEW v \in Vectors, AddIndex(t, v)
    PROVE  Carried(v)'
<1>0. th \in [Threads -> ThreadT(Placed, Known)]
  BY DEF TInv, ThreadsT
<1>1. PICK s \in RNGSelection(NoHead) :
         th' = [th EXCEPT ![t] = [IdleThread EXCEPT !.pc = "next", !.sel = s, !.e = Entry(v, FirstVersion)]]
  BY DEF AddIndex
<1>2. th'[t].pc = "next" /\ th'[t].sel = s /\ th'[t].e = Entry(v, FirstVersion)
  BY <1>0, <1>1 DEF IdleThread
<1>3. version'[v] = FirstVersion
  BY DEF AddIndex, TInv, StoreT
<1>4. s # << >>
  BY SelectionSome
<1>5. Bears(t, v)'
  BY <1>2, <1>3, <1>4 DEF Bears, Valid
<1> QED BY <1>5 DEF Carried

LEMMA GotoFields ==
    ASSUME TInv, NEW t \in Threads, NEW p, Goto(t, p)
    PROVE  /\ th'[t].pc = p /\ th'[t].head = th[t].head /\ th'[t].parts = th[t].parts
           /\ th'[t].news = th[t].news /\ th'[t].other = th[t].other /\ th'[t].same = th[t].same
           /\ th'[t].reassign = th[t].reassign
BY DEF Goto, TInv, ThreadsT, ThreadT

LEMMA SplitBears ==
    ASSUME TInv, NEW t \in Threads, SplitStep(t), NEW v, version'[v] = version[v], Bears(t, v)
    PROVE  Carried(v)'
<1>1. Valid(v)' = Valid(v)
  BY DEF Valid
<1>2. th[t].pc \in {"split"} \cup SplitPcs
  BY SplitThread
<1>3. th[t].e = Valid(v) /\ th[t].ret = "append"
  BY <1>2 DEF Bears, SplitPcs
<1>4. CASE SplitReturn(t)
  <2>1. th'[t].pc = "append" /\ th'[t].e = th[t].e
    BY <1>3, <1>4, ReturnThread
  <2>2. Bears(t, v)'
    BY <1>1, <1>3, <2>1 DEF Bears
  <2> QED BY <2>2 DEF Carried
<1>5. CASE ~SplitReturn(t)
  <2>1. th'[t].pc \in SplitPcs /\ th'[t].e = th[t].e /\ th'[t].ret = th[t].ret
    BY <1>5, SplitThread
  <2>2. Bears(t, v)'
    BY <1>1, <1>3, <2>1 DEF Bears
  <2> QED BY <2>2 DEF Carried
<1> QED BY <1>4, <1>5

\* Split ends at once.
LEMMA SplitEntryKeep ==
    ASSUME Gentle, TInv, OrderInv, NEW t \in Threads, SplitStep(t), NEW v, Present(v),
           SplitMissing(t) \/ SplitCollectGarbage(t) \/ SplitOneCluster(t)
    PROVE  version'[v] = version[v] /\ Keeps(v)
<1>1. UNCHANGED <<version, head, translate, jobs>> /\ SplitReturn(t) /\ th[t].pc = "split"
  BY DEF SplitMissing, SplitCollectGarbage, SplitOneCluster, MayEnterSplit, store
<1>2. Moved(t) /\ HeadsForward
  BY SplitMoves, StepsForward DEF Step
<1>3. ~Handed(t, v) /\ ~Lifts(t, v) /\ ~Unsettled(t)'
  <2>1. th'[t].pc \in {"idle", "append", "next"}
    BY <1>1, ReturnFacts
  <2> QED BY <1>1, <2>1, IdleHands, IdleHandsNext DEF Splitting, Fusing, Lifts, Creating
<1>4. Relabels /\ \A h \in Visible : h \in Visible'
  BY <1>1 DEF Relabels, Visible
<1>5. Bears(t, v) => Carried(v)'
  BY <1>1, SplitBears
<1>6. ASSUME NEW h \in HeadIds, ListedAt(v, h)
      PROVE  Carried(v)'
  <2>1. Valid(v) \in Range(db[h]) /\ head'[h] = "visible"
    BY <1>1, <1>6 DEF ListedAt, Visible
  <2>2. db \in [HeadIds -> Seq(Known)] /\ db[h] \in Seq(Known)
    BY DEF TInv, StoreT
  <2>3. Valid(v) \in Range(Live(db[h]))
    BY <2>1, <2>2, LiveKeeps, PresentFacts
  <2>4. Valid(v) \in Range(db'[h])
    <3>1. CASE db'[h] = db[h]
      BY <2>1, <3>1
    <3>2. CASE SplitMissing(t)
      BY <2>1, <3>2 DEF SplitMissing, store
    <3>3. CASE SplitCollectGarbage(t) /\ h = th[t].head
      <4>1. db' = [db EXCEPT ![h] = Live(db[h])]
        BY <3>3 DEF SplitCollectGarbage
      <4> QED BY <2>2, <2>3, <4>1
    <3>4. CASE SplitOneCluster(t) /\ h = th[t].head
      <4> DEFINE cut == IF OneClusterCutMax THEN PostingSizeLimit ELSE 1
      <4>0. \E s \in [1 .. cut -> DOMAIN Live(db[th[t].head])] :
               db' = [db EXCEPT ![th[t].head] = [i \in 1 .. cut |-> Live(db[th[t].head])[s[i]]]]
        BY <3>4 DEF SplitOneCluster
      <4>a. Cardinality(Range(Live(db[th[t].head]))) = 1
        BY <3>4 DEF SplitOneCluster, Gentle
      <4>2. 1 \in 1 .. cut /\ cut \in Nat
        BY Configuration
      <4> HIDE DEF cut
      <4>b. PICK live : live = Live(db[h])
        OBVIOUS
      <4>c. PICK s \in [1 .. cut -> DOMAIN live] :
               db' = [db EXCEPT ![th[t].head] = [i \in 1 .. cut |-> Live(db[th[t].head])[s[i]]]]
        BY <3>4, <4>0, <4>b
      <4>1. Cardinality(Range(live)) = 1 /\ db' = [db EXCEPT ![h] = [i \in 1 .. cut |-> live[s[i]]]]
        BY <3>4, <4>a, <4>b, <4>c
      <4>3. db'[h] = [i \in 1 .. cut |-> live[s[i]]]
        BY <2>2, <4>1
      <4>4. db'[h][1] = live[s[1]] /\ s[1] \in DOMAIN live
        BY <4>c, <4>2, <4>3
      <4>5. live[s[1]] \in Range(live)
        BY <4>4 DEF Range
      <4>6. live \in Seq(Known)
        BY <2>2, <4>b, LiveFacts
      <4>7. \A x, y \in Range(live) : x = y
        <5>1. IsFiniteSet(Range(live))
          BY <4>6, RangeFinite
        <5>2. PICK x : Range(live) = {x}
          BY <4>1, <5>1, FS_Singleton
        <5> QED BY <5>2
      <4>8. live[s[1]] = Valid(v)
        BY <2>3, <4>b, <4>5, <4>7
      <4>9. 1 \in DOMAIN db'[h]
        BY <4>2, <4>3
      <4> QED BY <4>4, <4>8, <4>9 DEF Range
    <3>5. CASE h # th[t].head
      <4>1. UNCHANGED db \/ \E x : db' = [db EXCEPT ![th[t].head] = x]
        BY DEF SplitMissing, SplitCollectGarbage, SplitOneCluster, store
      <4>2. db'[h] = db[h]
        BY <2>2, <3>5, <4>1
      <4> QED BY <2>1, <4>2
    <3> QED BY <3>1, <3>2, <3>3, <3>4, <3>5
  <2> QED BY <1>1, <1>2, <1>3, <1>6, <2>1, <2>4, ListKept
<1> QED BY <1>1, <1>2, <1>3, <1>4, <1>5, <1>6, KeepStep

LEMMA SplitClustersKeep ==
    ASSUME TInv, OrderInv, NEW t \in Threads, SplitStep(t), NEW v, Present(v), SplitClusters(t)
    PROVE  version'[v] = version[v] /\ Keeps(v)
<1>0. th \in [Threads -> ThreadT(Placed, Known)] /\ th[t] \in ThreadT(Placed, Known)
  BY DEF TInv, ThreadsT
<1>1. UNCHANGED <<version, head, translate, jobs, db>> /\ th[t].pc = "split"
  BY DEF SplitClusters, MayEnterSplit, store
<1>2. Moved(t) /\ HeadsForward
  BY SplitMoves, StepsForward DEF Step
<1>3. ~Handed(t, v) /\ ~Lifts(t, v)
  BY <1>1, IdleHands DEF Splitting, Fusing, Lifts, Creating
<1>4. Relabels /\ \A h \in Visible : h \in Visible'
  BY <1>1 DEF Relabels, Visible
<1>5. Bears(t, v) => Carried(v)'
  BY <1>1, SplitBears
<1>h. th[t].head \in HeadIds
  BY <1>1, HeadOfThread DEF HeadPcs
<1>6. PICK live, S, k : /\ live = Live(db[th[t].head]) /\ S \subseteq Range(live)
                        /\ th' = [th EXCEPT ![t].pc = "cluster", ![t].same = k, ![t].news = << >>,
                                    ![t].parts = <<Filter(live, S), Filter(live, Range(live) \ S)>>]
  BY DEF SplitClusters
<1>7. /\ th'[t].pc = "cluster" /\ th'[t].news = << >> /\ th'[t].head = th[t].head
      /\ th'[t].parts = <<Filter(live, S), Filter(live, Range(live) \ S)>>
  BY <1>0, <1>6 DEF ThreadT
<1>8. ASSUME NEW h \in HeadIds, ListedAt(v, h)
      PROVE  Carried(v)'
  <2>1. Valid(v) \in Range(db[h]) /\ head'[h] = "visible"
    BY <1>1, <1>8 DEF ListedAt, Visible
  <2>2. db \in [HeadIds -> Seq(Known)] /\ db[h] \in Seq(Known)
    BY DEF TInv, StoreT
  <2>3. CASE h # th[t].head
    <3>1. Valid(v) \in Range(db'[h]) /\ th'[t].head # h
      BY <1>1, <1>7, <2>1, <2>3
    <3> QED BY <1>1, <1>2, <1>8, <2>1, <3>1, ListKept
  <2>4. CASE h = th[t].head
    <3>1. Valid(v) \in Range(live) /\ live \in Seq(Known)
      BY <1>6, <2>1, <2>2, <2>4, LiveKeeps, LiveFacts, PresentFacts
    <3>2. \/ Valid(v) \in Range(Filter(live, S))
          \/ Valid(v) \in Range(Filter(live, Range(live) \ S))
      BY <3>1, FilterKeeps
    <3>3. \E i \in 1 .. 2 : Valid(v) \in Range(th'[t].parts[i])
      <4>1. th'[t].parts[1] = Filter(live, S) /\ th'[t].parts[2] = Filter(live, Range(live) \ S)
        BY <1>7
      <4> QED BY <3>2, <4>1
    <3>4. \A i \in 1 .. 2 : i > Len(th'[t].news)
      BY <1>7
    <3>5. Valid(v)' = Valid(v) /\ th'[t].pc \in Splitting
      BY <1>1, <1>7 DEF Valid, Splitting
    <3>6. Handed(t, v)'
      BY <3>3, <3>4, <3>5 DEF Handed
    <3> QED BY <3>6 DEF Carried
  <2> QED BY <2>3, <2>4
<1> QED BY <1>1, <1>2, <1>3, <1>4, <1>5, <1>8, KeepStep

\* The phases of a split that write no list.
LEMMA SplitStays ==
    ASSUME NEW t \in Threads, th[t].pc \in Splitting, th'[t].pc \in Splitting, NEW v, version'[v] = version[v],
           th'[t].head = th[t].head, th'[t].parts = th[t].parts, th'[t].news = th[t].news,
           th'[t].same = th[t].same
    PROVE  /\ Handed(t, v) => Carried(v)'
           /\ \A h : ListedAt(v, h) /\ Unsettled(t)' => th'[t].head # h
<1>0. Valid(v)' = Valid(v) /\ th[t].pc \notin Fusing
  BY DEF Valid, Splitting, Fusing
<1>1. ASSUME Handed(t, v) PROVE Handed(t, v)'
  <2>1. PICK i \in 1 .. 2 : i > Len(th[t].news) /\ Valid(v) \in Range(th[t].parts[i])
    BY <1>0, <1>1 DEF Handed
  <2>2. i > Len(th'[t].news) /\ Valid(v)' \in Range(th'[t].parts[i])
    BY <1>0, <2>1
  <2> QED BY <2>2 DEF Handed
<1>2. Unsettled(t)' => Unsettled(t)
  BY DEF Unsettled, Splitting, Fusing
<1> QED BY <1>1, <1>2 DEF Carried, ListedAt, Settled

\* The number of lists that a split has written, and what remains in its hands.
LEMMA SplitCount ==
    ASSUME TInv, NEW t \in Threads, th[t].pc \in Splitting
    PROVE  \E n \in 0 .. 2 :
              /\ n = Len(th[t].news) /\ Cluster(t) = n + 1
              /\ th[t].same \in 0 .. 2 /\ th[t].news \in Seq(Placed)
              /\ th[t].head \in Placed /\ th[t].head \in HeadIds
              /\ \A v : Handed(t, v) <=> \E i \in 1 .. 2 : i > n /\ Valid(v) \in Range(th[t].parts[i])
              /\ Unsettled(t) <=> th[t].same = 0 \/ n < th[t].same
<1>1. th[t].news \in Seq(Placed) /\ th[t].same \in 0 .. 2 /\ Len(th[t].news) <= 2
  <2>1. th[t] \in ThreadT(Placed, Known) /\ Shape(th[t])
    BY DEF TInv, ThreadsT
  <2>2. th[t].news \in Seq(Placed) /\ th[t].same \in 0 .. 2
    BY <2>1 DEF ThreadT
  <2>3. CASE th[t].pc = "cluster"
    BY <2>1, <2>2, <2>3 DEF Shape
  <2>4. CASE th[t].pc \in Creating
    <3>1. Len(th[t].news) <= 1 /\ Len(th[t].news) \in Nat
      BY <2>1, <2>2, <2>4 DEF Shape
    <3> QED BY <2>2, <3>1
  <2> QED BY <2>3, <2>4 DEF Splitting, Creating
<1>2. PICK n \in 0 .. 2 : n = Len(th[t].news)
  <2>1. Len(th[t].news) \in Nat
    BY <1>1
  <2>2. PICK n \in Nat : n = Len(th[t].news)
    BY <2>1
  <2>3. n <= 2
    BY <1>1, <2>2, Zenon
  <2>4. n \in 0 .. 2
    BY <2>3
  <2> QED BY <2>2, <2>4
<1>3. th[t].head \in Placed /\ th[t].head \in HeadIds
  BY HeadOfThread DEF HeadPcs, SplitPcs, Splitting
<1>4. th[t].pc \notin Fusing
  BY DEF Splitting, Fusing
<1>5. \A v : Handed(t, v) <=> \E i \in 1 .. 2 : i > n /\ Valid(v) \in Range(th[t].parts[i])
  BY <1>2, <1>4 DEF Handed
<1>6. Unsettled(t) <=> th[t].same = 0 \/ n < th[t].same
  BY <1>2, <1>4 DEF Unsettled
<1> QED BY <1>1, <1>2, <1>3, <1>5, <1>6 DEF Cluster

\* A list is written: what was in hand beyond it stays in hand.
LEMMA SplitAdvances ==
    ASSUME NEW t \in Threads, NEW n \in 0 .. 2, th'[t].pc = "cluster", th'[t].parts = th[t].parts,
           Len(th'[t].news) = n + 1, NEW v, version'[v] = version[v],
           NEW i \in 1 .. 2, i > n + 1, Valid(v) \in Range(th[t].parts[i])
    PROVE  Carried(v)'
<1>1. Valid(v)' = Valid(v) /\ th'[t].pc \in Splitting
  BY DEF Valid, Splitting
<1>2. i > Len(th'[t].news) /\ Valid(v)' \in Range(th'[t].parts[i])
  BY <1>1
<1>3. Handed(t, v)'
  BY <1>1, <1>2 DEF Handed
<1> QED BY <1>3 DEF Carried

LEMMA SplitSameHeadKeep ==
    ASSUME TInv, LockInv, OrderInv, NEW t \in Threads, SplitStep(t), NEW v, Present(v), SplitSameHead(t)
    PROVE  version'[v] = version[v] /\ Keeps(v)
<1>0. th \in [Threads -> ThreadT(Placed, Known)] /\ th[t] \in ThreadT(Placed, Known) /\ Ordered(t)
  BY DEF TInv, ThreadsT, OrderInv
<1>1. UNCHANGED <<version, head, translate, jobs>> /\ th[t].pc = "cluster" /\ Cluster(t) = th[t].same
  BY DEF SplitSameHead
<1>2. Moved(t) /\ HeadsForward
  BY SplitMoves, StepsForward DEF Step
<1>s. th[t].pc \in Splitting
  BY <1>1 DEF Splitting
<1>n. PICK n \in 0 .. 2 :
              /\ n = Len(th[t].news) /\ Cluster(t) = n + 1
              /\ th[t].same \in 0 .. 2 /\ th[t].news \in Seq(Placed)
              /\ th[t].head \in Placed /\ th[t].head \in HeadIds
              /\ Handed(t, v) <=> \E i \in 1 .. 2 : i > n /\ Valid(v) \in Range(th[t].parts[i])
              /\ Unsettled(t) <=> th[t].same = 0 \/ n < th[t].same
  BY <1>s, SplitCount
<1>c. PICK h \in HeadIds : h = th[t].head
  BY <1>n
<1>3. ~Lifts(t, v)
  BY <1>1 DEF Lifts, Creating
<1>4. Relabels /\ \A k \in Visible : k \in Visible'
  BY <1>1 DEF Relabels, Visible
<1>5. Bears(t, v) => Carried(v)'
  BY <1>1, SplitBears
<1>6. th' = [th EXCEPT ![t].news = Append(@, th[t].head)] /\ db' = [db EXCEPT ![h] = th[t].parts[n + 1]]
  BY <1>c, <1>n DEF SplitSameHead
<1>7. th'[t].pc = "cluster" /\ th'[t].head = h /\ th'[t].parts = th[t].parts /\ th'[t].same = n + 1
      /\ th'[t].news = Append(th[t].news, h)
  BY <1>0, <1>1, <1>6, <1>c, <1>n DEF ThreadT
<1>8. Len(th'[t].news) = n + 1
  BY <1>7, <1>n, <1>c
<1>9. ~Unsettled(t)'
  <2>1. th'[t].pc \notin Fusing /\ n + 1 # 0 /\ ~(n + 1 < n + 1)
    BY <1>7 DEF Fusing
  <2> QED BY <1>7, <1>8, <2>1 DEF Unsettled
<1>d. db \in [HeadIds -> Seq(Known)]
  BY DEF TInv, StoreT
<1>10. ASSUME Handed(t, v) PROVE Carried(v)'
  <2>1. PICK i \in 1 .. 2 : i > n /\ Valid(v) \in Range(th[t].parts[i])
    BY <1>10, <1>n
  <2>2. CASE i > n + 1
    BY <1>1, <1>7, <1>8, <2>1, <2>2, SplitAdvances
  <2>3. CASE ~(i > n + 1)
    <3>1. i = n + 1
      BY <2>1, <2>3
    <3>2. Valid(v) \in Range(db'[h])
      BY <1>6, <1>d, <2>1, <3>1
    <3>3. head'[h] = "visible"
      BY <1>0, <1>1, <1>c, <1>s DEF Ordered
    <3>4. MayWrite(t, h)
      <4>1. Holding(th[t])
        BY <1>1 DEF Holding
      <4> QED BY <1>c, <4>1, OwnLock
    <3> QED BY <1>1, <1>2, <1>9, <3>2, <3>3, <3>4, ListNew
  <2> QED BY <2>2, <2>3
<1>11. ASSUME NEW k \in HeadIds, ListedAt(v, k)
       PROVE  Carried(v)'
  <2>1. Unsettled(t)
    BY <1>1, <1>n
  <2>2. k # h
    BY <1>11, <1>c, <2>1 DEF ListedAt, Settled
  <2>3. db'[k] = db[k] /\ head'[k] = "visible"
    BY <1>1, <1>6, <1>d, <1>11, <2>2 DEF ListedAt, Visible
  <2>4. Valid(v) \in Range(db'[k])
    BY <1>11, <2>3 DEF ListedAt
  <2> QED BY <1>1, <1>2, <1>9, <1>11, <2>3, <2>4, ListKept
<1> QED BY <1>1, <1>2, <1>3, <1>4, <1>5, <1>10, <1>11, KeepStep

LEMMA SplitNewHeadKeep ==
    ASSUME TInv, OrderInv, NEW t \in Threads, SplitStep(t), NEW v, Present(v), SplitNewHead(t)
    PROVE  version'[v] = version[v] /\ Keeps(v)
<1>0. th \in [Threads -> ThreadT(Placed, Known)] /\ th[t] \in ThreadT(Placed, Known)
  BY DEF TInv, ThreadsT
<1>1. UNCHANGED <<version, db, jobs>> /\ th[t].pc = "cluster"
  BY DEF SplitNewHead
<1>2. Moved(t) /\ HeadsForward
  BY SplitMoves, StepsForward DEF Step
<1>s. th[t].pc \in Splitting
  BY <1>1 DEF Splitting
<1>n. PICK n, x, p :
         /\ n \in HeadIds /\ p \in {"center", "put"}
         /\ head[n] = "free" /\ head' = [head EXCEPT ![n] = "added"]
         /\ translate' = [translate EXCEPT ![n] = x]
         /\ th' = [th EXCEPT ![t].other = n, ![t].pc = p]
  <2>1. NumSamples \in HeadIds /\ head[NumSamples] = "free"
    BY NextHead, Configuration DEF SplitNewHead, HeadIds
  <2>2. PICK n \in HeadIds : n = NumSamples /\ head[n] = "free"
    BY <2>1
  <2>3. head' = [head EXCEPT ![n] = "added"]
    BY <2>2 DEF SplitNewHead
  <2>4. PICK x : /\ translate' = [translate EXCEPT ![NumSamples] = x]
                 /\ th' = [th EXCEPT ![t].other = NumSamples,
                                     ![t].pc = IF ExcludeHead /\ ~Deleted(x) THEN "center" ELSE "put"]
    BY DEF SplitNewHead
  <2>5. PICK p \in {"center", "put"} : p = IF ExcludeHead /\ ~Deleted(x) THEN "center" ELSE "put"
    OBVIOUS
  <2>6. translate' = [translate EXCEPT ![n] = x] /\ th' = [th EXCEPT ![t].other = n, ![t].pc = p]
    BY <2>2, <2>4, <2>5
  <2> QED BY <2>2, <2>3, <2>6
<1>3. ~Lifts(t, v)
  BY <1>1 DEF Lifts, Creating
<1>4. Relabels /\ \A k \in Visible : k \in Visible'
  BY <1>n DEF Relabels, Visible, TInv, StoreT
<1>5. Bears(t, v) => Carried(v)'
  BY <1>1, SplitBears
<1>6. /\ th'[t].pc \in Splitting /\ th'[t].head = th[t].head /\ th'[t].parts = th[t].parts
      /\ th'[t].news = th[t].news /\ th'[t].same = th[t].same
  BY <1>0, <1>n DEF ThreadT, Splitting
<1>7. /\ Handed(t, v) => Carried(v)'
      /\ \A h : ListedAt(v, h) /\ Unsettled(t)' => th'[t].head # h
  BY <1>1, <1>s, <1>6, SplitStays
<1>8. ASSUME NEW k \in HeadIds, ListedAt(v, k)
      PROVE  Carried(v)'
  <2>1. Valid(v) \in Range(db'[k]) /\ head'[k] = "visible"
    BY <1>1, <1>4, <1>8 DEF ListedAt, Visible
  <2> QED BY <1>1, <1>2, <1>7, <1>8, <2>1, ListKept
<1> QED BY <1>1, <1>2, <1>3, <1>4, <1>5, <1>7, <1>8, KeepStep

\* The version of the vector that becomes the head.
LEMMA SplitIncKeep ==
    ASSUME TInv, OrderInv, NEW t \in Threads, SplitStep(t), NEW v, Present(v), SplitIncVersion(t)
    PROVE  (version'[v] = version[v] /\ Keeps(v)) \/ Lifted(v)'
<1>1. /\ UNCHANGED <<head, translate, db, jobs>> /\ th[t].pc = "center" /\ Goto(t, "put")
      /\ version' = [version EXCEPT ![translate[th[t].other]] = Successor(@)]
  BY DEF SplitIncVersion, IncVersion
<1>2. Moved(t) /\ HeadsForward
  BY SplitMoves, StepsForward DEF Step
<1>3. /\ th'[t].pc = "put" /\ th'[t].head = th[t].head /\ th'[t].parts = th[t].parts
      /\ th'[t].news = th[t].news /\ th'[t].same = th[t].same /\ th'[t].other = th[t].other
  BY <1>1, GotoFields
<1>4. CASE translate[th[t].other] = v
  <2>1. Lifts(t, v)'
    BY <1>1, <1>3, <1>4 DEF Lifts, Creating
  <2> QED BY <2>1 DEF Lifted
<1>5. CASE translate[th[t].other] # v
  <2>1. version'[v] = version[v]
    BY <1>1, <1>5 DEF Present, TInv, StoreT
  <2>2. ~Lifts(t, v)
    BY <1>1, <1>5 DEF Lifts, Creating
  <2>3. Relabels /\ \A k \in Visible : k \in Visible'
    BY <1>1 DEF Relabels, Visible
  <2>4. Bears(t, v) => Carried(v)'
    BY <2>1, SplitBears
  <2>5. th[t].pc \in Splitting /\ th'[t].pc \in Splitting
    BY <1>1, <1>3 DEF Splitting
  <2>6. /\ Handed(t, v) => Carried(v)'
        /\ \A h : ListedAt(v, h) /\ Unsettled(t)' => th'[t].head # h
    BY <1>3, <2>1, <2>5, SplitStays
  <2>7. ASSUME NEW k \in HeadIds, ListedAt(v, k)
        PROVE  Carried(v)'
    <3>1. Valid(v) \in Range(db'[k]) /\ head'[k] = "visible"
      BY <1>1, <2>7 DEF ListedAt, Visible
    <3> QED BY <1>2, <2>1, <2>6, <2>7, <3>1, ListKept
  <2>8. Keeps(v)
    BY <1>1, <1>2, <2>1, <2>2, <2>3, <2>4, <2>6, <2>7, KeepStep
  <2> QED BY <2>1, <2>8
<1> QED BY <1>4, <1>5

LEMMA SplitPutKeep ==
    ASSUME TInv, OrderInv, NEW t \in Threads, SplitStep(t), NEW v, Present(v), SplitPut(t)
    PROVE  version'[v] = version[v] /\ Keeps(v)
<1>1. /\ UNCHANGED <<head, translate, version, jobs>> /\ th[t].pc = "put" /\ Goto(t, "addrow")
      /\ \E x : db' = [db EXCEPT ![th[t].other] = x]
  BY DEF SplitPut
<1>2. Moved(t) /\ HeadsForward
  BY SplitMoves, StepsForward DEF Step
<1>3. /\ th'[t].pc = "addrow" /\ th'[t].head = th[t].head /\ th'[t].parts = th[t].parts
      /\ th'[t].news = th[t].news /\ th'[t].same = th[t].same /\ th'[t].other = th[t].other
  BY <1>1, GotoFields
<1>4. head[th[t].other] = "added"
  BY <1>1 DEF TInv, Pending, Creating
<1>5. ASSUME Lifts(t, v) PROVE Lifted(v)'
  <2>1. translate[th[t].other] = v
    BY <1>1, <1>5 DEF Lifts
  <2>2. Lifts(t, v)'
    BY <1>1, <1>3, <2>1 DEF Lifts, Creating
  <2> QED BY <2>2 DEF Lifted
<1>6. Relabels /\ \A k \in Visible : k \in Visible'
  BY <1>1 DEF Relabels, Visible
<1>7. Bears(t, v) => Carried(v)'
  BY <1>1, SplitBears
<1>8. th[t].pc \in Splitting /\ th'[t].pc \in Splitting
  BY <1>1, <1>3 DEF Splitting
<1>9. /\ Handed(t, v) => Carried(v)'
      /\ \A h : ListedAt(v, h) /\ Unsettled(t)' => th'[t].head # h
  BY <1>1, <1>3, <1>8, SplitStays
<1>10. ASSUME NEW k \in HeadIds, ListedAt(v, k)
       PROVE  Carried(v)'
  <2>1. head[k] = "visible" /\ Valid(v) \in Range(db[k])
    BY <1>10 DEF ListedAt, Visible
  <2>2. k # th[t].other
    BY <1>4, <2>1
  <2>3. db'[k] = db[k]
    BY <1>1, <2>2 DEF TInv, StoreT
  <2>4. Valid(v) \in Range(db'[k]) /\ head'[k] = "visible"
    BY <1>1, <2>1, <2>3
  <2> QED BY <1>1, <1>2, <1>9, <1>10, <2>4, ListKept
<1> QED BY <1>1, <1>2, <1>5, <1>6, <1>7, <1>9, <1>10, KeepStep

\* The new head becomes visible, with the list that was written for it.
LEMMA SplitAddRowKeep ==
    ASSUME TInv, SizeInv, OrderInv, NEW t \in Threads, SplitStep(t), NEW v, Present(v), SplitAddRow(t)
    PROVE  version'[v] = version[v] /\ Keeps(v)
<1>0. th \in [Threads -> ThreadT(Placed, Known)] /\ th[t] \in ThreadT(Placed, Known)
  BY DEF TInv, ThreadsT
<1>1. UNCHANGED <<version, translate, db, jobs>> /\ th[t].pc = "addrow"
  BY DEF SplitAddRow
<1>2. Moved(t) /\ HeadsForward
  BY SplitMoves, StepsForward DEF Step
<1>s. th[t].pc \in Splitting /\ th[t].pc \in Creating
  BY <1>1 DEF Splitting, Creating
<1>n. PICK n \in 0 .. 2 :
              /\ n = Len(th[t].news) /\ Cluster(t) = n + 1
              /\ th[t].same \in 0 .. 2 /\ th[t].news \in Seq(Placed)
              /\ th[t].head \in Placed /\ th[t].head \in HeadIds
              /\ Handed(t, v) <=> \E i \in 1 .. 2 : i > n /\ Valid(v) \in Range(th[t].parts[i])
              /\ Unsettled(t) <=> th[t].same = 0 \/ n < th[t].same
  BY <1>s, SplitCount
<1>o. PICK o \in HeadIds : o = th[t].other /\ head[o] = "added"
  BY <1>s DEF TInv, ThreadsT, Shape, Pending
<1>3. head' = [head EXCEPT ![o] = "visible"] /\ th' = [th EXCEPT ![t].pc = "cluster", ![t].news = Append(@, o)]
  BY <1>o DEF SplitAddRow
<1>h. head \in [HeadIds -> {"free", "added", "visible", "deleted"}]
  BY DEF TInv, StoreT
<1>4. head'[o] = "visible" /\ \A k \in HeadIds : head[k] = "visible" => head'[k] = "visible"
  BY <1>3, <1>h
<1>5. Relabels /\ \A k \in Visible : k \in Visible'
  BY <1>1, <1>4 DEF Relabels, Visible
<1>6. /\ th'[t].pc = "cluster" /\ th'[t].head = th[t].head /\ th'[t].parts = th[t].parts
      /\ th'[t].same = th[t].same /\ th'[t].news = Append(th[t].news, o)
  BY <1>0, <1>3 DEF ThreadT
<1>7. Len(th'[t].news) = n + 1
  <2>1. th[t].news \in Seq(HeadIds)
    BY <1>n, SeqMono DEF Placed
  <2> QED BY <1>6, <1>n, <2>1
<1>8. Bears(t, v) => Carried(v)'
  BY <1>1, SplitBears
<1>9. ASSUME Lifts(t, v) PROVE Lifted(v)'
  <2>1. translate[o] = v
    BY <1>1, <1>9, <1>o DEF Lifts
  <2>2. o \in Visible' /\ translate'[o] = v
    BY <1>1, <1>4, <2>1 DEF Visible
  <2>3. Crowned(v)'
    BY <2>2 DEF Crowned
  <2> QED BY <2>3 DEF Lifted
<1>10. ASSUME Handed(t, v) PROVE Carried(v)'
  <2>1. PICK i \in 1 .. 2 : i > n /\ Valid(v) \in Range(th[t].parts[i])
    BY <1>10, <1>n
  <2>2. CASE i > n + 1
    BY <1>1, <1>6, <1>7, <2>1, <2>2, SplitAdvances
  <2>3. CASE ~(i > n + 1)
    <3>1. i = n + 1
      BY <2>1, <2>3
    <3>2. db[o] = th[t].parts[n + 1]
      BY <1>1, <1>n, <1>o DEF SizeInv
    <3>3. Valid(v)' = Valid(v) /\ Valid(v)' \in Range(db'[o])
      BY <1>1, <2>1, <3>1, <3>2 DEF Valid
    <3>4. ASSUME NEW u \in Threads, Unsettled(u)'
          PROVE  th'[u].head # o
      <4>1. \A k \in Placed : k # o
        BY <1>o DEF Placed
      <4>2. CASE u = t
        BY <1>6, <1>n, <4>1, <4>2
      <4>3. CASE u # t
        <5>1. th'[u] = th[u]
          BY <1>2, <4>3 DEF Moved
        <5>2. Unsettled(u)
          BY <3>4, <5>1 DEF Unsettled
        <5>3. th[u].head \in Placed
          BY <5>2, UnsettledHolds
        <5> QED BY <4>1, <5>1, <5>3
      <4> QED BY <4>2, <4>3
    <3>5. Settled(o)' /\ o \in Visible'
      BY <1>4, <3>4 DEF Settled, Visible
    <3>6. ListedAt(v, o)'
      BY <3>3, <3>5 DEF ListedAt
    <3> QED BY <3>6 DEF Carried, Listed
  <2> QED BY <2>2, <2>3
<1>11. ASSUME NEW k \in HeadIds, ListedAt(v, k)
       PROVE  Carried(v)'
  <2>1. Valid(v) \in Range(db'[k]) /\ head'[k] = "visible"
    BY <1>1, <1>4, <1>11 DEF ListedAt, Visible
  <2>2. ASSUME Unsettled(t)' PROVE th'[t].head # k
    <3>1. th[t].same = 0 \/ n + 1 < th[t].same
      BY <1>6, <1>7, <2>2 DEF Unsettled, Splitting, Fusing
    <3>2. PICK m \in 0 .. 2 : m = th[t].same
      BY <1>n
    <3>3. m = 0 \/ n < m
      BY <3>1, <3>2
    <3>4. Unsettled(t)
      BY <1>n, <3>2, <3>3
    <3> QED BY <1>6, <1>11, <3>4 DEF ListedAt, Settled
  <2> QED BY <1>1, <1>2, <1>11, <2>1, <2>2, ListKept
<1> QED BY <1>1, <1>2, <1>5, <1>8, <1>9, <1>10, <1>11, KeepStep

\* A vector that is a head has a job for its return when the head is removed.
LEMMA ReturnOrdered ==
    ASSUME Gentle, TInv, OrderInv, NEW t \in Threads, th[t].pc \in SplitPcs \cup MergePcs,
           NEW v, Present(v), NEW h \in HeadIds, translate[h] = v
    PROVE  ExcludeHead /\ th[t].reassign = TRUE
<1>1. v # NoVector
  BY PresentFacts
<1>2. ExcludeHead
  BY <1>1 DEF OrderInv, LabelsInv
<1>3. th[t].reassign = ~DisableReassign
  BY DEF OrderInv, Ordered
<1> QED BY <1>2, <1>3, Configuration DEF Gentle

LEMMA SplitOldHeadKeep ==
    ASSUME Gentle, TInv, OrderInv, NEW t \in Threads, SplitStep(t), NEW v, Present(v), SplitOldHead(t)
    PROVE  version'[v] = version[v] /\ Keeps(v)
<1>1. UNCHANGED <<version, translate, jobs>> /\ th[t].pc = "cluster" /\ Cluster(t) = 3 /\ Goto(t, "erase")
  BY DEF SplitOldHead
<1>2. Moved(t) /\ HeadsForward
  BY SplitMoves, StepsForward DEF Step
<1>s. th[t].pc \in Splitting
  BY <1>1 DEF Splitting
<1>n. PICK n \in 0 .. 2 :
              /\ n = Len(th[t].news) /\ Cluster(t) = n + 1
              /\ th[t].same \in 0 .. 2 /\ th[t].news \in Seq(Placed)
              /\ th[t].head \in Placed /\ th[t].head \in HeadIds
              /\ Handed(t, v) <=> \E i \in 1 .. 2 : i > n /\ Valid(v) \in Range(th[t].parts[i])
              /\ Unsettled(t) <=> th[t].same = 0 \/ n < th[t].same
  BY <1>s, SplitCount
<1>c. PICK h \in HeadIds : h = th[t].head
  BY <1>n
<1>3. ~Lifts(t, v)
  BY <1>1 DEF Lifts, Creating
<1>4. ~Handed(t, v)
  <2>0. n + 1 = 3
    BY <1>1, <1>n, Zenon
  <2>1. n = 2
    BY <2>0
  <2>2. \A i \in 1 .. 2 : ~(i > n)
    BY <2>1
  <2> QED BY <1>n, <2>2
<1>5. Bears(t, v) => Carried(v)'
  BY <1>1, SplitBears
<1>6. /\ th'[t].pc = "erase" /\ th'[t].head = h /\ th'[t].same = th[t].same
      /\ th'[t].reassign = th[t].reassign
  BY <1>1, <1>c, GotoFields
<1>7. ~Unsettled(t)'
  BY <1>6, IdleHandsNext DEF Splitting, Fusing
<1>8. Relabels
  BY <1>1 DEF Relabels
<1>h. head \in [HeadIds -> {"free", "added", "visible", "deleted"}] /\ db \in [HeadIds -> Seq(Known)]
  BY DEF TInv, StoreT
<1>9. CASE th[t].same = 0
  <2>1. head' = [head EXCEPT ![h] = "deleted"] /\ db' = [db EXCEPT ![h] = << >>]
    BY <1>9, <1>c DEF SplitOldHead, RemoveHead
  <2>2. \A k \in HeadIds : k # h => head'[k] = head[k] /\ db'[k] = db[k]
    BY <1>h, <2>1
  <2>3. ASSUME NEW k \in Visible, translate[k] = v
        PROVE  k \in Visible' \/ Lifted(v)'
    <3>1. CASE k # h
      BY <2>2, <3>1 DEF Visible
    <3>2. CASE k = h
      <4>1. th[t].reassign = TRUE
        BY <1>1, <2>3, <3>2, ReturnOrdered DEF SplitPcs
      <4>2. Lifts(t, v)'
        BY <1>1, <1>6, <1>9, <2>3, <3>2, <4>1 DEF Lifts
      <4> QED BY <4>2 DEF Lifted
    <3> QED BY <3>1, <3>2
  <2>4. ASSUME NEW k \in HeadIds, ListedAt(v, k)
        PROVE  Carried(v)'
    <3>1. k # h
      BY <1>9, <1>c, <1>n, <2>4 DEF ListedAt, Settled
    <3>2. Valid(v) \in Range(db'[k]) /\ head'[k] = "visible"
      BY <2>2, <2>4, <3>1 DEF ListedAt, Visible
    <3> QED BY <1>1, <1>2, <1>7, <2>4, <3>2, ListKept
  <2> QED BY <1>1, <1>2, <1>3, <1>4, <1>5, <1>8, <2>3, <2>4, KeepStep
<1>10. CASE th[t].same # 0
  <2>1. UNCHANGED <<head, db>>
    BY <1>10 DEF SplitOldHead
  <2>2. \A k \in Visible : k \in Visible'
    BY <2>1 DEF Visible
  <2>3. ASSUME NEW k \in HeadIds, ListedAt(v, k)
        PROVE  Carried(v)'
    <3>1. Valid(v) \in Range(db'[k]) /\ head'[k] = "visible"
      BY <2>1, <2>3 DEF ListedAt, Visible
    <3> QED BY <1>1, <1>2, <1>7, <2>3, <3>1, ListKept
  <2> QED BY <1>1, <1>2, <1>3, <1>4, <1>5, <1>8, <2>2, <2>3, KeepStep
<1> QED BY <1>9, <1>10

\* The job of a removed head's vector is one that Awaits the vector.
LEMMA HeadVectorWaits ==
    ASSUME TInv, OrderInv, NEW v, Present(v), ExcludeHead, NEW h \in HeadIds, translate[h] = v,
           UNCHANGED version, Range(HeadVectorJob(h)) \subseteq Range(jobs')
    PROVE  Lifted(v)'
<1>1. PICK j : j = ReassignJob(Valid(v), NoHead)
  OBVIOUS
<1>2. HeadVectorJob(h) = <<j>>
  BY <1>1, PresentFacts DEF HeadVectorJob, Valid
<1>3. j \in Range(HeadVectorJob(h))
  BY <1>2 DEF Range
<1>4. j.type = "reassign" /\ j.e = Valid(v) /\ j.prev = NoHead
  BY <1>1 DEF ReassignJob
<1>5. Awaits(j, v)'
  BY <1>4, NoHeadHidden DEF Awaits, Valid
<1>6. Awaited(v)'
  BY <1>3, <1>5 DEF Awaited
<1> QED BY <1>6 DEF Lifted

LEMMA SplitLastKeep ==
    ASSUME Gentle, TInv, OrderInv, NEW t \in Threads, SplitStep(t), NEW v, Present(v),
           SplitErase(t) \/ CollectReAssign(t)
    PROVE  version'[v] = version[v] /\ Keeps(v)
<1>1. /\ UNCHANGED <<version, translate, head, db>> /\ th[t].pc \in {"erase", "collect"}
      /\ SplitReturn(t) \/ (SplitErase(t) /\ th[t].reassign /\ Goto(t, "collect"))
  BY DEF SplitErase, CollectReAssign, store
<1>2. Moved(t) /\ HeadsForward
  BY SplitMoves, StepsForward DEF Step
<1>3. th'[t].pc \in {"idle", "append", "next", "collect"}
  BY <1>1, ReturnFacts, GotoFields
<1>4. ~Handed(t, v) /\ ~Unsettled(t)'
  BY <1>1, <1>3, IdleHands, IdleHandsNext DEF Splitting, Fusing
<1>5. Bears(t, v) => Carried(v)'
  BY <1>1, SplitBears
<1>6. Relabels /\ \A k \in Visible : k \in Visible'
  BY <1>1 DEF Relabels, Visible
<1>7. ASSUME NEW k \in HeadIds, ListedAt(v, k)
      PROVE  Carried(v)'
  <2>1. Valid(v) \in Range(db'[k]) /\ head'[k] = "visible"
    BY <1>1, <1>7 DEF ListedAt, Visible
  <2> QED BY <1>1, <1>2, <1>4, <1>7, <2>1, ListKept
<1>h. th[t].head \in HeadIds
  BY <1>1, HeadOfThread DEF HeadPcs, SplitPcs
<1>8. Range(jobs) \subseteq Range(jobs') /\ (Lifts(t, v) => Lifted(v)')
  <2>1. CASE SplitErase(t)
    <3>1. UNCHANGED jobs /\ th[t].pc = "erase"
      BY <2>1 DEF SplitErase
    <3>2. ASSUME Lifts(t, v) PROVE Lifted(v)'
      <4>1. th[t].reassign /\ th[t].same = 0 /\ translate[th[t].head] = v
        BY <3>1, <3>2 DEF Lifts, Creating
      <4>2. Goto(t, "collect")
        BY <2>1, <4>1 DEF SplitErase
      <4>3. /\ th'[t].pc = "collect" /\ th'[t].head = th[t].head /\ th'[t].same = th[t].same
            /\ th'[t].reassign = th[t].reassign
        BY <4>2, GotoFields
      <4>4. Lifts(t, v)'
        BY <1>1, <4>1, <4>3 DEF Lifts
      <4> QED BY <4>4 DEF Lifted
    <3> QED BY <3>1, <3>2
  <2>2. CASE CollectReAssign(t)
    <3>1. PICK A, B \in Seq(ReassignT(Placed, Known)) :
             jobs' = jobs \o A \o B /\ (th[t].same = 0 => A = HeadVectorJob(th[t].head))
      BY <2>2, CollectJobs
    <3>2. Range(jobs') = Range(jobs) \cup Range(A) \cup Range(B)
      BY <3>1, QueueGrows
    <3>3. ASSUME Lifts(t, v) PROVE Lifted(v)'
      <4>1. th[t].same = 0 /\ translate[th[t].head] = v
        BY <1>1, <3>3 DEF Lifts, Creating
      <4>2. PICK h \in HeadIds : h = th[t].head
        BY <1>h
      <4>3. ExcludeHead
        BY <1>1, <4>1, <4>2, ReturnOrdered DEF SplitPcs
      <4>4. Range(HeadVectorJob(h)) \subseteq Range(jobs')
        BY <3>1, <3>2, <4>1, <4>2
      <4> QED BY <1>1, <4>1, <4>2, <4>3, <4>4, HeadVectorWaits
    <3> QED BY <3>2, <3>3
  <2> QED BY <2>1, <2>2
<1> QED BY <1>1, <1>2, <1>4, <1>5, <1>6, <1>7, <1>8, KeepStep

LEMMA SplitKeep ==
    ASSUME Gentle, TInv, LockInv, SizeInv, OrderInv, NEW t \in Threads, SplitStep(t), NEW v, Present(v)
    PROVE  (version'[v] = version[v] /\ Keeps(v)) \/ Lifted(v)'
<1>1. ~IoFails
  BY DEF Gentle
<1> QED BY <1>1, SplitEntryKeep, SplitClustersKeep, SplitSameHeadKeep, SplitNewHeadKeep, SplitIncKeep,
        SplitPutKeep, SplitAddRowKeep, SplitOldHeadKeep, SplitLastKeep
        DEF SplitStep, SplitFails, SplitPutFails, SplitDeleteFails

\* A thread that merges bears no entry.
LEMMA MergerBears ==
    ASSUME NEW t, th[t].pc \in MergePcs, NEW v
    PROVE  ~Bears(t, v)
BY DEF Bears, MergePcs, SplitPcs

\* A merge starts, or ends before it has a candidate: its posting is compacted at most.
LEMMA MergeEntryKeep ==
    ASSUME Gentle, TInv, OrderInv, NEW t \in Threads, t \in Workers, MergeStep(t), NEW v, Present(v),
           MergeBegin(t) \/ MergeAbandon(t) \/ MergeNotNeeded(t)
    PROVE  Keeps(v) /\ th'[t].pc \notin Fusing
<1>1. UNCHANGED <<version, head, translate, jobs>> /\ th[t].pc \in {"merge", "mergelock"}
  BY DEF MergeBegin, MergeAbandon, MergeNotNeeded, store
<1>2. Moved(t) /\ HeadsForward /\ th[t].pc \in MergePcs
  BY MergeMoves, StepsForward DEF Step
<1>3. th'[t].pc \in {"mergelock", "idle"}
  <2>1. Finish(t) => th'[t].pc = "idle"
    BY FinishFacts DEF IdleThread
  <2>2. MergeBegin(t) => th'[t].pc = "mergelock"
    BY GotoFacts DEF MergeBegin
  <2> QED BY <2>1, <2>2 DEF MergeAbandon, MergeNotNeeded
<1>4. ~Handed(t, v) /\ ~Unsettled(t)' /\ ~Bears(t, v) /\ ~Lifts(t, v)
  BY <1>1, <1>2, <1>3, IdleHands, IdleHandsNext, MergerBears DEF Splitting, Fusing, Lifts, Creating
<1>5. Relabels /\ \A k \in Visible : k \in Visible'
  BY <1>1 DEF Relabels, Visible
<1>6. ASSUME NEW k \in HeadIds, ListedAt(v, k)
      PROVE  Carried(v)'
  <2>1. Valid(v) \in Range(db[k]) /\ head'[k] = "visible"
    BY <1>1, <1>6 DEF ListedAt, Visible
  <2>2. db \in [HeadIds -> Seq(Known)] /\ db[k] \in Seq(Known)
    BY DEF TInv, StoreT
  <2>3. Valid(v) \in Range(Live(db[k]))
    BY <2>1, <2>2, LiveKeeps, PresentFacts
  <2>4. UNCHANGED db \/ db' = [db EXCEPT ![th[t].head] = Live(db[th[t].head])]
    BY DEF MergeBegin, MergeAbandon, MergeNotNeeded, store
  <2>5. db'[k] = db[k] \/ db'[k] = Live(db[k])
    BY <2>2, <2>4
  <2>6. Valid(v) \in Range(db'[k])
    BY <2>1, <2>3, <2>5
  <2> QED BY <1>1, <1>2, <1>4, <1>6, <2>1, <2>6, ListKept
<1>7. Keeps(v)
  BY <1>1, <1>2, <1>4, <1>5, <1>6, KeepStep
<1> QED BY <1>3, <1>7 DEF Fusing

\* The merge takes the valid entries of its posting into its hands.
LEMMA MergeSearchKeep ==
    ASSUME TInv, OrderInv, NEW t \in Threads, t \in Workers, MergeStep(t), NEW v, Present(v), MergeSearch(t)
    PROVE  Keeps(v)
<1>0. th \in [Threads -> ThreadT(Placed, Known)] /\ th[t] \in ThreadT(Placed, Known)
  BY DEF TInv, ThreadsT
<1>1. UNCHANGED <<version, head, translate, jobs, db>> /\ th[t].pc = "mergelock"
  BY DEF MergeSearch, store
<1>2. Moved(t) /\ HeadsForward /\ th[t].pc \in MergePcs
  BY MergeMoves, StepsForward DEF Step
<1>3. ~Handed(t, v) /\ ~Bears(t, v) /\ ~Lifts(t, v)
  BY <1>1, <1>2, IdleHands, MergerBears DEF Splitting, Fusing, Lifts, Creating
<1>4. Relabels /\ \A k \in Visible : k \in Visible'
  BY <1>1 DEF Relabels, Visible
<1>5. PICK c, q : th' = [th EXCEPT ![t].pc = "candidate", ![t].cand = c,
                                   ![t].parts = <<Live(db[th[t].head]), q>>]
  BY DEF MergeSearch
<1>6. th'[t].pc = "candidate" /\ th'[t].head = th[t].head /\ th'[t].parts[1] = Live(db[th[t].head])
  BY <1>0, <1>5 DEF ThreadT
<1>7. ASSUME NEW k \in HeadIds, ListedAt(v, k)
      PROVE  Carried(v)'
  <2>1. Valid(v) \in Range(db[k]) /\ Valid(v) \in Range(db'[k]) /\ head'[k] = "visible"
    BY <1>1, <1>7 DEF ListedAt, Visible
  <2>2. CASE k # th[t].head
    <3>1. Unsettled(t)' => th'[t].head # k
      BY <1>6, <2>2
    <3> QED BY <1>1, <1>2, <1>7, <2>1, <3>1, ListKept
  <2>3. CASE k = th[t].head
    <3>1. db[k] \in Seq(Known)
      BY DEF TInv, StoreT
    <3>2. Valid(v) \in Range(Live(db[k]))
      BY <2>1, <3>1, LiveKeeps, PresentFacts
    <3>3. Valid(v)' = Valid(v)
      BY <1>1 DEF Valid
    <3>4. Handed(t, v)'
      BY <1>6, <2>3, <3>2, <3>3 DEF Handed, Fusing
    <3> QED BY <3>4 DEF Carried
  <2> QED BY <2>2, <2>3
<1> QED BY <1>1, <1>2, <1>3, <1>4, <1>7, KeepStep

LEMMA MergeSearchSound ==
    ASSUME TInv, NEW t \in Threads, MergeSearch(t)
    PROVE  Sound(t)'
<1>0. th \in [Threads -> ThreadT(Placed, Known)] /\ th[t] \in ThreadT(Placed, Known)
  BY DEF TInv, ThreadsT
<1>1. UNCHANGED version /\ th[t].pc = "mergelock"
  BY DEF MergeSearch, store
<1>2. PICK c, q : th' = [th EXCEPT ![t].pc = "candidate", ![t].cand = c,
                                   ![t].parts = <<Live(db[th[t].head]), q>>]
  BY DEF MergeSearch
<1>3. th'[t].parts[1] = Live(db[th[t].head])
  BY <1>0, <1>2 DEF ThreadT
<1>4. th[t].head \in HeadIds
  BY <1>1, HeadOfThread DEF HeadPcs, MergePcs
<1>5. db[th[t].head] \in Seq(Known)
  BY <1>4 DEF TInv, StoreT
<1>6. \A e \in Range(Live(db[th[t].head])) : Current(e)
  BY <1>5, LiveKeeps
<1>7. \A e \in Range(th'[t].parts[1]) : Current(e)'
  BY <1>1, <1>3, <1>6 DEF Current, Deleted
<1> QED BY <1>7 DEF Sound

\* The merge looks at the candidates.
LEMMA FusingThread ==
    ASSUME TInv, NEW t \in Threads, MergeCandidate(t) \/ MergeOtherMissing(t)
    PROVE  /\ th[t].pc \in Fusing /\ th'[t].pc \in Fusing /\ th'[t].head = th[t].head
           /\ th'[t].parts = th[t].parts
<1>0. th \in [Threads -> ThreadT(Placed, Known)] /\ th[t] \in ThreadT(Placed, Known)
  BY DEF TInv, ThreadsT
<1>1. CASE MergeCandidate(t)
  <2>1. th[t].pc = "candidate"
    BY <1>1 DEF MergeCandidate
  <2>2. PICK c : \/ th' = [th EXCEPT ![t].pc = "mergeother", ![t].other = c]
                 \/ th' = [th EXCEPT ![t].cand = @ \ {c}]
    BY <1>1 DEF MergeCandidate
  <2> QED BY <1>0, <2>1, <2>2 DEF ThreadT, Fusing
<1>2. CASE MergeOtherMissing(t)
  <2>1. th[t].pc = "mergeother"
    BY <1>2 DEF MergeOtherMissing, MayLockOther
  <2>2. PICK c, o : th' = [th EXCEPT ![t].pc = "candidate", ![t].cand = c, ![t].other = o]
    BY <1>2 DEF MergeOtherMissing
  <2> QED BY <1>0, <2>1, <2>2 DEF ThreadT, Fusing
<1> QED BY <1>1, <1>2

LEMMA MergeCandidateKeep ==
    ASSUME TInv, OrderInv, NEW t \in Threads, t \in Workers, MergeStep(t), NEW v,
           MergeCandidate(t) \/ MergeOtherMissing(t)
    PROVE  Keeps(v)
<1>1. UNCHANGED <<version, head, translate, jobs, db>>
  BY DEF MergeCandidate, MergeOtherMissing, store
<1>2. Moved(t) /\ HeadsForward /\ th[t].pc \in MergePcs
  BY MergeMoves, StepsForward DEF Step
<1>3. /\ th[t].pc \in Fusing /\ th'[t].pc \in Fusing /\ th'[t].head = th[t].head
      /\ th'[t].parts = th[t].parts
  BY FusingThread
<1>4. ~Bears(t, v) /\ ~Lifts(t, v)
  BY <1>2, <1>3, MergerBears DEF Fusing, Lifts, Creating
<1>5. Relabels /\ \A k \in Visible : k \in Visible'
  BY <1>1 DEF Relabels, Visible
<1>6. ASSUME Handed(t, v) PROVE Carried(v)'
  <2>1. Valid(v)' = Valid(v) /\ Valid(v) \in Range(th[t].parts[1])
    BY <1>1, <1>3, <1>6 DEF Valid, Handed, Fusing, Splitting
  <2>2. Handed(t, v)'
    BY <1>3, <2>1 DEF Handed
  <2> QED BY <2>2 DEF Carried
<1>7. ASSUME NEW k \in HeadIds, ListedAt(v, k)
      PROVE  Carried(v)'
  <2>1. Valid(v) \in Range(db'[k]) /\ head'[k] = "visible"
    BY <1>1, <1>7 DEF ListedAt, Visible
  <2>2. th'[t].head # k
    BY <1>3, <1>7 DEF ListedAt, Settled, Unsettled
  <2> QED BY <1>1, <1>2, <1>7, <2>1, <2>2, ListKept
<1> QED BY <1>1, <1>2, <1>4, <1>5, <1>6, <1>7, KeepStep

LEMMA MergeCandidateSound ==
    ASSUME TInv, OrderInv, NEW t \in Threads, t \in Workers, MergeStep(t), Sound(t),
           MergeCandidate(t) \/ MergeOtherMissing(t)
    PROVE  Sound(t)'
<1>1. UNCHANGED <<version, erased>>
  BY DEF MergeCandidate, MergeOtherMissing, store, ghosts
<1>2. th[t].pc \in Fusing /\ th'[t].parts = th[t].parts
  BY FusingThread
<1>3. \A v : Lifted(v) => Lifted(v)'
  BY MergeCandidateKeep DEF Keeps
<1>4. \A e \in Range(th'[t].parts[1]) : Current(e)' \/ e.vid \in erased' \/ Lifted(e.vid)'
  BY <1>1, <1>2, <1>3 DEF Sound, Current, Deleted
<1> QED BY <1>4 DEF Sound

\* No candidate was found: the valid entries are written back.
LEMMA MergeWriteBackKeep ==
    ASSUME TInv, LockInv, OrderInv, NEW t \in Threads, t \in Workers, MergeStep(t), NEW v, MergeWriteBack(t)
    PROVE  Keeps(v) /\ th'[t].pc \notin Fusing
<1>1. UNCHANGED <<version, head, translate, jobs>> /\ th[t].pc = "candidate" /\ Finish(t)
  BY DEF MergeWriteBack
<1>2. Moved(t) /\ HeadsForward /\ th[t].pc \in MergePcs
  BY MergeMoves, StepsForward DEF Step
<1>3. th'[t].pc = "idle"
  BY <1>1, FinishFacts DEF IdleThread
<1>4. ~Unsettled(t)' /\ ~Bears(t, v) /\ ~Lifts(t, v)
  BY <1>1, <1>2, <1>3, IdleHandsNext, MergerBears DEF Splitting, Fusing, Lifts, Creating
<1>5. Relabels /\ \A k \in Visible : k \in Visible'
  BY <1>1 DEF Relabels, Visible
<1>h. PICK h \in HeadIds : h = th[t].head
  BY <1>1, HeadOfThread DEF HeadPcs, MergePcs
<1>d. db \in [HeadIds -> Seq(Known)] /\ db' = [db EXCEPT ![h] = th[t].parts[1]]
  BY <1>h DEF TInv, StoreT, MergeWriteBack
<1>6. ASSUME Handed(t, v) PROVE Carried(v)'
  <2>1. Valid(v) \in Range(th[t].parts[1])
    BY <1>1, <1>6 DEF Handed, Splitting
  <2>2. Valid(v) \in Range(db'[h])
    BY <1>d, <2>1
  <2>3. head'[h] = "visible"
    BY <1>1, <1>h DEF OrderInv, Ordered, Fusing
  <2>4. MayWrite(t, h)
    <3>1. Holding(th[t])
      BY <1>1 DEF Holding
    <3> QED BY <1>h, <3>1, OwnLock
  <2> QED BY <1>1, <1>2, <1>4, <2>2, <2>3, <2>4, ListNew
<1>7. ASSUME NEW k \in HeadIds, ListedAt(v, k)
      PROVE  Carried(v)'
  <2>1. k # h
    BY <1>1, <1>7, <1>h DEF ListedAt, Settled, Unsettled, Fusing
  <2>2. Valid(v) \in Range(db'[k]) /\ head'[k] = "visible"
    BY <1>1, <1>7, <1>d, <2>1 DEF ListedAt, Visible
  <2> QED BY <1>1, <1>2, <1>4, <1>7, <2>2, ListKept
<1>8. Keeps(v)
  BY <1>1, <1>2, <1>4, <1>5, <1>6, <1>7, KeepStep
<1> QED BY <1>3, <1>8 DEF Fusing

LEMMA MergeReassignKeep ==
    ASSUME Gentle, TInv, OrderInv, NEW t \in Threads, t \in Workers, MergeStep(t), NEW v, Present(v),
           MergeReassign(t)
    PROVE  Keeps(v) /\ th'[t].pc \notin Fusing
<1>1. UNCHANGED <<version, head, translate, db>> /\ th[t].pc = "merged" /\ Finish(t)
  BY DEF MergeReassign, store
<1>2. Moved(t) /\ HeadsForward /\ th[t].pc \in MergePcs
  BY MergeMoves, StepsForward DEF Step
<1>3. th'[t].pc = "idle"
  BY <1>1, FinishFacts DEF IdleThread
<1>4. ~Handed(t, v) /\ ~Unsettled(t)' /\ ~Bears(t, v)
  BY <1>1, <1>2, <1>3, IdleHands, IdleHandsNext, MergerBears DEF Splitting, Fusing
<1>5. Relabels /\ \A k \in Visible : k \in Visible'
  BY <1>1 DEF Relabels, Visible
<1>6. ASSUME NEW k \in HeadIds, ListedAt(v, k)
      PROVE  Carried(v)'
  <2>1. Valid(v) \in Range(db'[k]) /\ head'[k] = "visible"
    BY <1>1, <1>6 DEF ListedAt, Visible
  <2> QED BY <1>1, <1>2, <1>4, <1>6, <2>1, ListKept
<1>7. Range(jobs) \subseteq Range(jobs') /\ (Lifts(t, v) => Lifted(v)')
  <2>1. CASE ~th[t].reassign
    <3>1. UNCHANGED jobs
      BY <2>1 DEF MergeReassign
    <3>2. ~Lifts(t, v)
      BY <1>1, <2>1 DEF Lifts, Creating
    <3> QED BY <3>1, <3>2
  <2>2. CASE th[t].reassign
    <3>1. PICK R \in Seq(ReassignT(Placed, Known)) :
             jobs' = jobs \o R \o HeadVectorJob(th[t].news[2]) /\ th[t].news[2] \in Placed
      BY <2>2, MergedJobs
    <3>2. PICK h \in HeadIds : h = th[t].news[2]
      BY <3>1 DEF Placed
    <3>3. HeadVectorJob(h) \in Seq(ReassignT(Placed, Known))
      BY HeadVectorJobType
    <3>4. Range(jobs') = Range(jobs) \cup Range(R) \cup Range(HeadVectorJob(h))
      BY <3>1, <3>2, <3>3, QueueGrows
    <3>5. ASSUME Lifts(t, v) PROVE Lifted(v)'
      <4>1. translate[h] = v
        BY <1>1, <3>2, <3>5 DEF Lifts, Creating
      <4>2. ExcludeHead
        BY <1>2, <4>1, ReturnOrdered
      <4>3. Range(HeadVectorJob(h)) \subseteq Range(jobs')
        BY <3>4
      <4> QED BY <1>1, <4>1, <4>2, <4>3, HeadVectorWaits
    <3> QED BY <3>4, <3>5
  <2> QED BY <2>1, <2>2
<1>8. Keeps(v)
  BY <1>1, <1>2, <1>4, <1>5, <1>6, <1>7, KeepStep
<1> QED BY <1>3, <1>8 DEF Fusing

\* Every valid entry of the candidate's posting is in the merged list, unless its vector is
\* a head or on its way.
LEMMA MergedKeeps ==
    ASSUME TInv, OrderInv, NEW t \in Threads, th[t].pc = "mergeother", Sound(t), NEW v, Present(v),
           Valid(v) \in Range(th[t].parts[1]) \cup Range(db[th[t].other]), ~Lifted(v)
    PROVE  Valid(v) \in Range(th[t].parts[1] \o Fresh(t))
<1> DEFINE p == th[t].parts[1]
           live == Live(db[th[t].other])
           F == {e \in Range(live) : e.vid \notin Vids(p)}
<1>1. p \in Seq(Known) /\ th[t].other \in HeadIds
  BY MergeHands
<1>2. db[th[t].other] \in Seq(Known)
  BY <1>1 DEF TInv, StoreT
<1>3. live \in Seq(Known)
  BY <1>2, LiveFacts
<1>4. Fresh(t) = Filter(live, F)
  BY DEF Fresh
<1>5. Fresh(t) \in Seq(Known)
  <2> HIDE DEF live, F
  <2> QED BY <1>3, <1>4, FilterFacts
<1>6. Range(p \o Fresh(t)) = Range(p) \cup Range(Fresh(t))
  <2> HIDE DEF p
  <2> QED BY <1>1, <1>5, RangeConcat
<1>7. CASE Valid(v) \in Range(p)
  BY <1>6, <1>7
<1>8. CASE Valid(v) \notin Range(p)
  <2>1. Valid(v) \in Range(live)
    <3>1. Valid(v) \in Range(db[th[t].other])
      BY <1>8
    <3> QED BY <1>2, <3>1, LiveKeeps, PresentFacts
  <2>2. v \notin Vids(p)
    <3>1. SUFFICES ASSUME v \in Vids(p) PROVE FALSE
      OBVIOUS
    <3>2. PICK i \in DOMAIN p : p[i].vid = v
      BY <3>1 DEF Vids
    <3>3. PICK e : e = p[i]
      OBVIOUS
    <3>4. e \in Range(p) /\ e \in Known /\ e.vid = v
      BY <1>1, <3>2, <3>3 DEF Range
    <3>5. Current(e)
      BY <3>4 DEF Sound, Fusing, Present
    <3>6. e = Valid(v)
      BY <3>4, <3>5, ValidEntry DEF Current
    <3> QED BY <1>8, <3>4, <3>6
  <2>3. Valid(v) \in F
    BY <2>1, <2>2, PresentFacts
  <2>4. Valid(v) \in Range(Filter(live, F))
    <3> HIDE DEF live, F
    <3> QED BY <1>3, <2>1, <2>3, FilterKeeps
  <2> QED BY <1>4, <1>6, <2>4
<1> QED BY <1>7, <1>8

LEMMA MergeOtherKeep ==
    ASSUME Gentle, TInv, LockInv, OrderInv, QueuedInv, NEW t \in Threads, t \in Workers, MergeStep(t),
           Sound(t), NEW v, Present(v), MergeOther(t)
    PROVE  Keeps(v) /\ th'[t].pc \notin Fusing
<1>0. th \in [Threads -> ThreadT(Placed, Known)] /\ th[t] \in ThreadT(Placed, Known)
  BY DEF TInv, ThreadsT
<1>1. /\ UNCHANGED <<version, translate, jobs>> /\ th[t].pc = "mergeother" /\ MayLockOther(t)
      /\ ContainSample(th[t].other) /\ Merged(t, << >>)
  BY DEF MergeOther, MayLockOther
<1>2. Moved(t) /\ HeadsForward /\ th[t].pc \in MergePcs
  BY MergeMoves, StepsForward DEF Step
<1>a. PICK a \in HeadIds, o \in HeadIds : a = th[t].head /\ o = th[t].other /\ o \in Placed
  BY <1>1, MergeHands
<1>3. a # o /\ head[a] = "visible" /\ head[o] = "visible"
  BY <1>1, <1>a DEF QueuedInv, Sole, OrderInv, Ordered, Fusing, ContainSample, Placed
<1>4. MayWrite(t, a) /\ MayWrite(t, o)
  <2>1. Holding(th[t])
    BY <1>1 DEF Holding
  <2>2. MayWrite(t, a)
    BY <1>a, <2>1, OwnLock
  <2> QED BY <1>1, <1>a, <2>2 DEF MayLockOther, MayWrite, Unlocked
<1>k. PICK k \in HeadIds, r \in HeadIds : k = Kept(t) /\ r = Removed(t) /\ {k, r} = {a, o} /\ k # r
  BY <1>3, <1>a DEF Kept, Removed
<1>m. PICK m : m = th[t].parts[1] \o Fresh(t)
  OBVIOUS
<1>5. db' = [db EXCEPT ![k] = m, ![r] = << >>] /\ head' = [head EXCEPT ![r] = "deleted"]
  BY <1>1, <1>k, <1>m DEF Merged
<1>h. db \in [HeadIds -> Seq(Known)] /\ head \in [HeadIds -> {"free", "added", "visible", "deleted"}]
  BY DEF TInv, StoreT
<1>6. /\ db'[k] = m /\ head'[k] = "visible" /\ MayWrite(t, k)
      /\ \A h \in HeadIds \ {k, r} : db'[h] = db[h] /\ head'[h] = head[h]
  BY <1>3, <1>4, <1>5, <1>h, <1>k
<1>7. th'[t].pc = "merged" /\ th'[t].news[2] = r /\ th'[t].reassign = th[t].reassign
  <2>1. PICK q, c : th' = [th EXCEPT ![t].pc = "merged", ![t].news = <<k, r>>, ![t].parts = q, ![t].cand = c]
    BY <1>k DEF MergeOther
  <2>2. th'[t].pc = "merged" /\ th'[t].news = <<k, r>> /\ th'[t].reassign = th[t].reassign
    BY <1>0, <2>1 DEF ThreadT
  <2> QED BY <2>2
<1>8. ~Unsettled(t)' /\ ~Bears(t, v) /\ ~Lifts(t, v)
  BY <1>1, <1>2, <1>7, IdleHandsNext, MergerBears DEF Splitting, Fusing, Lifts, Creating
<1>9. Relabels
  BY <1>1 DEF Relabels
<1>10. ASSUME NEW h \in Visible, translate[h] = v
       PROVE  h \in Visible' \/ Lifted(v)'
  <2>1. CASE h = r
    <3>1. th[t].reassign = TRUE
      BY <1>2, <1>10, <2>1, ReturnOrdered
    <3>2. Lifts(t, v)'
      BY <1>1, <1>7, <1>10, <2>1, <3>1 DEF Lifts
    <3> QED BY <3>2 DEF Lifted
  <2>2. CASE h # r
    BY <1>6, <2>2 DEF Visible
  <2> QED BY <2>1, <2>2
<1>11. Lifted(v) => Lifted(v)'
  BY <1>1, <1>2, <1>8, <1>9, <1>10, LiftKept
<1>12. ASSUME Valid(v) \in Range(th[t].parts[1]) \cup Range(db[o])
       PROVE  Carried(v)'
  <2>1. CASE Lifted(v)
    BY <1>11, <2>1 DEF Carried
  <2>2. CASE ~Lifted(v)
    <3>1. Valid(v) \in Range(m)
      BY <1>1, <1>12, <1>a, <1>m, <2>2, MergedKeeps
    <3>2. Valid(v) \in Range(db'[k])
      BY <1>6, <3>1
    <3> QED BY <1>1, <1>2, <1>6, <1>8, <3>2, ListNew
  <2> QED BY <2>1, <2>2
<1>13. Handed(t, v) => Carried(v)'
  BY <1>1, <1>12 DEF Handed, Splitting
<1>14. ASSUME NEW h \in HeadIds, ListedAt(v, h)
       PROVE  Carried(v)'
  <2>1. h # a
    BY <1>1, <1>14, <1>a DEF ListedAt, Settled, Unsettled, Fusing
  <2>2. CASE h = o
    BY <1>12, <1>14, <2>2 DEF ListedAt
  <2>3. CASE h # o
    <3>1. db'[h] = db[h] /\ head'[h] = head[h]
      BY <1>6, <1>k, <2>1, <2>3
    <3>2. Valid(v) \in Range(db'[h]) /\ head'[h] = "visible"
      BY <1>14, <3>1 DEF ListedAt, Visible
    <3> QED BY <1>1, <1>2, <1>8, <1>14, <3>2, ListKept
  <2> QED BY <2>2, <2>3
<1>15. Keeps(v)
  BY <1>1, <1>2, <1>8, <1>9, <1>10, <1>13, <1>14, KeepStep
<1> QED BY <1>7, <1>15 DEF Fusing

LEMMA MergeKeep ==
    ASSUME Gentle, MergeFree, TInv, LockInv, OrderInv, QueuedInv, NEW t \in Threads, t \in Workers,
           MergeStep(t), Sound(t), NEW v, Present(v)
    PROVE  Keeps(v)
<1>1. ~IoFails /\ ~MergeRequeue(t)
  BY NoRequeue DEF Gentle
<1> QED BY <1>1, MergeEntryKeep, MergeSearchKeep, MergeCandidateKeep, MergeOtherKeep, MergeReassignKeep,
        MergeWriteBackKeep
        DEF MergeStep, MergeOtherFails, MergeDeleteFails, MergePutFails, MergeWriteBackFails

LEMMA MergeSound ==
    ASSUME Gentle, MergeFree, TInv, LockInv, OrderInv, NEW t \in Threads, t \in Workers,
           MergeStep(t), Sound(t)
    PROVE  Sound(t)'
<1>0. th \in [Threads -> ThreadT(Placed, Known)] /\ th[t] \in ThreadT(Placed, Known)
  BY DEF TInv, ThreadsT
<1>1. ~IoFails /\ ~MergeRequeue(t)
  BY NoRequeue DEF Gentle
<1>2. CASE th'[t].pc \notin Fusing
  BY <1>2 DEF Sound
<1>3. CASE th'[t].pc \in Fusing
  <2>1. ~Finish(t) /\ ~MergeBegin(t)
    BY <1>3, FinishFacts, GotoFacts DEF IdleThread, Fusing, MergeBegin
  <2>2. ~MergeOther(t)
    <3>1. SUFFICES ASSUME MergeOther(t) PROVE FALSE
      OBVIOUS
    <3>2. PICK n, q, c : th' = [th EXCEPT ![t].pc = "merged", ![t].news = n, ![t].parts = q, ![t].cand = c]
      BY <3>1 DEF MergeOther
    <3>3. th'[t].pc = "merged"
      BY <1>0, <3>2 DEF ThreadT
    <3> QED BY <1>3, <3>3 DEF Fusing
  <2>3. MergeSearch(t) \/ MergeCandidate(t) \/ MergeOtherMissing(t)
    BY <1>1, <2>1, <2>2 DEF MergeStep, MergeAbandon, MergeNotNeeded, MergeReassign, MergeWriteBack,
       MergeOtherFails, MergeDeleteFails, MergePutFails, MergeWriteBackFails
  <2> QED BY <2>3, MergeSearchSound, MergeCandidateSound
<1> QED BY <1>2, <1>3

\* Only AddIndex brings a vector in.
LEMMA NobodyNew ==
    ASSUME TInv, NEW t \in Threads, AppendStep(t) \/ SplitStep(t) \/ MergeStep(t) \/ TakeJob(t) \/ ReassignStep(t),
           NEW v \in Added' \ erased'
    PROVE  Present(v)
<1>0. v \in Vectors /\ version'[v] # NoVersion /\ version \in [Vectors -> 0 .. NoVersion] /\ v \notin erased'
  BY DEF Added, TInv, StoreT
<1>1. UNCHANGED erased
  BY DEF AppendStep, NextReplica, AppendHeadMiss, AppendCheck, AppendRecheck, AppendFull,
     AppendMerge, AppendFails, AppendEnd,
     SplitStep, SplitMissing, SplitFails, SplitCollectGarbage, SplitOneCluster, SplitClusters,
     SplitSameHead, SplitNewHead, SplitIncVersion, SplitPut, SplitPutFails, SplitAddRow, SplitOldHead,
     SplitDeleteFails, SplitErase, CollectReAssign,
     MergeStep, MergeRequeue, MergeBegin, MergeAbandon, MergeNotNeeded, MergeSearch,
     MergeCandidate, MergeOtherMissing, MergeOtherFails, MergeOther, MergeDeleteFails, MergePutFails,
     MergeReassign, MergeWriteBack, MergeWriteBackFails, TakeJob,
     ReassignStep, ReassignStale, ReassignNotNeeded, ReassignSelect, ReassignCheck,
     ReassignIncVersion, ghosts
<1>2. CASE SplitIncVersion(t)
  <2>1. th[t].pc = "center" /\ version' = [version EXCEPT ![translate[th[t].other]] = Successor(@)]
    BY <1>2 DEF SplitIncVersion, IncVersion
  <2>2. PICK o \in HeadIds : o = th[t].other /\ head[o] = "added" /\ ExcludeHead
    BY <2>1 DEF TInv, ThreadsT, Shape, Pending, Creating
  <2>3. translate[o] \in Vectors /\ translate[o] # NoVector
    BY <2>2, Configuration DEF TInv, HeadVectors
  <2>4. version[translate[o]] # NoVersion
    BY <2>3 DEF TInv, HeadVectors
  <2>5. version[v] # NoVersion
    BY <1>0, <2>1, <2>2, <2>4
  <2> QED BY <1>0, <1>1, <2>5 DEF Present, Added
<1>3. CASE ReassignIncVersion(t)
  <2>1. th[t].pc = "inc" /\ version' = [version EXCEPT ![th[t].e.vid] = Successor(@)]
    BY <1>3 DEF ReassignIncVersion, IncVersion
  <2>2. th[t].e \in Known
    BY <2>1, EntryOfThread DEF EntryPcs
  <2>3. version[th[t].e.vid] # NoVersion
    BY <2>2 DEF Known
  <2>4. version[v] # NoVersion
    BY <1>0, <2>1, <2>3
  <2> QED BY <1>0, <1>1, <2>4 DEF Present, Added
<1>4. CASE ~SplitIncVersion(t) /\ ~ReassignIncVersion(t)
  <2>1. UNCHANGED version
    BY <1>4 DEF AppendStep, NextReplica, AppendHeadMiss, AppendCheck, AppendRecheck, AppendFull,
       AppendMerge, AppendFails, AppendEnd,
       SplitStep, SplitMissing, SplitFails, SplitCollectGarbage, SplitOneCluster, SplitClusters,
       SplitSameHead, SplitNewHead, SplitPut, SplitPutFails, SplitAddRow, SplitOldHead,
       SplitDeleteFails, SplitErase, CollectReAssign,
       MergeStep, MergeRequeue, MergeBegin, MergeAbandon, MergeNotNeeded, MergeSearch,
       MergeCandidate, MergeOtherMissing, MergeOtherFails, MergeOther, MergeDeleteFails, MergePutFails,
       MergeReassign, MergeWriteBack, MergeWriteBackFails, Merged, TakeJob,
       ReassignStep, ReassignStale, ReassignNotNeeded, ReassignSelect, ReassignCheck, store
  <2> QED BY <1>0, <1>1, <2>1 DEF Present, Added
<1> QED BY <1>2, <1>3, <1>4

LEMMA CarryNext ==
    ASSUME Gentle, MergeFree, TInv, LockInv, SizeInv, OrderInv, QueuedInv, LostInv, NEW t \in Threads, Step(t),
           NEW v \in Added' \ erased'
    PROVE  Carried(v)'
<1>0. \A w : Present(w) => Carried(w)
  BY DEF LostInv, CarryInv, Present
<1>1. CASE AppendStep(t)
  BY <1>0, <1>1, NobodyNew, AppendKeep DEF Keeps
<1>2. CASE SplitStep(t)
  <2>1. Present(v) /\ Carried(v)
    BY <1>0, <1>2, NobodyNew
  <2>2. (version'[v] = version[v] /\ Keeps(v)) \/ Lifted(v)'
    BY <1>2, <2>1, SplitKeep
  <2> QED BY <2>1, <2>2 DEF Keeps, Carried
<1>3. CASE t \in Workers /\ MergeStep(t)
  <2>1. Present(v) /\ Carried(v) /\ Sound(t)
    BY <1>0, <1>3, NobodyNew DEF LostInv
  <2>2. Keeps(v)
    BY <1>3, <2>1, MergeKeep
  <2> QED BY <2>1, <2>2 DEF Keeps
<1>4. CASE t \in Workers /\ OtherStep(t)
  <2>1. TakeJob(t) \/ ReassignStep(t)
    BY <1>4, Configuration DEF OtherStep
  <2>2. Present(v) /\ Carried(v)
    BY <1>0, <2>1, NobodyNew
  <2> QED BY <1>4, <2>1, <2>2, TakeCarries, ReassignCarries
<1>5. CASE t \in Clients /\ OtherStep(t)
  <2>0. v \in Vectors /\ version \in [Vectors -> 0 .. NoVersion] /\ version'[v] # NoVersion /\ v \notin erased'
    BY DEF Added, TInv, StoreT
  <2>1. \/ \E x \in Vectors : AddIndex(t, x) \/ DeleteIndex(t, x)
        \/ \E h \in HeadIds : SearchIndex(t, h)
    BY <1>5, Configuration DEF OtherStep
  <2>2. CASE AddIndex(t, v)
    BY <2>0, <2>2, AddedCarries
  <2>3. CASE ~AddIndex(t, v)
    <3>1. version'[v] = version[v] /\ v \notin erased
      <4>1. ASSUME NEW x \in Vectors, AddIndex(t, x) PROVE version'[v] = version[v] /\ v \notin erased
        <5>1. x # v
          BY <2>3, <4>1
        <5> QED BY <2>0, <4>1, <5>1 DEF AddIndex, ghosts
      <4>2. ASSUME NEW x \in Vectors, DeleteIndex(t, x) PROVE version'[v] = version[v] /\ v \notin erased
        <5>1. version' = [version EXCEPT ![x] = DeletedVersion] /\ erased' = erased \cup {x}
          BY <4>2 DEF DeleteIndex
        <5> QED BY <2>0, <5>1
      <4>3. ASSUME NEW h \in HeadIds, SearchIndex(t, h) PROVE version'[v] = version[v] /\ v \notin erased
        BY <2>0, <4>3 DEF SearchIndex, store
      <4> QED BY <2>1, <4>1, <4>2, <4>3
    <3>2. Present(v)
      BY <2>0, <3>1 DEF Present, Added
    <3>3. Keeps(v)
      BY <1>5, <3>1, ClientKeeps
    <3> QED BY <1>0, <3>2, <3>3 DEF Keeps
  <2> QED BY <2>2, <2>3
<1> QED BY <1>1, <1>2, <1>3, <1>4, <1>5 DEF Step, Threads

\* What another thread's merge has read stays sound.
LEMMA OthersSound ==
    ASSUME Gentle, MergeFree, TInv, LockInv, SizeInv, OrderInv, QueuedInv, LostInv, NEW t \in Threads, Step(t),
           NEW u \in Threads \ {t}
    PROVE  Sound(u)'
<1>m. Moved(t)
  BY AppendQuiet, SplitMoves, MergeMoves, ReassignQuiet, CallQuiet DEF Step, OtherStep, Quiet
<1>1. th'[u] = th[u]
  BY <1>m DEF Moved
<1>2. SUFFICES ASSUME th[u].pc \in Fusing, NEW e \in Range(th[u].parts[1])
               PROVE  Current(e)' \/ e.vid \in erased' \/ Lifted(e.vid)'
  BY <1>1 DEF Sound
<1>3. t \notin Workers /\ t \in Clients
  <2>1. th[u].pc \in MergePcs
    BY <1>2 DEF Fusing, MergePcs
  <2> QED BY <2>1, OneMerger DEF Threads
<1>4. e \in Known
  <2>1. th[u].parts[1] \in Seq(Known)
    BY <1>2, MergeHands DEF Fusing
  <2> QED BY <2>1 DEF Range
<1>5. PICK v \in Vectors : v = e.vid /\ v \in Added
  BY <1>4 DEF Known, Entries, Added
<1>6. Current(e) \/ v \in erased \/ Lifted(v)
  BY <1>2, <1>5 DEF LostInv, Sound
<1>7. erased \subseteq erased'
  BY <1>3 DEF Step, OtherStep, DeleteIndex, AddIndex, SearchIndex,
     AppendStep, NextReplica, AppendHeadMiss, AppendCheck, AppendRecheck, AppendFull,
     AppendMerge, AppendFails, AppendEnd,
     SplitStep, SplitMissing, SplitFails, SplitCollectGarbage, SplitOneCluster, SplitClusters,
     SplitSameHead, SplitNewHead, SplitIncVersion, SplitPut, SplitPutFails, SplitAddRow, SplitOldHead,
     SplitDeleteFails, SplitErase, CollectReAssign, ghosts
<1>8. CASE v \in erased
  BY <1>5, <1>7, <1>8
<1>9. CASE v \notin erased
  <2>1. Present(v) /\ (Current(e) \/ Lifted(v))
    BY <1>5, <1>6, <1>9 DEF Present
  <2>2. (version'[v] = version[v] /\ Keeps(v)) \/ Lifted(v)' \/ v \in erased'
    <3>1. CASE AppendStep(t)
      <4>1. UNCHANGED version
        BY <3>1 DEF AppendStep, NextReplica, AppendHeadMiss, AppendCheck, AppendRecheck, AppendFull,
           AppendMerge, AppendFails, AppendEnd, store
      <4> QED BY <2>1, <3>1, <4>1, AppendKeep
    <3>2. CASE SplitStep(t)
      BY <2>1, <3>2, SplitKeep
    <3>3. CASE OtherStep(t)
      <4>1. version'[v] = version[v] \/ v \in erased'
        <5>0. version \in [Vectors -> 0 .. NoVersion]
          BY DEF TInv, StoreT
        <5>1. ASSUME NEW x \in Vectors, AddIndex(t, x) PROVE version'[v] = version[v]
          <6>1. x # v
            BY <1>5, <5>1 DEF AddIndex
          <6> QED BY <5>0, <5>1, <6>1 DEF AddIndex
        <5>2. ASSUME NEW x \in Vectors, DeleteIndex(t, x) PROVE version'[v] = version[v] \/ v \in erased'
          <6>1. version' = [version EXCEPT ![x] = DeletedVersion] /\ erased' = erased \cup {x}
            BY <5>2 DEF DeleteIndex
          <6> QED BY <5>0, <6>1
        <5>3. ASSUME NEW h \in HeadIds, SearchIndex(t, h) PROVE version'[v] = version[v]
          BY <5>3 DEF SearchIndex, store
        <5> QED BY <1>3, <3>3, <5>1, <5>2, <5>3 DEF OtherStep
      <4> QED BY <1>3, <3>3, <4>1, ClientKeeps
    <3> QED BY <1>3, <3>1, <3>2, <3>3 DEF Step
  <2>3. ASSUME version'[v] = version[v], Keeps(v)
        PROVE  Current(e)' \/ Lifted(v)'
    <3>1. Lifted(v) => Lifted(v)'
      BY <2>3 DEF Keeps
    <3>2. Current(e) => Current(e)'
      BY <1>5, <2>3 DEF Current, Deleted
    <3> QED BY <2>1, <3>1, <3>2
  <2> QED BY <1>5, <2>2, <2>3
<1> QED BY <1>8, <1>9

LEMMA SoundNext ==
    ASSUME Gentle, MergeFree, TInv, LockInv, SizeInv, OrderInv, QueuedInv, LostInv, NEW t \in Threads, Step(t)
    PROVE  Sound(t)'
<1>1. CASE t \in Workers /\ MergeStep(t)
  BY <1>1, MergeSound DEF LostInv
<1>2. CASE ~(t \in Workers /\ MergeStep(t))
  <2>1. th'[t].pc \notin Fusing
    <3>1. CASE AppendStep(t)
      BY <3>1, AppendThread DEF Fusing
    <3>2. CASE SplitStep(t)
      BY <3>2, SplitThread, ReturnFacts DEF Fusing, SplitPcs
    <3>3. CASE OtherStep(t)
      BY <3>3, ReassignQuiet, CallQuiet DEF OtherStep, Quiet, QuietPcs, Fusing
    <3> QED BY <1>2, <3>1, <3>2, <3>3 DEF Step
  <2> QED BY <2>1 DEF Sound
<1> QED BY <1>1, <1>2

LEMMA InitCarries == Init => LostInv
<1> SUFFICES ASSUME Init PROVE LostInv
  OBVIOUS
<1>1. \A t \in Threads : th[t].pc = "idle"
  BY DEF Init, IdleThread
<1>2. \A t \in Threads : Sound(t) /\ ~Unsettled(t)
  BY <1>1 DEF Sound, Unsettled, Fusing, Splitting
<1>3. PICK f \in [0 .. FirstHeads - 1 -> Vectors] :
         /\ translate = [h \in HeadIds |-> IF ExcludeHead /\ h < FirstHeads THEN f[h] ELSE NoVector]
         /\ version = [v \in Vectors |-> IF v \in Range(f) THEN FirstVersion ELSE NoVersion]
         /\ db = [h \in HeadIds |-> IF h < FirstHeads /\ ~ExcludeHead
                                    THEN <<Entry(f[h], FirstVersion)>> ELSE << >>]
  BY DEF Init
<1>4. ASSUME NEW v \in Added \ erased
      PROVE  Carried(v)
  <2>1. v \in Vectors /\ version[v] # NoVersion
    BY DEF Added
  <2>2. v \in Range(f) /\ version[v] = FirstVersion
    BY <1>3, <2>1
  <2>3. PICK h \in 0 .. FirstHeads - 1 : f[h] = v
    BY <1>3, <2>2 DEF Range
  <2>4. h \in HeadIds /\ h < FirstHeads /\ h \in Nat
    BY Configuration DEF HeadIds
  <2>5. h \in Visible
    BY <2>4 DEF Init, Visible
  <2>6. CASE ExcludeHead
    <3>1. translate[h] = v
      BY <1>3, <2>3, <2>4, <2>6
    <3>2. Crowned(v)
      BY <2>5, <3>1 DEF Crowned
    <3> QED BY <3>2 DEF Carried, Lifted
  <2>7. CASE ~ExcludeHead
    <3>1. db[h] = <<Valid(v)>>
      BY <1>3, <2>2, <2>3, <2>4, <2>7 DEF Valid
    <3>2. Valid(v) \in Range(db[h])
      BY <3>1 DEF Range
    <3>3. ListedAt(v, h)
      BY <1>2, <2>5, <3>2 DEF ListedAt, Settled
    <3> QED BY <2>4, <3>3 DEF Carried, Listed
  <2> QED BY <2>6, <2>7
<1> QED BY <1>2, <1>4 DEF LostInv, CarryInv

\* With nothing under way, a vector that is carried is held.
LEMMA CarriedHeld ==
    ASSUME LostInv
    PROVE  NoVectorLost
<1>1. SUFFICES ASSUME Quiescent, NEW v \in Added \ erased PROVE Held(v)
  BY DEF NoVectorLost
<1>2. jobs = << >> /\ \A t \in Threads : th[t].pc = "idle"
  BY <1>1 DEF Quiescent
<1>3. Carried(v)
  BY DEF LostInv, CarryInv
<1>4. ~Awaited(v)
  BY <1>2 DEF Awaited, Range
<1>5. \A t \in Threads : ~Handed(t, v) /\ ~Bears(t, v) /\ ~Lifts(t, v)
  BY <1>2 DEF Handed, Bears, Lifts, Splitting, Fusing, SplitPcs, Creating
<1>6. Crowned(v) \/ Listed(v)
  BY <1>3, <1>4, <1>5 DEF Carried, Lifted
<1>7. CASE Crowned(v)
  BY <1>7 DEF Crowned, Held
<1>8. CASE Listed(v)
  BY <1>8 DEF Listed, ListedAt, Held, Valid
<1> QED BY <1>6, <1>7, <1>8

LEMMA LostAlways == Gentle => (Spec => []LostInv)
<1> SUFFICES ASSUME Gentle PROVE Spec => []LostInv
  OBVIOUS
<1>1. Init => LostInv
  BY InitCarries
<1>2. TInv /\ LockInv /\ SizeInv /\ MergeFree /\ OrderInv /\ QueuedInv /\ LostInv /\ [Next]_vars => LostInv'
  <2> SUFFICES ASSUME TInv, LockInv, SizeInv, MergeFree, OrderInv, QueuedInv, LostInv, [Next]_vars
               PROVE  LostInv'
    OBVIOUS
  <2>1. CASE UNCHANGED vars
    BY <2>1 DEF vars, LostInv, CarryInv, Added, Carried, Lifted, Crowned, Awaited, Awaits, Lifts, Listed,
       ListedAt, Settled, Unsettled, Handed, Bears, Valid, Visible, Sound, Current, Deleted
  <2>2. CASE Next
    <3>1. PICK t \in Threads : Step(t)
      BY <2>2, NextSteps
    <3>2. CarryInv'
      BY <3>1, CarryNext DEF CarryInv
    <3>3. \A u \in Threads : Sound(u)'
      BY <3>1, OthersSound, SoundNext
    <3> QED BY <3>2, <3>3 DEF LostInv
  <2> QED BY <2>1, <2>2
<1> QED BY <1>1, <1>2, TypesInv, LocksInv, SizesInv, BoundsInv, OrderAlways, QueuedAlways, PTL DEF Spec

\* A vector that was added and not deleted is never lost: once all updates are done it is a
\* visible head or has a valid entry in the posting of one, for any number of clients,
\* vectors, heads, replicas and lock stripes, and for a version byte that wraps around
\* (ExtraDynamicSearcher.h:913-2011).  It takes a store that does not fail, a k-means that
\* gives up on copies of one vector only, the reassignment of removed heads, and merges that
\* no other job runs beside: without any of them the code does lose vectors.
THEOREM NothingIsLost == Gentle => (Spec => []NoVectorLost)
<1>1. LostInv => NoVectorLost
  BY CarriedHeld
<1> QED BY <1>1, LostAlways, PTL
=============================================================================
