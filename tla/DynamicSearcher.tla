-------------------------- MODULE DynamicSearcher --------------------------
(***************************************************************************)
(* ExtraDynamicSearcher (AnnService/inc/Core/SPANN/ExtraDynamicSearcher.h):*)
(* the SPFresh rebalancer.  Vectors live in posting lists, one list per    *)
(* head of the in-memory index.  Appends, splits, merges and reassignments *)
(* run on client threads and on the workers of m_splitThreadPool.  A       *)
(* posting entry is valid while it carries the current version of its      *)
(* vector (VersionLabel); moving a vector raises its version, so that the  *)
(* entry left behind becomes garbage.                                      *)
(*                                                                         *)
(* Geometry is abstracted: which heads a search returns, how k-means       *)
(* divides a list and which vectors lie closer to another head are         *)
(* arbitrary choices.  What happens to one posting while its lock is held  *)
(* is one step unless something outside the lock may interfere with it.    *)
(***************************************************************************)
EXTENDS Naturals, Sequences, SequencesExt

CONSTANTS
    Workers, Clients,    \* pool threads; threads that call the index
    Vectors,             \* identities of vectors
    FirstHeads,          \* the heads 0 .. FirstHeads-1 exist from the start
    MaxHeads,            \* bound: number of heads ever created
    Stripes,             \* number of locks in m_rwLocks
    PostingSizeLimit,    \* m_postingSizeLimit
    BufferSizeLimit,     \* m_bufferSizeLimit
    MergeThreshold,      \* m_mergeThreshold
    ReassignThreshold,   \* the slack of appends made by Reassign (3)
    ReplicaCount,        \* m_replicaCount
    VersionMask,         \* 0x7f: a version is a byte, its successor is masked
    ExcludeHead,         \* m_excludehead: a head vector is not in a posting
    DisableReassign,     \* m_disableReassign
    OneCluster,          \* TRUE if k-means may return a single cluster
    OneClusterCutMax,    \* m_oneClusterCutMax
    IoFails,             \* TRUE if a call of the store may fail
    MaxDeletes,          \* bound: number of DeleteIndex calls
    MaxMerges,           \* bound: number of merges started by searches
    MaxMoves,            \* bound: number of reassignments started for distance
    NoThread, NoVector

Threads == Workers \cup Clients

HeadIds == 0 .. MaxHeads - 1

\* "no head": HeadPrev = -1 in the code, an id that no head has here
NoHead == MaxHeads

ASSUME Configuration ==
    /\ Workers \cap Clients = {}
    /\ NoThread \notin Threads
    /\ NoVector \notin Vectors
    /\ FirstHeads \in 1 .. MaxHeads
    /\ Cardinality(Vectors) >= FirstHeads
    /\ ReplicaCount \in Nat \ {0}
    /\ PostingSizeLimit \in Nat \ {0}
    /\ BufferSizeLimit \in Nat \ {0}
    /\ VersionMask \in Nat \ {0}
    /\ Stripes \in Nat \ {0}
    /\ MaxHeads \in Nat
    /\ MergeThreshold \in Nat
    /\ ReassignThreshold \in Nat
    /\ MaxDeletes \in Nat /\ MaxMerges \in Nat /\ MaxMoves \in Nat
    /\ DisableReassign \in BOOLEAN

VARIABLES
    head,        \* head index: each id is "free", "added", "visible" or "deleted"
    translate,   \* m_vectorTranslateMap: the vector a head is, or NoVector
    version,     \* m_versionMap; NoVersion before the vector is added
    db,          \* the posting lists in the store
    sizes,       \* m_postingSizes
    rows,        \* number of rows of m_postingSizes
    rwLocks,     \* m_rwLocks: holder of each stripe
    mergeLock,   \* m_mergeLock
    splitList,   \* m_splitList
    mergeList,   \* m_mergeList
    jobs,        \* queue of m_splitThreadPool
    th,          \* what each thread is doing
    erased,      \* history: the vectors that DeleteIndex has deleted
    budget       \* what is left of MaxDeletes, MaxMerges, MaxMoves

vars == <<head, translate, version, db, sizes, rows, rwLocks, mergeLock,
          splitList, mergeList, jobs, th, erased, budget>>

store == <<head, translate, version, db, sizes, rows>>
locks == <<rwLocks, mergeLock>>
lists == <<splitList, mergeList>>
ghosts == <<erased, budget>>

-----------------------------------------------------------------------------
(***************************************************************************)
(* VersionLabel: a byte per vector, 0xff when new, 0xfe when deleted.      *)
(***************************************************************************)
DeletedVersion == 2 * VersionMask
FirstVersion == DeletedVersion + 1
NoVersion == DeletedVersion + 2

Deleted(v) == version[v] = DeletedVersion

\* The operators whose names start with Mutant are defects that a change of the code
\* could introduce; no specification uses them.
MutantSuccessor(n) == n + 1

Successor(n) == (n + 1) % (VersionMask + 1)

Entry(v, n) == [vid |-> v, ver |-> n]

NoEntry == Entry(NoVector, NoVersion)

Current(e) == ~Deleted(e.vid) /\ version[e.vid] = e.ver

\* The entries of a list that are in S, in the order of the list.
Filter(list, S) ==
    LET kept[i \in 0 .. Len(list)] ==
            IF i = 0 THEN << >>
            ELSE IF list[i] \in S THEN Append(kept[i - 1], list[i]) ELSE kept[i - 1]
    IN  kept[Len(list)]

Live(list) == Filter(list, {e \in Range(list) : Current(e)})

Vids(list) == {list[i].vid : i \in DOMAIN list}

-----------------------------------------------------------------------------
NumSamples == Cardinality({h \in HeadIds : head[h] # "free"})

ContainSample(h) == h \in HeadIds /\ head[h] \in {"added", "visible"}

Visible == {h \in HeadIds : head[h] = "visible"}

Added == {v \in Vectors : version[v] # NoVersion}

Stripe(h) == h % Stripes

Unlocked(h) == rwLocks[Stripe(h)] = NoThread

\* SearchIndex of the head index followed by the RNG test.
RNGSelection(prev) ==
    UNION {{s \in [1 .. n -> Visible \ {prev}] : IsInjective(s)} : n \in 1 .. ReplicaCount}

IdleThread ==
    [pc |-> "idle", head |-> NoHead, e |-> NoEntry, sel |-> << >>, slack |-> 0,
     reassign |-> FALSE, ret |-> "idle", nested |-> FALSE, parts |-> << >>, same |-> 0,
     news |-> << >>, cand |-> {}, other |-> NoHead]

SplitJob(h) == [type |-> "split", head |-> h, reassign |-> ~DisableReassign]

MergeJob(h, disable) == [type |-> "merge", head |-> h, reassign |-> ~disable]

ReassignJob(e, prev) == [type |-> "reassign", e |-> e, prev |-> prev]

Goto(t, pc) == th' = [th EXCEPT ![t].pc = pc]

\* ReassignAsync for every pair of an entry and the head it is in.
Reassigns(moves) == SetToSeq({ReassignJob(m[1], m[2]) : m \in moves})

Init ==
    /\ head = [h \in HeadIds |-> IF h < FirstHeads THEN "visible" ELSE "free"]
    /\ \E f \in [0 .. FirstHeads - 1 -> Vectors] :
          /\ IsInjective(f)
          /\ translate = [h \in HeadIds |->
                             IF ExcludeHead /\ h < FirstHeads THEN f[h] ELSE NoVector]
          /\ version = [v \in Vectors |-> IF v \in Range(f) THEN FirstVersion ELSE NoVersion]
          /\ db = [h \in HeadIds |-> IF h < FirstHeads /\ ~ExcludeHead
                                     THEN <<Entry(f[h], FirstVersion)>> ELSE << >>]
    /\ sizes = [h \in HeadIds |-> Len(db[h])]
    /\ rows = FirstHeads
    /\ rwLocks = [s \in 0 .. Stripes - 1 |-> NoThread]
    /\ mergeLock = NoThread
    /\ splitList = {}
    /\ mergeList = {}
    /\ jobs = << >>
    /\ th = [t \in Threads |-> IdleThread]
    /\ erased = {}
    /\ budget = [deletes |-> MaxDeletes, merges |-> MaxMerges, moves |-> MaxMoves]

-----------------------------------------------------------------------------
(***************************************************************************)
(* Calls of the index.                                                     *)
(***************************************************************************)

\* SPANNIndex::AddIndex and AddIndex: a new vector, a selection of heads and an
\* Append for each of them.
AddIndex(c, v) ==
    /\ th[c].pc = "idle"
    /\ v \notin Added
    /\ version' = [version EXCEPT ![v] = FirstVersion]
    /\ \E s \in RNGSelection(NoHead) :
          th' = [th EXCEPT ![c] = [IdleThread EXCEPT !.pc = "next", !.sel = s,
                                                     !.e = Entry(v, FirstVersion)]]
    /\ UNCHANGED <<head, translate, db, sizes, rows, locks, lists, jobs, ghosts>>

DeleteIndex(c, v) ==
    /\ th[c].pc = "idle"
    /\ v \in Added
    /\ budget.deletes > 0
    /\ version' = [version EXCEPT ![v] = DeletedVersion]
    /\ erased' = erased \cup {v}
    /\ budget' = [budget EXCEPT !.deletes = @ - 1]
    /\ UNCHANGED <<head, translate, db, sizes, rows, locks, lists, jobs, th>>

\* SearchIndex starts a merge of every short posting that it has read.
SearchIndex(c, h) ==
    /\ th[c].pc = "idle"
    /\ h \in Visible
    /\ Len(Filter(db[h], {e \in Range(db[h]) : ~Deleted(e.vid)})) <= MergeThreshold
    /\ h \notin mergeList
    /\ budget.merges > 0
    /\ mergeList' = mergeList \cup {h}
    /\ jobs' = Append(jobs, MergeJob(h, DisableReassign))
    /\ budget' = [budget EXCEPT !.merges = @ - 1]
    /\ UNCHANGED <<store, locks, splitList, th, erased>>

-----------------------------------------------------------------------------
(***************************************************************************)
(* A worker takes the oldest job (ThreadPool) and executes it.             *)
(***************************************************************************)
TakeJob(w) ==
    /\ th[w].pc = "idle"
    /\ jobs # << >>
    /\ jobs' = Tail(jobs)
    /\ LET j == Head(jobs)
       IN  th' = [th EXCEPT ![w] =
                    CASE j.type = "split" ->
                           [IdleThread EXCEPT !.pc = "split", !.head = j.head,
                                              !.reassign = j.reassign]
                      [] j.type = "merge" ->
                           [IdleThread EXCEPT !.pc = "merge", !.head = j.head,
                                              !.reassign = j.reassign]
                      [] j.type = "reassign" ->
                           [IdleThread EXCEPT !.pc = "reassign", !.head = j.prev, !.e = j.e,
                                              !.slack = ReassignThreshold]]
    /\ UNCHANGED <<store, locks, lists, ghosts>>

Finish(t) == th' = [th EXCEPT ![t] = IdleThread]

-----------------------------------------------------------------------------
(***************************************************************************)
(* Append and its callers' loops over the selected heads.                  *)
(***************************************************************************)

\* The next replica.  Reassign goes on only while its version is the current one.
NextReplica(t) ==
    /\ th[t].pc = "next"
    /\ IF \/ th[t].sel = << >>
          \/ th[t].slack > 0 /\ version[th[t].e.vid] # th[t].e.ver
       THEN Finish(t)
       ELSE th' = [th EXCEPT ![t].pc = "append", ![t].head = Head(th[t].sel),
                             ![t].sel = Tail(@)]
    /\ UNCHANGED <<store, locks, lists, jobs, ghosts>>

MutantAppendHeadMiss(t) ==
    /\ th[t].pc = "append"
    /\ ~ContainSample(th[t].head)
    /\ Goto(t, "next")
    /\ UNCHANGED <<store, locks, lists, jobs, ghosts>>

\* checkDeleted: the head is gone, the entry goes to another one by way of Reassign.
AppendHeadMiss(t) ==
    /\ th[t].pc = "append"
    /\ ~ContainSample(th[t].head)
    /\ jobs' = IF version[th[t].e.vid] = th[t].e.ver
               THEN Append(jobs, ReassignJob(th[t].e, th[t].head)) ELSE jobs
    /\ Goto(t, "next")
    /\ UNCHANGED <<store, locks, lists, ghosts>>

AppendCheck(t) ==
    /\ th[t].pc = "append"
    /\ ContainSample(th[t].head)
    /\ Goto(t, "appendlock")
    /\ UNCHANGED <<store, locks, lists, jobs, ghosts>>

\* The second test, under the lock.
AppendRecheck(t) ==
    /\ th[t].pc = "appendlock"
    /\ Unlocked(th[t].head)
    /\ ~ContainSample(th[t].head)
    /\ Goto(t, "append")
    /\ UNCHANGED <<store, locks, lists, jobs, ghosts>>

MutantFull(h) == sizes[h] > PostingSizeLimit + BufferSizeLimit

Full(h) == sizes[h] + 1 > PostingSizeLimit + BufferSizeLimit

\* No room is left: Split at once, in this thread and under the lock it holds.
AppendFull(t) ==
    /\ th[t].pc = "appendlock"
    /\ Unlocked(th[t].head)
    /\ ContainSample(th[t].head)
    /\ Full(th[t].head)
    /\ rwLocks' = [rwLocks EXCEPT ![Stripe(th[t].head)] = t]
    /\ th' = [th EXCEPT ![t].pc = "split", ![t].nested = TRUE, ![t].ret = "append",
                        ![t].reassign = ~DisableReassign]
    /\ UNCHANGED <<store, mergeLock, lists, jobs, ghosts>>

AppendMerge(t) ==
    /\ th[t].pc = "appendlock"
    /\ Unlocked(th[t].head)
    /\ ContainSample(th[t].head)
    /\ ~Full(th[t].head)
    /\ db' = [db EXCEPT ![th[t].head] = Append(@, th[t].e)]
    /\ sizes' = [sizes EXCEPT ![th[t].head] = @ + 1]
    /\ Goto(t, "appended")
    /\ UNCHANGED <<head, translate, version, rows, locks, lists, jobs, ghosts>>

\* The store refuses: Append returns the error, and so does its caller.
AppendFails(t) ==
    /\ IoFails
    /\ th[t].pc = "appendlock"
    /\ Unlocked(th[t].head)
    /\ ContainSample(th[t].head)
    /\ ~Full(th[t].head)
    /\ Finish(t)
    /\ UNCHANGED <<store, locks, lists, jobs, ghosts>>

\* After the lock: an oversized posting is split, by a job or, in Reassign, at once.
AppendEnd(t) ==
    /\ th[t].pc = "appended"
    /\ LET h == th[t].head
           oversized == sizes[h] > PostingSizeLimit + th[t].slack
       IN  \/ /\ oversized /\ th[t].slack > 0
              /\ th' = [th EXCEPT ![t].pc = "split", ![t].nested = FALSE, ![t].ret = "next",
                                  ![t].reassign = ~DisableReassign]
              /\ UNCHANGED <<splitList, jobs>>
           \/ /\ oversized /\ th[t].slack = 0 /\ h \notin splitList
              /\ splitList' = splitList \cup {h}
              /\ jobs' = Append(jobs, SplitJob(h))
              /\ Goto(t, "next")
           \/ /\ ~oversized \/ (th[t].slack = 0 /\ h \in splitList)
              /\ Goto(t, "next")
              /\ UNCHANGED <<splitList, jobs>>
    /\ UNCHANGED <<store, locks, mergeList, ghosts>>

-----------------------------------------------------------------------------
(***************************************************************************)
(* Split.  nested: called by Append, which holds the lock and keeps it     *)
(* until Split returns.  Otherwise Split takes the lock itself.            *)
(***************************************************************************)
MutantReleased(t) == rwLocks

Released(t) == [rwLocks EXCEPT ![Stripe(th[t].head)] = IF @ = t THEN NoThread ELSE @]

SplitReturn(t) ==
    /\ th' = [th EXCEPT ![t] =
                 IF @.ret = "idle" THEN IdleThread
                 ELSE [@ EXCEPT !.pc = th[t].ret, !.ret = "idle", !.nested = FALSE,
                                !.reassign = FALSE, !.parts = << >>, !.same = 0,
                                !.news = << >>, !.other = NoHead]]
    /\ rwLocks' = Released(t)

MayEnterSplit(t) == th[t].pc = "split" /\ (th[t].nested \/ Unlocked(th[t].head))

SplitMissing(t) ==
    /\ MayEnterSplit(t)
    /\ ~ContainSample(th[t].head)
    /\ SplitReturn(t)
    /\ UNCHANGED <<store, mergeLock, lists, jobs, ghosts>>

\* The posting cannot be read, or cannot be written back by one of the next two.
SplitFails(t) ==
    /\ IoFails
    /\ MayEnterSplit(t)
    /\ ContainSample(th[t].head)
    /\ SplitReturn(t)
    /\ UNCHANGED <<store, mergeLock, lists, jobs, ghosts>>

\* Few entries are valid: the posting is compacted instead.
SplitCollectGarbage(t) ==
    /\ MayEnterSplit(t)
    /\ ContainSample(th[t].head)
    /\ LET live == Live(db[th[t].head])
       IN  /\ Len(live) < PostingSizeLimit
           /\ db' = [db EXCEPT ![th[t].head] = live]
           /\ sizes' = [sizes EXCEPT ![th[t].head] = Len(live)]
    /\ splitList' = splitList \ {th[t].head}
    /\ SplitReturn(t)
    /\ UNCHANGED <<head, translate, version, rows, mergeLock, mergeList, jobs, ghosts>>

\* "Only Keep %d vectors": k-means found one cluster.
SplitOneCluster(t) ==
    /\ MayEnterSplit(t)
    /\ ContainSample(th[t].head)
    /\ LET live == Live(db[th[t].head])
           cut == IF OneClusterCutMax THEN PostingSizeLimit ELSE 1
       IN  /\ Len(live) >= PostingSizeLimit
           /\ OneCluster \/ Cardinality(Range(live)) = 1
           /\ \E s \in {f \in [1 .. cut -> DOMAIN live] : IsInjective(f)} :
                 db' = [db EXCEPT ![th[t].head] = [i \in 1 .. cut |-> live[s[i]]]]
           /\ sizes' = [sizes EXCEPT ![th[t].head] = cut]
    /\ splitList' = splitList \ {th[t].head}
    /\ SplitReturn(t)
    /\ UNCHANGED <<head, translate, version, rows, mergeLock, mergeList, jobs, ghosts>>

\* Two clusters; the centre of at most one of them (same) is the old head.
SplitClusters(t) ==
    /\ MayEnterSplit(t)
    /\ ContainSample(th[t].head)
    /\ LET live == Live(db[th[t].head])
       IN  /\ Len(live) >= PostingSizeLimit
           /\ \E S \in (SUBSET Range(live)) \ {{}, Range(live)}, same \in 0 .. 2 :
                 th' = [th EXCEPT ![t].pc = "cluster", ![t].same = same, ![t].news = << >>,
                                  ![t].parts = <<Filter(live, S), Filter(live, Range(live) \ S)>>]
    /\ rwLocks' = [rwLocks EXCEPT ![Stripe(th[t].head)] = t]
    /\ UNCHANGED <<store, mergeLock, lists, jobs, ghosts>>

Cluster(t) == Len(th[t].news) + 1

MutantSplitSameHead(t) ==
    /\ th[t].pc = "cluster"
    /\ Cluster(t) <= 2 /\ Cluster(t) = th[t].same
    /\ db' = [db EXCEPT ![th[t].head] = th[t].parts[Cluster(t)]]
    /\ th' = [th EXCEPT ![t].news = Append(@, th[t].head)]
    /\ UNCHANGED <<head, translate, version, sizes, rows, locks, lists, jobs, ghosts>>

SplitSameHead(t) ==
    /\ th[t].pc = "cluster"
    /\ Cluster(t) <= 2 /\ Cluster(t) = th[t].same
    /\ db' = [db EXCEPT ![th[t].head] = th[t].parts[Cluster(t)]]
    /\ sizes' = [sizes EXCEPT ![th[t].head] = Len(th[t].parts[Cluster(t)])]
    /\ th' = [th EXCEPT ![t].news = Append(@, th[t].head)]
    /\ UNCHANGED <<head, translate, version, rows, locks, lists, jobs, ghosts>>

\* AddIndexId and the first half of IncVersion: the vector nearest to the centre
\* becomes the head and leaves the postings.
SplitNewHead(t) ==
    /\ th[t].pc = "cluster"
    /\ Cluster(t) <= 2 /\ Cluster(t) # th[t].same
    /\ NumSamples < MaxHeads
    /\ head' = [head EXCEPT ![NumSamples] = "added"]
    /\ \E v \in (IF ExcludeHead THEN Vids(th[t].parts[Cluster(t)]) ELSE {NoVector}) :
          /\ translate' = [translate EXCEPT ![NumSamples] = v]
          /\ th' = [th EXCEPT ![t].other = NumSamples,
                              ![t].pc = IF ExcludeHead /\ ~Deleted(v) THEN "center" ELSE "put"]
    /\ UNCHANGED <<version, db, sizes, rows, locks, lists, jobs, ghosts>>

IncVersion(v) == version' = [version EXCEPT ![v] = Successor(@)]

SplitIncVersion(t) ==
    /\ th[t].pc = "center"
    /\ IncVersion(translate[th[t].other])
    /\ Goto(t, "put")
    /\ UNCHANGED <<head, translate, db, sizes, rows, locks, lists, jobs, ghosts>>

SplitPut(t) ==
    /\ th[t].pc = "put"
    /\ db' = [db EXCEPT ![th[t].other] = th[t].parts[Cluster(t)]]
    /\ Goto(t, "addrow")
    /\ UNCHANGED <<head, translate, version, sizes, rows, locks, lists, jobs, ghosts>>

\* The write fails, or m_postingSizes cannot grow.
SplitPutFails(t) ==
    /\ IoFails
    /\ \/ th[t].pc \in {"put", "addrow"}
       \/ th[t].pc = "cluster" /\ Cluster(t) = th[t].same
    /\ SplitReturn(t)
    /\ UNCHANGED <<store, mergeLock, lists, jobs, ghosts>>

\* Under m_dataAddLock: a row for the size, then AddIndexIdx makes the head visible.
SplitAddRow(t) ==
    /\ th[t].pc = "addrow"
    /\ rows' = rows + 1
    /\ sizes' = [sizes EXCEPT ![th[t].other] = Len(th[t].parts[Cluster(t)])]
    /\ head' = [head EXCEPT ![th[t].other] = "visible"]
    /\ th' = [th EXCEPT ![t].pc = "cluster", ![t].news = Append(@, th[t].other)]
    /\ UNCHANGED <<translate, version, db, locks, lists, jobs, ghosts>>

RemoveHead(h) ==
    /\ head' = [head EXCEPT ![h] = "deleted"]
    /\ sizes' = [sizes EXCEPT ![h] = 0]

SplitOldHead(t) ==
    /\ th[t].pc = "cluster"
    /\ Cluster(t) = 3
    /\ IF th[t].same = 0
       THEN /\ RemoveHead(th[t].head)
            /\ db' = [db EXCEPT ![th[t].head] = << >>]
       ELSE UNCHANGED <<head, sizes, db>>
    /\ rwLocks' = IF th[t].nested THEN rwLocks ELSE Released(t)
    /\ Goto(t, "erase")
    /\ UNCHANGED <<translate, version, rows, mergeLock, lists, jobs, ghosts>>

SplitDeleteFails(t) ==
    /\ IoFails
    /\ th[t].pc = "cluster"
    /\ Cluster(t) = 3
    /\ th[t].same = 0
    /\ RemoveHead(th[t].head)
    /\ SplitReturn(t)
    /\ UNCHANGED <<translate, version, db, rows, mergeLock, lists, jobs, ghosts>>

MutantSplitErase(t) ==
    /\ th[t].pc = "erase"
    /\ IF th[t].reassign
       THEN Goto(t, "collect") /\ UNCHANGED rwLocks
       ELSE SplitReturn(t)
    /\ UNCHANGED <<store, mergeLock, lists, jobs, ghosts>>

SplitErase(t) ==
    /\ th[t].pc = "erase"
    /\ splitList' = splitList \ {th[t].head}
    /\ IF th[t].reassign
       THEN Goto(t, "collect") /\ UNCHANGED rwLocks
       ELSE SplitReturn(t)
    /\ UNCHANGED <<store, mergeLock, mergeList, jobs, ghosts>>

\* The vector of a removed head goes back into a posting.
HeadVectorJob(h) ==
    LET v == translate[h]
    IN  IF ExcludeHead /\ v # NoVector /\ ~Deleted(v)
        THEN <<ReassignJob(Entry(v, version[v]), NoHead)>> ELSE << >>

\* One entry per vector, and no more than the bound allows.
Moves(candidates) ==
    {M \in SUBSET candidates :
        /\ Cardinality(M) <= budget.moves
        /\ \A m, n \in M : m[1].vid = n[1].vid => m = n}

CollectReAssign(t) ==
    /\ th[t].pc = "collect"
    /\ \E M \in Moves(UNION {{<<e, th[t].news[i]>> : e \in Range(Live(th[t].parts[i]))}
                                : i \in 1 .. 2}) :
          /\ jobs' = jobs \o (IF th[t].same = 0 THEN HeadVectorJob(th[t].head) ELSE << >>)
                          \o Reassigns(M)
          /\ budget' = [budget EXCEPT !.moves = @ - Cardinality(M)]
    /\ SplitReturn(t)
    /\ UNCHANGED <<store, mergeLock, lists, erased>>

-----------------------------------------------------------------------------
(***************************************************************************)
(* MergePostings.  m_mergeLock admits one merge at a time; a second one    *)
(* puts itself back into the queue.  parts holds the valid entries and the *)
(* raw posting of the head, cand the search results still to be tried.     *)
(***************************************************************************)
MergeRequeue(t) ==
    /\ th[t].pc = "merge"
    /\ mergeLock # NoThread
    /\ jobs' = Append(jobs, MergeJob(th[t].head, th[t].reassign))
    /\ Finish(t)
    /\ UNCHANGED <<store, locks, lists, ghosts>>

MergeBegin(t) ==
    /\ th[t].pc = "merge"
    /\ mergeLock = NoThread
    /\ mergeLock' = t
    /\ Goto(t, "mergelock")
    /\ UNCHANGED <<store, rwLocks, lists, jobs, ghosts>>

\* The head is gone, or its posting cannot be read or written back.
MergeAbandon(t) ==
    /\ th[t].pc = "mergelock"
    /\ Unlocked(th[t].head)
    /\ IoFails \/ ~ContainSample(th[t].head)
    /\ mergeLock' = NoThread
    /\ Finish(t)
    /\ UNCHANGED <<store, rwLocks, lists, jobs, ghosts>>

MutantMergeNotNeeded(t) ==
    /\ th[t].pc = "mergelock"
    /\ Unlocked(th[t].head)
    /\ ContainSample(th[t].head)
    /\ LET live == Live(db[th[t].head])
       IN  /\ Len(live) > MergeThreshold
           /\ db' = [db EXCEPT ![th[t].head] = live]
           /\ sizes' = [sizes EXCEPT ![th[t].head] = Len(live)]
    /\ mergeList' = mergeList \ {th[t].head}
    /\ Finish(t)
    /\ UNCHANGED <<head, translate, version, rows, locks, splitList, jobs, ghosts>>

\* Enough entries are valid after all: the posting is only compacted.
MergeNotNeeded(t) ==
    /\ th[t].pc = "mergelock"
    /\ Unlocked(th[t].head)
    /\ ContainSample(th[t].head)
    /\ LET live == Live(db[th[t].head])
       IN  /\ Len(live) > MergeThreshold
           /\ db' = [db EXCEPT ![th[t].head] = live]
           /\ sizes' = [sizes EXCEPT ![th[t].head] = Len(live)]
    /\ mergeList' = mergeList \ {th[t].head}
    /\ mergeLock' = NoThread
    /\ Finish(t)
    /\ UNCHANGED <<head, translate, version, rows, rwLocks, splitList, jobs, ghosts>>

\* The search for near heads.  Its first result is skipped: it should be the head
\* itself, but any head may come first.
MergeSearch(t) ==
    /\ th[t].pc = "mergelock"
    /\ Unlocked(th[t].head)
    /\ ContainSample(th[t].head)
    /\ Len(Live(db[th[t].head])) <= MergeThreshold
    /\ rwLocks' = [rwLocks EXCEPT ![Stripe(th[t].head)] = t]
    /\ \E first \in Visible :
          th' = [th EXCEPT ![t].pc = "candidate", ![t].cand = Visible \ {first},
                           ![t].parts = <<Live(db[th[t].head]), db[th[t].head]>>]
    /\ UNCHANGED <<store, mergeLock, lists, jobs, ghosts>>

MutantMergeable(t, c) == Len(th[t].parts[1]) + sizes[c] < PostingSizeLimit

Mergeable(t, c) ==
    /\ Len(th[t].parts[1]) + sizes[c] < PostingSizeLimit
    /\ c \notin mergeList

\* The size and m_mergeList are read before the candidate is locked.
MergeCandidate(t) ==
    /\ th[t].pc = "candidate"
    /\ \E c \in th[t].cand :
          th' = IF Mergeable(t, c)
                THEN [th EXCEPT ![t].pc = "mergeother", ![t].other = c]
                ELSE [th EXCEPT ![t].cand = @ \ {c}]
    /\ UNCHANGED <<store, locks, lists, jobs, ghosts>>

MayLockOther(t) ==
    /\ th[t].pc = "mergeother"
    /\ Stripe(th[t].other) = Stripe(th[t].head) \/ Unlocked(th[t].other)

MergeOtherMissing(t) ==
    /\ MayLockOther(t)
    /\ ~ContainSample(th[t].other)
    /\ th' = [th EXCEPT ![t].pc = "candidate", ![t].cand = @ \ {th[t].other},
                        ![t].other = NoHead]
    /\ UNCHANGED <<store, locks, lists, jobs, ghosts>>

MergeOtherFails(t) ==
    /\ IoFails
    /\ MayLockOther(t)
    /\ ContainSample(th[t].other)
    /\ rwLocks' = Released(t)
    /\ mergeLock' = NoThread
    /\ Finish(t)
    /\ UNCHANGED <<store, lists, jobs, ghosts>>

\* The valid entries of the candidate whose vector the head's posting lacks.
Fresh(t) ==
    LET live == Live(db[th[t].other])
    IN  Filter(live, {e \in Range(live) : e.vid \notin Vids(th[t].parts[1])})

Absorbs(t) == Len(th[t].parts[1]) > Len(Live(db[th[t].other]))

Kept(t) == IF Absorbs(t) THEN th[t].head ELSE th[t].other

Removed(t) == IF Absorbs(t) THEN th[t].other ELSE th[t].head

\* What the loops of the reassignment look at: as many entries of the removed
\* posting as were valid, counted from its start.
Scanned(t) ==
    IF Absorbs(t)
    THEN SubSeq(db[th[t].other], 1, Len(Live(db[th[t].other])))
    ELSE SubSeq(th[t].parts[2], 1, Len(th[t].parts[1]))

\* The shorter posting goes into the longer one, both under their locks.
Merged(t, removed) ==
    LET merged == th[t].parts[1] \o Fresh(t)
    IN  /\ db' = [db EXCEPT ![Kept(t)] = merged, ![Removed(t)] = removed]
        /\ sizes' = [sizes EXCEPT ![Kept(t)] = Len(merged), ![Removed(t)] = 0]
        /\ head' = [head EXCEPT ![Removed(t)] = "deleted"]
        /\ rwLocks' = Released(t)
        /\ mergeLock' = NoThread

MergeOther(t) ==
    /\ MayLockOther(t)
    /\ ContainSample(th[t].other)
    /\ Merged(t, << >>)
    /\ th' = [th EXCEPT ![t].pc = "merged", ![t].news = <<Kept(t), Removed(t)>>,
                        ![t].parts = <<Scanned(t)>>, ![t].cand = {}]
    /\ UNCHANGED <<translate, version, rows, lists, jobs, ghosts>>

\* The merged posting is written, the other one cannot be deleted.
MergeDeleteFails(t) ==
    /\ IoFails
    /\ MayLockOther(t)
    /\ ContainSample(th[t].other)
    /\ Merged(t, db[Removed(t)])
    /\ Finish(t)
    /\ UNCHANGED <<translate, version, rows, lists, jobs, ghosts>>

\* The head of the shorter posting is deleted first; then the write fails.
MergePutFails(t) ==
    /\ IoFails
    /\ MayLockOther(t)
    /\ ContainSample(th[t].other)
    /\ head' = [head EXCEPT ![Removed(t)] = "deleted"]
    /\ rwLocks' = Released(t)
    /\ mergeLock' = NoThread
    /\ Finish(t)
    /\ UNCHANGED <<translate, version, db, sizes, rows, lists, jobs, ghosts>>

MergeReassign(t) ==
    /\ th[t].pc = "merged"
    /\ LET kept == th[t].news[1]
           removed == th[t].news[2]
       IN  IF th[t].reassign
           THEN \E M \in Moves({<<e, kept>> : e \in Range(th[t].parts[1])}) :
                   /\ jobs' = jobs \o Reassigns(M) \o HeadVectorJob(removed)
                   /\ budget' = [budget EXCEPT !.moves = @ - Cardinality(M)]
           ELSE UNCHANGED <<jobs, budget>>
    /\ mergeList' = mergeList \ {th[t].head}
    /\ Finish(t)
    /\ UNCHANGED <<store, locks, splitList, erased>>

\* No candidate fits: the posting is compacted.
MergeWriteBack(t) ==
    /\ th[t].pc = "candidate"
    /\ th[t].cand = {}
    /\ db' = [db EXCEPT ![th[t].head] = th[t].parts[1]]
    /\ sizes' = [sizes EXCEPT ![th[t].head] = Len(th[t].parts[1])]
    /\ mergeList' = mergeList \ {th[t].head}
    /\ rwLocks' = Released(t)
    /\ mergeLock' = NoThread
    /\ Finish(t)
    /\ UNCHANGED <<head, translate, version, rows, splitList, jobs, ghosts>>

\* The write fails: MergePostings returns without m_mergeLock.unlock().
MergeWriteBackFails(t) ==
    /\ IoFails
    /\ th[t].pc = "candidate"
    /\ th[t].cand = {}
    /\ rwLocks' = Released(t)
    /\ Finish(t)
    /\ UNCHANGED <<store, mergeLock, lists, jobs, ghosts>>

-----------------------------------------------------------------------------
(***************************************************************************)
(* Reassign.                                                               *)
(***************************************************************************)
ReassignStale(t) ==
    /\ th[t].pc = "reassign"
    /\ ~Current(th[t].e)
    /\ Finish(t)
    /\ UNCHANGED <<store, locks, lists, jobs, ghosts>>

\* The selection contains the head where the vector is already: nothing to do.
ReassignNotNeeded(t) ==
    /\ th[t].pc = "reassign"
    /\ Current(th[t].e)
    /\ th[t].head \in Visible
    /\ Finish(t)
    /\ UNCHANGED <<store, locks, lists, jobs, ghosts>>

ReassignSelect(t) ==
    /\ th[t].pc = "reassign"
    /\ Current(th[t].e)
    /\ \E s \in RNGSelection(th[t].head) :
          th' = [th EXCEPT ![t].pc = "reassigncheck", ![t].sel = s, ![t].head = NoHead]
    /\ UNCHANGED <<store, locks, lists, jobs, ghosts>>

\* The second test of the version, and the test for deletion that IncVersion makes.
ReassignCheck(t) ==
    /\ th[t].pc = "reassigncheck"
    /\ IF Current(th[t].e) THEN Goto(t, "inc") ELSE Finish(t)
    /\ UNCHANGED <<store, locks, lists, jobs, ghosts>>

\* IncVersion reads the version again and exchanges it: whatever it is by now.
ReassignIncVersion(t) ==
    /\ th[t].pc = "inc"
    /\ IncVersion(th[t].e.vid)
    /\ th' = [th EXCEPT ![t].pc = "next", ![t].e.ver = Successor(version[th[t].e.vid])]
    /\ UNCHANGED <<head, translate, db, sizes, rows, locks, lists, jobs, ghosts>>

-----------------------------------------------------------------------------
AppendStep(t) ==
    \/ NextReplica(t) \/ AppendHeadMiss(t) \/ AppendCheck(t) \/ AppendRecheck(t)
    \/ AppendFull(t) \/ AppendMerge(t) \/ AppendFails(t) \/ AppendEnd(t)

SplitStep(t) ==
    \/ SplitMissing(t) \/ SplitFails(t) \/ SplitCollectGarbage(t) \/ SplitOneCluster(t)
    \/ SplitClusters(t) \/ SplitSameHead(t) \/ SplitNewHead(t) \/ SplitIncVersion(t)
    \/ SplitPut(t) \/ SplitPutFails(t) \/ SplitAddRow(t) \/ SplitOldHead(t)
    \/ SplitDeleteFails(t) \/ SplitErase(t) \/ CollectReAssign(t)

MergeStep(t) ==
    \/ MergeRequeue(t) \/ MergeBegin(t) \/ MergeAbandon(t) \/ MergeNotNeeded(t)
    \/ MergeSearch(t) \/ MergeCandidate(t) \/ MergeOtherMissing(t) \/ MergeOtherFails(t)
    \/ MergeOther(t) \/ MergeDeleteFails(t) \/ MergePutFails(t) \/ MergeReassign(t)
    \/ MergeWriteBack(t) \/ MergeWriteBackFails(t)

ReassignStep(t) ==
    \/ ReassignStale(t) \/ ReassignNotNeeded(t) \/ ReassignSelect(t) \/ ReassignCheck(t)
    \/ ReassignIncVersion(t)

ThreadStep(t) == AppendStep(t) \/ SplitStep(t)

WorkerStep(w) == TakeJob(w) \/ ThreadStep(w) \/ MergeStep(w) \/ ReassignStep(w)

Next ==
    \/ \E c \in Clients : ThreadStep(c)
    \/ \E c \in Clients, v \in Vectors : AddIndex(c, v) \/ DeleteIndex(c, v)
    \/ \E c \in Clients, h \in HeadIds : SearchIndex(c, h)
    \/ \E w \in Workers : WorkerStep(w)

Spec == Init /\ [][Next]_vars

\* Every thread that can go on does; nobody has to call the index.
FairSpec ==
    /\ Spec
    /\ \A c \in Clients : WF_vars(ThreadStep(c))
    /\ \A w \in Workers : WF_vars(WorkerStep(w))

-----------------------------------------------------------------------------
Entries == [vid : Vectors, ver : 0 .. FirstVersion]

\* The types of the shared state.
TypeOK ==
    /\ head \in [HeadIds -> {"free", "added", "visible", "deleted"}]
    /\ translate \in [HeadIds -> Vectors \cup {NoVector}]
    /\ version \in [Vectors -> 0 .. NoVersion]
    /\ \A h \in HeadIds : Range(db[h]) \subseteq Entries
    /\ sizes \in [HeadIds -> Nat]
    /\ rows \in Nat
    /\ rwLocks \in [0 .. Stripes - 1 -> Threads \cup {NoThread}]
    /\ mergeLock \in Threads \cup {NoThread}
    /\ splitList \subseteq HeadIds
    /\ mergeList \subseteq HeadIds

Quiescent == jobs = << >> /\ \A t \in Threads : th[t].pc = "idle"

\* A search can reach the vector, and no later compaction will drop it.
Held(v) ==
    \/ \E h \in Visible : Entry(v, version[v]) \in Range(db[h])
    \/ \E h \in Visible : translate[h] = v

\* "Support online vector deletion and insertion": when no update is in progress,
\* every vector that was added and not deleted is a visible head or has a valid
\* entry in the posting of a visible head, however appends, splits, merges and
\* reassignments have interleaved (ExtraDynamicSearcher.h:913-2011).
NoVectorLost == Quiescent => \A v \in Added \ erased : Held(v)

\* The most entries that a posting may hold.
PostingBound ==
    PostingSizeLimit + BufferSizeLimit + (IF MaxMerges = 0 THEN 0 ELSE MergeThreshold)

\* No posting outgrows the limit plus the buffer: the test in Append happens under
\* the lock (ExtraDynamicSearcher.h:1885) and a split shortens.  A merge reads the size of
\* its candidate before it locks it (line 1342); appends may fill the candidate meanwhile,
\* and what the merge adds to it, at most m_mergeThreshold entries, comes on top.
PostingBounded == \A h \in HeadIds : Len(db[h]) <= PostingBound

\* m_postingSizes tells the length of the stored posting whenever nobody holds the
\* posting's lock, after a failed call of the store too: it is the size that
\* db->Check is given (ExtraDynamicSearcher.h:1025).
SizesMatch == \A h \in Visible : Unlocked(h) => sizes[h] = Len(db[h])

\* m_splitList and m_mergeList keep a head from being queued twice.  When no update
\* is in progress neither names a head that exists: such a head would never be split
\* or merged again (ExtraDynamicSearcher.h:1036, 1222, 1320, 1524).
NoStuckHead == Quiescent => \A h \in splitList \cup mergeList : ~ContainSample(h)

\* Whatever fails, no thread leaves a posting lock behind: a lock is held only from
\* the step that takes it until Split or MergePostings returns.
LocksReleased ==
    \A s \in DOMAIN rwLocks :
        rwLocks[s] # NoThread =>
            th[rwLocks[s]].pc \in {"split", "cluster", "center", "put", "addrow", "erase",
                                   "collect", "candidate", "mergeother"}

\* A deleted vector stays deleted (VersionLabel.h:45-99).
StaysDeleted == \A v \in erased : Deleted(v)

\* "Waiting for index update complete" (ExtraDynamicSearcher.h:3199): Checkpoint waits
\* until the pool is idle, and if nobody calls the index that moment comes: splits,
\* merges that put themselves back into the queue and reassignments come to an end.
Settles == []<>Quiescent
=============================================================================
