--------------------------- MODULE FileIO_types ---------------------------
(***************************************************************************)
(* The type invariant of FileIO, for every value of the constants.  It     *)
(* rests on what each thread's record looks like in each phase of its      *)
(* operation (Hand) and on the expansion lock: only its holder extends the *)
(* file, and it stays below MaxBlocks (GrowthOK).                          *)
(***************************************************************************)
EXTENDS FileIO, TLAPS

Releases(r) == r.at \in {"release", "relpush"}
Growing(r) == r.at \in {"push", "label"}

\* The record of a thread: a single block is in transit between a pop and its
\* reset and between an insert and its push; an operation has nothing to give back
\* before it releases; a failed one gives back what it got.
Hand(r) ==
    /\ r.cur # NoBlock <=> r.at \in {"reset", "relpush"}
    /\ r.at = "reset" => r.need > 0
    /\ ~Releases(r) => r.old = {} /\ r.rel = {} /\ r.ok
    /\ ~r.ok => r.old = {} /\ r.got = {}
    /\ r.kind # "merge" => r.kept = {}
    /\ r.kind = "delete" => r.got = {} /\ (Releases(r) \/ r.at = "idle")
    /\ r.at = "idle" <=> r.key = NoKey
    /\ r.at \in {"idle", "get", "recheck", "push", "label"} => r.got = {}
    /\ Growing(r) => r.grown <= r.grow
    /\ r.at = "label" => r.grown < r.grow

ThreadsOK == th \in [Threads -> ThreadState] /\ \A t \in Threads : Hand(th[t])

\* Expansion happens under the lock and stays within the file's limit.
GrowthOK ==
    \A t \in Threads :
        /\ th[t].at \in {"recheck", "push", "label"} => m_expandLock = t
        /\ Growing(th[t]) => m_totalAllocatedBlocks + th[t].grow <= MaxBlocks

TInv == TypeOK /\ ThreadsOK /\ GrowthOK

-----------------------------------------------------------------------------
\* A thread that executes nothing has a well-formed record.
LEMMA IdleHand == IdleThread \in ThreadState /\ Hand(IdleThread)
  BY DEF IdleThread, ThreadState, Hand, Releases, Growing, NoBlock, Blocks, Phases

\* A step that gives one thread a well-formed record keeps all of them so.
LEMMA Install ==
    ASSUME ThreadsOK, NEW t \in Threads, NEW s \in ThreadState, Hand(s),
           th' = [th EXCEPT ![t] = s]
    PROVE  ThreadsOK'
  BY DEF ThreadsOK

\* A step of a thread that is not expanding afterwards and leaves the lock alone or
\* held it keeps GrowthOK.
LEMMA NoGrowth ==
    ASSUME TInv, NEW t \in Threads, NEW s \in ThreadState, th' = [th EXCEPT ![t] = s],
           s.at \notin {"recheck", "push", "label"},
           UNCHANGED m_totalAllocatedBlocks,
           UNCHANGED m_expandLock \/ th[t].at \in {"recheck", "push", "label"}
    PROVE  GrowthOK'
  BY DEF TInv, TypeOK, GrowthOK, Growing, ThreadsOK

\* Put starts with a fresh record.
LEMMA PutTypes ==
    ASSUME TInv, NEW t \in Threads, NEW k \in Keys, NEW n \in 0 .. BlockLimit - 1, NEW p \in BOOLEAN,
           Put(t, k, n, p)
    PROVE  TInv'
<1> DEFINE r == th[t]
           s == [IdleThread EXCEPT !.at = "get", !.key = k, !.need = n, !.partial = p]
<1>1. /\ TypeOK /\ ThreadsOK /\ GrowthOK
      /\ r \in ThreadState /\ Hand(r) /\ m_pBlockMapping \in [Keys -> List]
  BY DEF TInv, ThreadsOK, TypeOK
<1>2. th' = [th EXCEPT ![t] = s]
  BY <1>1 DEF Put, ThreadState
<1>3. n \in Nat
  BY <1>1, SizesAssumption DEF Put, MayStart, ThreadState, List, BlocksOf, Hand, GrowBy, Replaced
<1>4. s \in ThreadState
  BY <1>1, <1>3, IdleHand DEF ThreadState, IdleThread, Phases, NoBlock
<1>5. ThreadsOK'
  <2>1. Hand(s)
    BY <1>1, <1>3, IdleHand, SwitchesAssumption
       DEF Put, ThreadState, Hand, Releases, Growing, NoBlock, Blocks, IdleThread
  <2> QED BY <1>1, <1>2, <1>4, <2>1, Install
<1>6. GrowthOK'
  <2>1. s.at = "get"
    BY <1>1 DEF ThreadState, IdleThread
  <2> QED BY <1>1, <1>2, <1>4, <2>1, NoGrowth DEF Put, TInv, pool, files
<1>7. TypeOK'
  BY <1>1, <1>5 DEF Put, TypeOK, ThreadsOK, pool, files
<1> QED BY <1>5, <1>6, <1>7 DEF TInv

\* Merge starts with a fresh record and the full pages it keeps.
LEMMA MergeTypes ==
    ASSUME TInv, NEW t \in Threads, NEW k \in Keys, NEW n \in 0 .. BlockLimit - 1, NEW p \in BOOLEAN,
           Merge(t, k, n, p)
    PROVE  TInv'
<1> DEFINE r == th[t]
           s == [IdleThread EXCEPT !.at = "get", !.key = k, !.need = n, !.partial = p,
                                  !.kind = "merge", !.kept = m_pBlockMapping[k].full]
<1>1. /\ TypeOK /\ ThreadsOK /\ GrowthOK
      /\ r \in ThreadState /\ Hand(r) /\ m_pBlockMapping \in [Keys -> List]
  BY DEF TInv, ThreadsOK, TypeOK
<1>2. th' = [th EXCEPT ![t] = s]
  BY <1>1 DEF Merge, ThreadState
<1>3. n \in Nat /\ m_pBlockMapping[k].full \subseteq Blocks
  BY <1>1, SizesAssumption DEF Merge, MayStart, ThreadState, List, BlocksOf, Hand, GrowBy, Replaced
<1>4. s \in ThreadState
  BY <1>1, <1>3, IdleHand DEF ThreadState, IdleThread, Phases, NoBlock
<1>5. ThreadsOK'
  <2>1. Hand(s)
    BY <1>1, <1>3, IdleHand, SwitchesAssumption
       DEF Merge, ThreadState, Hand, Releases, Growing, NoBlock, Blocks, IdleThread
  <2> QED BY <1>1, <1>2, <1>4, <2>1, Install
<1>6. GrowthOK'
  <2>1. s.at = "get"
    BY <1>1 DEF ThreadState, IdleThread
  <2> QED BY <1>1, <1>2, <1>4, <2>1, NoGrowth DEF Merge, TInv, pool, files
<1>7. TypeOK'
  BY <1>1, <1>5 DEF Merge, TypeOK, ThreadsOK, pool, files
<1> QED BY <1>5, <1>6, <1>7 DEF TInv

\* Delete starts with the blocks to release.
LEMMA DeleteTypes ==
    ASSUME TInv, NEW t \in Threads, NEW k \in Keys, Delete(t, k)
    PROVE  TInv'
<1> DEFINE r == th[t]
           s == [IdleThread EXCEPT !.at = "release", !.key = k, !.kind = "delete",
                                  !.old = BlocksOf(m_pBlockMapping[k]),
                                  !.rel = BlocksOf(m_pBlockMapping[k])]
<1>1. /\ TypeOK /\ ThreadsOK /\ GrowthOK
      /\ r \in ThreadState /\ Hand(r) /\ m_pBlockMapping \in [Keys -> List]
  BY DEF TInv, ThreadsOK, TypeOK
<1>2. th' = [th EXCEPT ![t] = s]
  BY <1>1 DEF Delete, ThreadState
<1>3. BlocksOf(m_pBlockMapping[k]) \subseteq Blocks
  BY <1>1, SizesAssumption DEF Delete, MayStart, ThreadState, List, BlocksOf, Hand, GrowBy, Replaced
<1>4. s \in ThreadState
  BY <1>1, <1>3, IdleHand DEF ThreadState, IdleThread, Phases, NoBlock
<1>5. ThreadsOK'
  <2>1. Hand(s)
    BY <1>1, <1>3, IdleHand, SwitchesAssumption
       DEF Delete, ThreadState, Hand, Releases, Growing, NoBlock, Blocks, IdleThread
  <2> QED BY <1>1, <1>2, <1>4, <2>1, Install
<1>6. GrowthOK'
  <2>1. s.at = "release"
    BY <1>1 DEF ThreadState, IdleThread
  <2> QED BY <1>1, <1>2, <1>4, <2>1, NoGrowth DEF Delete, TInv, pool, files
<1>7. TypeOK'
  BY <1>1, <1>5 DEF Delete, TypeOK, ThreadsOK, pool, files
<1> QED BY <1>5, <1>6, <1>7 DEF TInv

\* Leaving the expansion without extending the file gives the lock back.
LEMMA SkipExpansionTypes ==
    ASSUME TInv, NEW t \in Threads, SkipExpansion(t)
    PROVE  TInv'
<1> DEFINE r == th[t]
           s == [r EXCEPT !.at = "pop"]
<1>1. /\ TypeOK /\ ThreadsOK /\ GrowthOK
      /\ r \in ThreadState /\ Hand(r) /\ m_pBlockMapping \in [Keys -> List]
  BY DEF TInv, ThreadsOK, TypeOK
<1>2. th' = [th EXCEPT ![t] = s]
  BY <1>1 DEF SkipExpansion, ThreadState
<1>4. s \in ThreadState
  BY <1>1, IdleHand DEF ThreadState, IdleThread, Phases, NoBlock
<1>5. ThreadsOK'
  <2>1. Hand(s)
    BY <1>1, IdleHand, SwitchesAssumption
       DEF SkipExpansion, ThreadState, Hand, Releases, Growing, NoBlock, Blocks, IdleThread
  <2> QED BY <1>1, <1>2, <1>4, <2>1, Install
<1>6. GrowthOK'
  <2>1. s.at = "pop"
    BY <1>1 DEF ThreadState, IdleThread
  <2> QED BY <1>1, <1>2, <1>4, <2>1, NoGrowth DEF SkipExpansion, TInv, pool, files
<1>7. TypeOK'
  BY <1>1, <1>5 DEF SkipExpansion, TypeOK, ThreadsOK, pool, files
<1> QED BY <1>5, <1>6, <1>7 DEF TInv

\* A failed extension gives the lock back and ends the operation.
LEMMA ExpandFileFailsTypes ==
    ASSUME TInv, NEW t \in Threads, ExpandFileFails(t)
    PROVE  TInv'
<1> DEFINE r == th[t]
           s == IdleThread
<1>1. /\ TypeOK /\ ThreadsOK /\ GrowthOK
      /\ r \in ThreadState /\ Hand(r) /\ m_pBlockMapping \in [Keys -> List]
  BY DEF TInv, ThreadsOK, TypeOK
<1>2. th' = [th EXCEPT ![t] = s]
  BY <1>1 DEF ExpandFileFails, ThreadState
<1>4. s \in ThreadState
  BY <1>1, IdleHand DEF ThreadState, IdleThread, Phases, NoBlock
<1>5. ThreadsOK'
  <2>1. Hand(s)
    BY <1>1, IdleHand, SwitchesAssumption
       DEF ExpandFileFails, ThreadState, Hand, Releases, Growing, NoBlock, Blocks, IdleThread
  <2> QED BY <1>1, <1>2, <1>4, <2>1, Install
<1>6. GrowthOK'
  <2>1. s.at = "idle"
    BY <1>1 DEF ThreadState, IdleThread
  <2> QED BY <1>1, <1>2, <1>4, <2>1, NoGrowth DEF ExpandFileFails, TInv, pool, files
<1>7. TypeOK'
  BY <1>1, <1>5 DEF ExpandFileFails, TypeOK, ThreadsOK, pool, files
<1> QED BY <1>5, <1>6, <1>7 DEF TInv

\* The extension fits below MaxBlocks when it begins.
LEMMA ExpandFileTypes ==
    ASSUME TInv, NEW t \in Threads, ExpandFile(t)
    PROVE  TInv'
<1> DEFINE r == th[t]
           s == [r EXCEPT !.at = "push", !.grow = GrowBy(r.need), !.grown = 0]
<1>1. /\ TypeOK /\ ThreadsOK /\ GrowthOK
      /\ r \in ThreadState /\ Hand(r) /\ m_pBlockMapping \in [Keys -> List]
  BY DEF TInv, ThreadsOK, TypeOK
<1>2. th' = [th EXCEPT ![t] = s]
  BY <1>1 DEF ExpandFile, ThreadState
<1>3. GrowBy(r.need) \in Nat
  BY <1>1, SizesAssumption DEF ExpandFile, MayStart, ThreadState, List, BlocksOf, Hand, GrowBy, Replaced
<1>4. s \in ThreadState
  BY <1>1, <1>3, IdleHand DEF ThreadState, IdleThread, Phases, NoBlock
<1>5. ThreadsOK'
  <2>1. Hand(s)
    BY <1>1, <1>3, IdleHand, SwitchesAssumption
       DEF ExpandFile, ThreadState, Hand, Releases, Growing, NoBlock, Blocks, IdleThread
  <2> QED BY <1>1, <1>2, <1>4, <2>1, Install
<1>6. GrowthOK'
  <2>1. s.at = "push" /\ s.grow = GrowBy(r.need)
    BY <1>1 DEF ThreadState
  <2>2. m_expandLock = t /\ m_totalAllocatedBlocks + GrowBy(r.need) <= MaxBlocks
    BY <1>1 DEF ExpandFile, CanGrow, GrowthOK
  <2> QED BY <1>1, <1>2, <2>1, <2>2 DEF ExpandFile, GrowthOK, Growing, ThreadsOK
<1>7. TypeOK'
  BY <1>1, <1>5 DEF ExpandFile, TypeOK, ThreadsOK, pool, files
<1> QED BY <1>5, <1>6, <1>7 DEF TInv

\* A new block has a number below MaxBlocks.
LEMMA ExpandPushTypes ==
    ASSUME TInv, NEW t \in Threads, ExpandPush(t)
    PROVE  TInv'
<1> DEFINE r == th[t]
           s == [r EXCEPT !.at = "label"]
<1>1. /\ TypeOK /\ ThreadsOK /\ GrowthOK
      /\ r \in ThreadState /\ Hand(r) /\ m_pBlockMapping \in [Keys -> List]
  BY DEF TInv, ThreadsOK, TypeOK
<1>2. th' = [th EXCEPT ![t] = s]
  BY <1>1 DEF ExpandPush, ThreadState
<1>4. s \in ThreadState
  BY <1>1, IdleHand DEF ThreadState, IdleThread, Phases, NoBlock
<1>5. ThreadsOK'
  <2>1. Hand(s)
    BY <1>1, IdleHand, SwitchesAssumption
       DEF ExpandPush, ThreadState, Hand, Releases, Growing, NoBlock, Blocks, IdleThread
  <2> QED BY <1>1, <1>2, <1>4, <2>1, Install
<1>6. GrowthOK'
  <2>1. s.at = "label" /\ s.grow = r.grow
    BY <1>1 DEF ThreadState
  <2> QED BY <1>1, <1>2, <2>1 DEF ExpandPush, GrowthOK, Growing, ThreadsOK
<1>7. TypeOK'
  <2>1. m_totalAllocatedBlocks + r.grown \in Blocks
    <3>1. m_totalAllocatedBlocks + r.grow <= MaxBlocks /\ r.grown < r.grow
      BY <1>1 DEF ExpandPush, GrowthOK, Growing
    <3>2. r.grow \in Nat /\ r.grown \in Nat /\ m_totalAllocatedBlocks \in Nat
      BY <1>1 DEF ThreadState, TypeOK
    <3> QED BY <3>1, <3>2, SizesAssumption DEF Blocks
  <2>2. m_blockAddresses' \in [Blocks -> Nat]
    BY <1>1, <2>1 DEF ExpandPush, TypeOK
  <2> QED BY <1>1, <1>5, <2>2 DEF ExpandPush, TypeOK, ThreadsOK, files
<1> QED BY <1>5, <1>6, <1>7 DEF TInv

\* The label of a new block is below MaxBlocks, too.
LEMMA ExpandInsertTypes ==
    ASSUME TInv, NEW t \in Threads, ExpandInsert(t)
    PROVE  TInv'
<1> DEFINE r == th[t]
           s == [r EXCEPT !.at = "push", !.grown = @ + 1]
<1>1. /\ TypeOK /\ ThreadsOK /\ GrowthOK
      /\ r \in ThreadState /\ Hand(r) /\ m_pBlockMapping \in [Keys -> List]
  BY DEF TInv, ThreadsOK, TypeOK
<1>2. th' = [th EXCEPT ![t] = s]
  BY <1>1 DEF ExpandInsert, ThreadState
<1>3. r.grown + 1 \in Nat
  BY <1>1, SizesAssumption DEF ExpandInsert, MayStart, ThreadState, List, BlocksOf, Hand, GrowBy, Replaced
<1>4. s \in ThreadState
  BY <1>1, <1>3, IdleHand DEF ThreadState, IdleThread, Phases, NoBlock
<1>5. ThreadsOK'
  <2>1. Hand(s)
    BY <1>1, <1>3, IdleHand, SwitchesAssumption
       DEF ExpandInsert, ThreadState, Hand, Releases, Growing, NoBlock, Blocks, IdleThread
  <2> QED BY <1>1, <1>2, <1>4, <2>1, Install
<1>6. GrowthOK'
  <2>1. s.at = "push" /\ s.grow = r.grow
    BY <1>1 DEF ThreadState
  <2> QED BY <1>1, <1>2, <2>1 DEF ExpandInsert, GrowthOK, Growing, ThreadsOK
<1>7. TypeOK'
  <2>1. m_totalAllocatedBlocks + r.grown \in Blocks
    <3>1. m_totalAllocatedBlocks + r.grow <= MaxBlocks /\ r.grown < r.grow
      BY <1>1 DEF ExpandInsert, GrowthOK, Growing, Hand
    <3>2. r.grow \in Nat /\ r.grown \in Nat /\ m_totalAllocatedBlocks \in Nat
      BY <1>1 DEF ThreadState, TypeOK
    <3> QED BY <3>1, <3>2, SizesAssumption DEF Blocks
  <2>2. m_available' \subseteq Blocks
    BY <1>1, <2>1 DEF ExpandInsert, TypeOK
  <2> QED BY <1>1, <1>5, <2>2 DEF ExpandInsert, TypeOK, ThreadsOK, files
<1> QED BY <1>5, <1>6, <1>7 DEF TInv

\* The total stays below MaxBlocks, and nobody else is extending.
LEMMA ExpandEndTypes ==
    ASSUME TInv, NEW t \in Threads, ExpandEnd(t)
    PROVE  TInv'
<1> DEFINE r == th[t]
           s == [r EXCEPT !.at = "pop", !.grow = 0, !.grown = 0]
<1>1. /\ TypeOK /\ ThreadsOK /\ GrowthOK
      /\ r \in ThreadState /\ Hand(r) /\ m_pBlockMapping \in [Keys -> List]
  BY DEF TInv, ThreadsOK, TypeOK
<1>2. th' = [th EXCEPT ![t] = s]
  BY <1>1 DEF ExpandEnd, ThreadState
<1>4. s \in ThreadState
  BY <1>1, IdleHand DEF ThreadState, IdleThread, Phases, NoBlock
<1>5. ThreadsOK'
  <2>1. Hand(s)
    BY <1>1, IdleHand, SwitchesAssumption
       DEF ExpandEnd, ThreadState, Hand, Releases, Growing, NoBlock, Blocks, IdleThread
  <2> QED BY <1>1, <1>2, <1>4, <2>1, Install
<1>6. GrowthOK'
  <2>1. s.at = "pop"
    BY <1>1 DEF ThreadState
  <2>2. \A u \in Threads : u # t => th[u].at \notin {"recheck", "push", "label"}
    BY <1>1 DEF ExpandEnd, GrowthOK
  <2> QED BY <1>1, <1>2, <2>1, <2>2 DEF GrowthOK, Growing, ThreadsOK
<1>7. TypeOK'
  <2>1. m_totalAllocatedBlocks' \in 0 .. MaxBlocks
    <3>1. m_totalAllocatedBlocks + r.grow <= MaxBlocks
      BY <1>1 DEF ExpandEnd, GrowthOK, Growing
    <3>2. r.grow \in Nat /\ m_totalAllocatedBlocks \in Nat
      BY <1>1 DEF ThreadState, TypeOK
    <3> QED BY <3>1, <3>2, SizesAssumption DEF ExpandEnd
  <2>2. m_expandLock' \in Threads \cup {NoThread}
    BY DEF ExpandEnd
  <2> QED BY <1>1, <1>5, <2>1, <2>2 DEF ExpandEnd, TypeOK, ThreadsOK, pool, files
<1> QED BY <1>5, <1>6, <1>7 DEF TInv

\* The popped block joins the thread's blocks.
LEMMA ResetTypes ==
    ASSUME TInv, NEW t \in Threads, Reset(t)
    PROVE  TInv'
<1> DEFINE r == th[t]
           s == [r EXCEPT !.at = "pop", !.need = @ - 1, !.cur = NoBlock,
                                 !.got = @ \cup {r.cur}]
<1>1. /\ TypeOK /\ ThreadsOK /\ GrowthOK
      /\ r \in ThreadState /\ Hand(r) /\ m_pBlockMapping \in [Keys -> List]
  BY DEF TInv, ThreadsOK, TypeOK
<1>2. th' = [th EXCEPT ![t] = s]
  BY <1>1 DEF Reset, ThreadState
<1>3. r.need - 1 \in Nat /\ r.cur \in Blocks
  BY <1>1, SizesAssumption DEF Reset, MayStart, ThreadState, List, BlocksOf, Hand, GrowBy, Replaced
<1>4. s \in ThreadState
  BY <1>1, <1>3, IdleHand DEF ThreadState, IdleThread, Phases, NoBlock
<1>5. ThreadsOK'
  <2>1. Hand(s)
    BY <1>1, <1>3, IdleHand, SwitchesAssumption
       DEF Reset, ThreadState, Hand, Releases, Growing, NoBlock, Blocks, IdleThread
  <2> QED BY <1>1, <1>2, <1>4, <2>1, Install
<1>6. GrowthOK'
  <2>1. s.at = "pop"
    BY <1>1 DEF ThreadState, IdleThread
  <2> QED BY <1>1, <1>2, <1>4, <2>1, NoGrowth DEF Reset, TInv, pool, files
<1>7. TypeOK'
  BY <1>1, <1>5 DEF Reset, TypeOK, ThreadsOK, pool, files
<1> QED BY <1>5, <1>6, <1>7 DEF TInv

\* A dry queue ends the operation.
LEMMA PopFailsTypes ==
    ASSUME TInv, NEW t \in Threads, PopFails(t)
    PROVE  TInv'
<1> DEFINE r == th[t]
           s == IdleThread
<1>1. /\ TypeOK /\ ThreadsOK /\ GrowthOK
      /\ r \in ThreadState /\ Hand(r) /\ m_pBlockMapping \in [Keys -> List]
  BY DEF TInv, ThreadsOK, TypeOK
<1>2. th' = [th EXCEPT ![t] = s]
  BY <1>1 DEF PopFails, ThreadState
<1>4. s \in ThreadState
  BY <1>1, IdleHand DEF ThreadState, IdleThread, Phases, NoBlock
<1>5. ThreadsOK'
  <2>1. Hand(s)
    BY <1>1, IdleHand, SwitchesAssumption
       DEF PopFails, ThreadState, Hand, Releases, Growing, NoBlock, Blocks, IdleThread
  <2> QED BY <1>1, <1>2, <1>4, <2>1, Install
<1>6. GrowthOK'
  <2>1. s.at = "idle"
    BY <1>1 DEF ThreadState, IdleThread
  <2> QED BY <1>1, <1>2, <1>4, <2>1, NoGrowth DEF PopFails, TInv, pool, files
<1>7. TypeOK'
  <2>1. lost' \subseteq Blocks
    BY <1>1 DEF PopFails, TypeOK, ThreadState
  <2> QED BY <1>1, <1>5, <2>1 DEF PopFails, TypeOK, ThreadsOK, pool, files
<1> QED BY <1>5, <1>6, <1>7 DEF TInv

\* The list keeps its type when the size is stored.
LEMMA StoreSizeTypes ==
    ASSUME TInv, NEW t \in Threads, StoreSize(t)
    PROVE  TInv'
<1> DEFINE r == th[t]
           s == [r EXCEPT !.at = "write"]
<1>1. /\ TypeOK /\ ThreadsOK /\ GrowthOK
      /\ r \in ThreadState /\ Hand(r) /\ m_pBlockMapping \in [Keys -> List]
  BY DEF TInv, ThreadsOK, TypeOK
<1>2. th' = [th EXCEPT ![t] = s]
  BY <1>1 DEF StoreSize, ThreadState
<1>3. s \in ThreadState /\ s.at = "write"
  BY <1>1 DEF ThreadState, Phases
<1>4. ThreadsOK'
  <2>1. Hand(s)
    BY <1>1 DEF StoreSize, ThreadState, Hand, Releases, Growing
  <2> QED BY <1>1, <1>2, <1>3, <2>1, Install
<1>5. GrowthOK'
  BY <1>1, <1>2, <1>3, NoGrowth DEF StoreSize
<1>6. TypeOK'
  <2>1. r.key \in Keys
    BY <1>1 DEF StoreSize, Hand, ThreadState
  <2>2. [m_pBlockMapping[r.key] EXCEPT !.st = "sized"] \in List
    BY <1>1, <2>1 DEF List
  <2>3. m_pBlockMapping' = [m_pBlockMapping EXCEPT ![r.key] = [m_pBlockMapping[r.key] EXCEPT !.st = "sized"]]
    BY DEF StoreSize
  <2>4. m_pBlockMapping' \in [Keys -> List]
    BY <1>1, <2>2, <2>3
  <2> QED BY <1>1, <1>4, <2>4 DEF StoreSize, TypeOK, ThreadsOK, pool, files
<1> QED BY <1>4, <1>5, <1>6 DEF TInv

\* The operation begins to release what it replaces.
LEMMA WriteBlocksTypes ==
    ASSUME TInv, NEW t \in Threads, WriteBlocks(t)
    PROVE  TInv'
<1> DEFINE r == th[t]
           s == [r EXCEPT !.at = "release", !.old = Replaced(t), !.rel = Replaced(t)]
<1>1. /\ TypeOK /\ ThreadsOK /\ GrowthOK
      /\ r \in ThreadState /\ Hand(r) /\ m_pBlockMapping \in [Keys -> List]
  BY DEF TInv, ThreadsOK, TypeOK
<1>2. th' = [th EXCEPT ![t] = s]
  BY <1>1 DEF WriteBlocks, MayWrite, ThreadState
<1>3. Replaced(t) \subseteq Blocks
  BY <1>1, SizesAssumption DEF WriteBlocks, MayWrite, MayStart, ThreadState, List, BlocksOf, Hand, GrowBy, Replaced
<1>4. s \in ThreadState
  BY <1>1, <1>3, IdleHand DEF ThreadState, IdleThread, Phases, NoBlock
<1>5. ThreadsOK'
  <2>1. Hand(s)
    BY <1>1, <1>3, IdleHand, SwitchesAssumption
       DEF WriteBlocks, MayWrite, ThreadState, Hand, Releases, Growing, NoBlock, Blocks, IdleThread
  <2> QED BY <1>1, <1>2, <1>4, <2>1, Install
<1>6. GrowthOK'
  <2>1. s.at = "release"
    BY <1>1 DEF ThreadState, IdleThread
  <2> QED BY <1>1, <1>2, <1>4, <2>1, NoGrowth DEF WriteBlocks, MayWrite, TInv, pool, files
<1>7. TypeOK'
  <2>1. dirty' \subseteq Blocks
    BY <1>1 DEF WriteBlocks, MayWrite, TypeOK, ThreadState, Named
  <2> QED BY <1>1, <1>5, <2>1 DEF WriteBlocks, MayWrite, TypeOK, ThreadsOK, pool, files
<1> QED BY <1>5, <1>6, <1>7 DEF TInv

\* A failed operation begins to release what it got.
LEMMA WriteBlocksFailsTypes ==
    ASSUME TInv, NEW t \in Threads, WriteBlocksFails(t)
    PROVE  TInv'
<1> DEFINE r == th[t]
           s == [r EXCEPT !.at = "release", !.got = {}, !.rel = r.got,
                                 !.ok = FALSE]
<1>1. /\ TypeOK /\ ThreadsOK /\ GrowthOK
      /\ r \in ThreadState /\ Hand(r) /\ m_pBlockMapping \in [Keys -> List]
  BY DEF TInv, ThreadsOK, TypeOK
<1>2. th' = [th EXCEPT ![t] = s]
  BY <1>1 DEF WriteBlocksFails, MayWrite, ThreadState
<1>3. r.got \subseteq Blocks
  BY <1>1, SizesAssumption DEF WriteBlocksFails, MayWrite, MayStart, ThreadState, List, BlocksOf, Hand, GrowBy, Replaced
<1>4. s \in ThreadState
  BY <1>1, <1>3, IdleHand DEF ThreadState, IdleThread, Phases, NoBlock
<1>5. ThreadsOK'
  <2>1. Hand(s)
    BY <1>1, <1>3, IdleHand, SwitchesAssumption
       DEF WriteBlocksFails, MayWrite, ThreadState, Hand, Releases, Growing, NoBlock, Blocks, IdleThread
  <2> QED BY <1>1, <1>2, <1>4, <2>1, Install
<1>6. GrowthOK'
  <2>1. s.at = "release"
    BY <1>1 DEF ThreadState, IdleThread
  <2> QED BY <1>1, <1>2, <1>4, <2>1, NoGrowth DEF WriteBlocksFails, MayWrite, TInv, pool, files
<1>7. TypeOK'
  <2>1. dirty' \subseteq Blocks
    BY <1>1 DEF WriteBlocksFails, MayWrite, TypeOK, ThreadState, Named
  <2>2. BrokenList \in List
    BY DEF BrokenList, NoList, List
  <2>3. m_pBlockMapping' \in [Keys -> List]
    BY <1>1, <2>2 DEF WriteBlocksFails
  <2> QED BY <1>1, <1>5, <2>1, <2>3 DEF WriteBlocksFails, MayWrite, TypeOK, ThreadsOK, pool, files
<1> QED BY <1>5, <1>6, <1>7 DEF TInv

\* The block in transit leaves the hand.
LEMMA ReleasePushTypes ==
    ASSUME TInv, NEW t \in Threads, ReleasePush(t)
    PROVE  TInv'
<1> DEFINE r == th[t]
           s == [r EXCEPT !.at = "release", !.cur = NoBlock]
<1>1. /\ TypeOK /\ ThreadsOK /\ GrowthOK
      /\ r \in ThreadState /\ Hand(r) /\ m_pBlockMapping \in [Keys -> List]
  BY DEF TInv, ThreadsOK, TypeOK
<1>2. th' = [th EXCEPT ![t] = s]
  BY <1>1 DEF ReleasePush, ThreadState
<1>4. s \in ThreadState
  BY <1>1, IdleHand DEF ThreadState, IdleThread, Phases, NoBlock
<1>5. ThreadsOK'
  <2>1. Hand(s)
    BY <1>1, IdleHand, SwitchesAssumption
       DEF ReleasePush, ThreadState, Hand, Releases, Growing, NoBlock, Blocks, IdleThread
  <2> QED BY <1>1, <1>2, <1>4, <2>1, Install
<1>6. GrowthOK'
  <2>1. s.at = "release"
    BY <1>1 DEF ThreadState, IdleThread
  <2> QED BY <1>1, <1>2, <1>4, <2>1, NoGrowth DEF ReleasePush, TInv, pool, files
<1>7. TypeOK'
  <2>1. m_blockAddresses' \in [Blocks -> Nat] /\ m_blockAddresses_reserve' \in [Blocks -> Nat]
    BY <1>1 DEF ReleasePush, TypeOK
  <2> QED BY <1>1, <1>5, <2>1 DEF ReleasePush, TypeOK, ThreadsOK, files
<1> QED BY <1>5, <1>6, <1>7 DEF TInv

\* The new list is well-formed.
LEMMA PublishTypes ==
    ASSUME TInv, NEW t \in Threads, Publish(t)
    PROVE  TInv'
<1> DEFINE r == th[t]
           s == IdleThread
<1>1. /\ TypeOK /\ ThreadsOK /\ GrowthOK
      /\ r \in ThreadState /\ Hand(r) /\ m_pBlockMapping \in [Keys -> List]
  BY DEF TInv, ThreadsOK, TypeOK
<1>2. th' = [th EXCEPT ![t] = s]
  BY <1>1 DEF Publish, ThreadState
<1>4. s \in ThreadState
  BY <1>1, IdleHand DEF ThreadState, IdleThread, Phases, NoBlock
<1>5. ThreadsOK'
  <2>1. Hand(s)
    BY <1>1, IdleHand, SwitchesAssumption
       DEF Publish, ThreadState, Hand, Releases, Growing, NoBlock, Blocks, IdleThread
  <2> QED BY <1>1, <1>2, <1>4, <2>1, Install
<1>6. GrowthOK'
  <2>1. s.at = "idle"
    BY <1>1 DEF ThreadState, IdleThread
  <2> QED BY <1>1, <1>2, <1>4, <2>1, NoGrowth DEF Publish, TInv, pool, files
<1>7. TypeOK'
  <2>1. NoList \in List /\ Lists(r.kept, r.got, r.partial) \subseteq List
    BY <1>1 DEF Lists, List, NoList, ThreadState
  <2>2. m_pBlockMapping' \in [Keys -> List]
    BY <1>1, <2>1 DEF Publish
  <2> QED BY <1>1, <1>5, <2>2 DEF Publish, TypeOK, ThreadsOK, pool, files
<1> QED BY <1>5, <1>6, <1>7 DEF TInv

\* CheckExpansion enters the expansion only with the lock.
LEMMA CheckExpansionTypes ==
    ASSUME TInv, NEW t \in Threads, CheckExpansion(t)
    PROVE  TInv'
<1>1. /\ TypeOK /\ ThreadsOK /\ GrowthOK
      /\ th[t] \in ThreadState /\ Hand(th[t])
  BY DEF TInv, ThreadsOK, TypeOK
<1>2. PICK phase \in {"pop", "recheck"} :
         /\ th' = [th EXCEPT ![t] = [th[t] EXCEPT !.at = phase]]
         /\ phase = "pop" => UNCHANGED m_expandLock
         /\ phase = "recheck" => m_expandLock = NoThread /\ m_expandLock' = t
  BY <1>1 DEF CheckExpansion, ThreadState
<1> DEFINE s == [th[t] EXCEPT !.at = phase]
<1>3. s \in ThreadState /\ s.at = phase
  BY <1>1 DEF ThreadState, Phases
<1>4. Hand(s)
  BY <1>1 DEF CheckExpansion, ThreadState, Hand, Releases, Growing
<1>5. ThreadsOK'
  BY <1>1, <1>2, <1>3, <1>4, Install
<1>6. GrowthOK'
  <2>1. UNCHANGED m_totalAllocatedBlocks
    BY DEF CheckExpansion
  <2>2. CASE phase = "pop"
    BY <1>2, <1>3, <2>1, <2>2, NoGrowth
  <2>3. CASE phase = "recheck"
    <3>1. \A u \in Threads : th[u].at \notin {"recheck", "push", "label"}
      BY <1>1, <1>2, <2>3, SwitchesAssumption DEF GrowthOK
    <3> QED BY <1>1, <1>2, <1>3, <2>1, <2>3, <3>1 DEF GrowthOK, Growing, ThreadsOK
  <2> QED BY <2>2, <2>3
<1>7. TypeOK'
  <2>1. m_expandLock' \in Threads \cup {NoThread}
    BY <1>1, <1>2 DEF TypeOK
  <2> QED BY <1>1, <1>5, <2>1 DEF CheckExpansion, TypeOK, ThreadsOK, pool, files
<1> QED BY <1>5, <1>6, <1>7 DEF TInv

\* A popped block is in transit.
LEMMA PopTypes ==
    ASSUME TInv, NEW t \in Threads, Pop(t)
    PROVE  TInv'
<1>1. /\ TypeOK /\ ThreadsOK /\ GrowthOK
      /\ th[t] \in ThreadState /\ Hand(th[t])
  BY DEF TInv, ThreadsOK, TypeOK
<1>2. PICK b \in Blocks :
         /\ m_blockAddresses[b] > 0
         /\ m_blockAddresses' = [m_blockAddresses EXCEPT ![b] = @ - 1]
         /\ th' = [th EXCEPT ![t].at = "reset", ![t].cur = b]
  BY DEF Pop
<1> DEFINE s == [th[t] EXCEPT !.at = "reset", !.cur = b]
<1>3. s \in ThreadState /\ s.at = "reset" /\ th' = [th EXCEPT ![t] = s]
  BY <1>1, <1>2 DEF ThreadState, Phases
<1>4. Hand(s)
  BY <1>1 DEF Pop, ThreadState, Hand, Releases, Growing, NoBlock, Blocks
<1>5. ThreadsOK'
  BY <1>1, <1>2, <1>3, <1>4, Install
<1>6. GrowthOK'
  BY <1>1, <1>2, <1>3, NoGrowth DEF Pop
<1>7. TypeOK'
  <2>1. m_blockAddresses' \in [Blocks -> Nat]
    BY <1>1, <1>2 DEF TypeOK
  <2> QED BY <1>1, <1>5, <2>1 DEF Pop, TypeOK, ThreadsOK, files
<1> QED BY <1>5, <1>6, <1>7 DEF TInv

\* A skipped block leaves the hand.
LEMMA ReleaseSkipTypes ==
    ASSUME TInv, NEW t \in Threads, ReleaseSkip(t)
    PROVE  TInv'
<1>1. /\ TypeOK /\ ThreadsOK /\ GrowthOK
      /\ th[t] \in ThreadState /\ Hand(th[t])
  BY DEF TInv, ThreadsOK, TypeOK
<1>2. PICK b \in th[t].rel \cap m_available :
         /\ th' = [th EXCEPT ![t] = [th[t] EXCEPT !.rel = @ \ {b}]]
         /\ lost' = lost \cup {b}
  BY <1>1 DEF ReleaseSkip, ThreadState
<1> DEFINE s == [th[t] EXCEPT !.rel = @ \ {b}]
<1>3. s \in ThreadState /\ s.at = "release"
  BY <1>1 DEF ReleaseSkip, ThreadState
<1>4. Hand(s)
  BY <1>1 DEF ReleaseSkip, ThreadState, Hand, Releases, Growing
<1>5. ThreadsOK'
  BY <1>1, <1>2, <1>3, <1>4, Install
<1>6. GrowthOK'
  BY <1>1, <1>2, <1>3, NoGrowth DEF ReleaseSkip
<1>7. TypeOK'
  <2>1. lost' \subseteq Blocks
    BY <1>1, <1>2 DEF TypeOK
  <2> QED BY <1>1, <1>5, <2>1 DEF ReleaseSkip, TypeOK, ThreadsOK, pool, files
<1> QED BY <1>5, <1>6, <1>7 DEF TInv

\* A labelled block is in transit.
LEMMA ReleaseInsertTypes ==
    ASSUME TInv, NEW t \in Threads, ReleaseInsert(t)
    PROVE  TInv'
<1>1. /\ TypeOK /\ ThreadsOK /\ GrowthOK
      /\ th[t] \in ThreadState /\ Hand(th[t])
  BY DEF TInv, ThreadsOK, TypeOK
<1>2. PICK b \in th[t].rel \ m_available :
         /\ th' = [th EXCEPT ![t].at = "relpush", ![t].rel = @ \ {b}, ![t].cur = b]
         /\ m_available' = m_available \cup {b}
  BY DEF ReleaseInsert
<1> DEFINE s == [th[t] EXCEPT !.at = "relpush", !.rel = @ \ {b}, !.cur = b]
<1>3. b \in Blocks
  BY <1>1 DEF ThreadState
<1>4. s \in ThreadState /\ s.at = "relpush"
  BY <1>1, <1>3 DEF ThreadState, Phases
<1>5. th' = [th EXCEPT ![t] = s]
  BY <1>1, <1>2 DEF ThreadState
<1>6. ThreadsOK'
  <2>1. Hand(s)
    BY <1>1, <1>3 DEF ReleaseInsert, ThreadState, Hand, Releases, Growing, NoBlock, Blocks
  <2> QED BY <1>1, <1>4, <1>5, <2>1, Install
<1>7. GrowthOK'
  BY <1>1, <1>4, <1>5, NoGrowth DEF ReleaseInsert
<1>8. TypeOK'
  <2>1. m_available' \subseteq Blocks
    BY <1>1, <1>2, <1>3 DEF TypeOK
  <2> QED BY <1>1, <1>6, <2>1 DEF ReleaseInsert, TypeOK, ThreadsOK, files
<1> QED BY <1>6, <1>7, <1>8 DEF TInv

\* A step of one thread preserves the invariant.
LEMMA ThreadTypes ==
    ASSUME TInv, NEW t \in Threads, ThreadStep(t)
    PROVE  TInv'
  BY PutTypes, MergeTypes, DeleteTypes, CheckExpansionTypes, SkipExpansionTypes,
     ExpandFileFailsTypes, ExpandFileTypes, ExpandPushTypes, ExpandInsertTypes,
     ExpandEndTypes, PopTypes, ResetTypes, PopFailsTypes, StoreSizeTypes, WriteBlocksTypes,
     WriteBlocksFailsTypes, ReleaseSkipTypes, ReleaseInsertTypes, ReleasePushTypes,
     PublishTypes
  DEF ThreadStep

\* The steps of Checkpoint leave the threads alone.
LEMMA CheckpointTypes ==
    ASSUME TInv, CheckpointStep
    PROVE  TInv'
<1>1. TypeOK /\ ThreadsOK /\ GrowthOK
  BY DEF TInv
<1>2. NoList \in List
  BY DEF NoList, List
<1>3. UNCHANGED <<th, m_expandLock, m_totalAllocatedBlocks>>
  BY DEF CheckpointStep, CheckpointBegin, OpenMappingFails, SaveList, SaveEnd, SaveFails,
         ReloadReserve, SavePool, SavePoolFails
<1>4. ThreadsOK' /\ GrowthOK'
  BY <1>1, <1>3 DEF ThreadsOK, GrowthOK
<1>5. /\ ckpt \in [at : CheckpointPhases, saved : SUBSET Keys, mapping : FileStates,
                    pool : FileStates, failed : Nat]
      /\ Outdated(ckpt.mapping) \in FileStates /\ Outdated(ckpt.pool) \in FileStates
      /\ "saved" \in FileStates /\ "torn" \in FileStates
      /\ "none" \in CheckpointPhases /\ "saving" \in CheckpointPhases
      /\ "saved" \in CheckpointPhases /\ "reloaded" \in CheckpointPhases
      /\ ckpt.failed + 1 \in Nat
  BY <1>1 DEF TypeOK, Outdated, FileStates, CheckpointPhases
<1>6. ckpt' \in [at : CheckpointPhases, saved : SUBSET Keys, mapping : FileStates,
                 pool : FileStates, failed : Nat]
  <2>1. CASE CheckpointBegin
    BY <1>5, <2>1 DEF CheckpointBegin
  <2>2. CASE OpenMappingFails
    BY <1>5, <2>2 DEF OpenMappingFails
  <2>3. ASSUME NEW k \in Keys, SaveList(k) PROVE ckpt' \in [at : CheckpointPhases, saved : SUBSET Keys,
                                                        mapping : FileStates, pool : FileStates,
                                                        failed : Nat]
    BY <1>5, <2>3 DEF SaveList
  <2>4. CASE SaveEnd
    BY <1>5, <2>4 DEF SaveEnd
  <2>5. CASE SaveFails
    BY <1>5, <2>5 DEF SaveFails
  <2>6. CASE ReloadReserve
    BY <1>5, <2>6 DEF ReloadReserve
  <2>7. CASE SavePool
    BY <1>5, <2>7 DEF SavePool
  <2>8. CASE SavePoolFails
    BY <1>5, <2>8 DEF SavePoolFails
  <2> QED BY <2>1, <2>2, <2>3, <2>4, <2>5, <2>6, <2>7, <2>8 DEF CheckpointStep
<1>7. TypeOK'
  <2>1. CASE CheckpointBegin \/ SaveFails
    BY <1>1, <1>2, <1>6, <2>1 DEF CheckpointBegin, SaveFails, TypeOK, pool
  <2>2. ASSUME NEW k \in Keys, SaveList(k) PROVE TypeOK'
    BY <1>1, <1>6, <2>2 DEF SaveList, TypeOK, pool
  <2>3. CASE OpenMappingFails \/ SaveEnd \/ SavePoolFails
    BY <1>1, <1>6, <2>3 DEF OpenMappingFails, SaveEnd, SavePoolFails, TypeOK, pool
  <2>4. CASE ReloadReserve
    <3>1. m_blockAddresses' \in [Blocks -> Nat] /\ m_blockAddresses_reserve' \in [Blocks -> Nat]
      BY <1>1, <2>4 DEF ReloadReserve, TypeOK, EmptyQueue
    <3> QED BY <1>1, <1>6, <2>4, <3>1 DEF ReloadReserve, TypeOK
  <2>5. CASE SavePool
    BY <1>1, <1>6, <2>5 DEF SavePool, TypeOK, pool
  <2> QED BY <2>1, <2>2, <2>3, <2>4, <2>5 DEF CheckpointStep
<1> QED BY <1>4, <1>7 DEF TInv

\* Recovery builds a well-formed store from the saved files.
LEMMA RecoverTypes ==
    ASSUME TInv, CrashAndRecover
    PROVE  TInv'
<1>1. TypeOK
  BY DEF TInv
<1>2. th' = [t \in Threads |-> IdleThread]
  BY DEF CrashAndRecover
<1>3. ThreadsOK'
  BY <1>2, IdleHand DEF ThreadsOK
<1>4. GrowthOK'
  BY <1>2 DEF GrowthOK, Growing, IdleThread
<1>5. \A list \in List : Loaded(list) \in List
  BY DEF Loaded, EmptyList, NoList, List
<1>6. m_pBlockMapping' \in [Keys -> List]
  BY <1>1, <1>5 DEF CrashAndRecover, TypeOK
<1>7. m_blockAddresses' \in [Blocks -> Nat] /\ m_blockAddresses_reserve' \in [Blocks -> Nat]
  BY DEF CrashAndRecover, EmptyQueue
<1>8. ckpt' \in [at : CheckpointPhases, saved : SUBSET Keys, mapping : FileStates,
                 pool : FileStates, failed : Nat]
  BY <1>1 DEF CrashAndRecover, CheckpointPhases, TypeOK
<1>9. TypeOK'
  BY <1>1, <1>3, <1>6, <1>7, <1>8 DEF CrashAndRecover, TypeOK, ThreadsOK
<1> QED BY <1>3, <1>4, <1>9 DEF TInv

\* The initial state satisfies the invariant.
LEMMA InitTypes == Init => TInv
<1> SUFFICES ASSUME Init PROVE TInv
  OBVIOUS
<1>1. ThreadsOK /\ GrowthOK
  BY IdleHand DEF Init, ThreadsOK, GrowthOK, Growing, IdleThread
<1>2. NoList \in List
  BY DEF NoList, List
<1>3. m_blockAddresses \in [Blocks -> Nat] /\ m_blockAddresses_reserve \in [Blocks -> Nat]
  BY DEF Init, EmptyQueue
<1>4. m_available \subseteq Blocks /\ m_totalAllocatedBlocks \in 0 .. MaxBlocks
  BY SizesAssumption DEF Init, Blocks
<1>5. TypeOK
  BY <1>1, <1>2, <1>3, <1>4 DEF Init, TypeOK, ThreadsOK, CheckpointPhases, FileStates
<1> QED BY <1>1, <1>5 DEF TInv

\* Every step preserves the invariant.
LEMMA NextTypes == TInv /\ [Next]_vars => TInv'
<1> SUFFICES ASSUME TInv, [Next]_vars PROVE TInv'
  OBVIOUS
<1>1. CASE Next
  BY <1>1, ThreadTypes, CheckpointTypes, RecoverTypes DEF Next
<1>2. CASE UNCHANGED vars
  BY <1>2 DEF vars, TInv, TypeOK, ThreadsOK, GrowthOK
<1> QED BY <1>1, <1>2

\* The threads' records keep their shape in every reachable state.
THEOREM TypesInvariant == Spec => []TInv
  BY InitTypes, NextTypes, PTL DEF Spec

\* The queues, labels, lists, files and thread records keep their types: in
\* particular GetBlocks never counts below zero and expansion, under its lock,
\* never labels a block or reports a total beyond MaxBlocks
\* (ExtraFileController.cpp:66-156).
THEOREM TypeCorrect == Spec => []TypeOK
<1>1. TInv => TypeOK
  BY DEF TInv
<1> QED BY <1>1, TypesInvariant, PTL
=============================================================================
