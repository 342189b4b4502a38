-------------------------------- MODULE FileIO --------------------------------
(***************************************************************************)
(* FileIO and its BlockController (ExtraFileController.h/.cpp): postings   *)
(* are stored in page-sized blocks of one file.  Put, Merge and Delete are *)
(* broken into the steps other threads can see: expansion, every pop and   *)
(* label reset of GetBlocks, the write, every label insert and push of     *)
(* ReleaseBlocks and the publication of the new block list.  Checkpoint    *)
(* saves the mapping, reloads the reserved blocks and saves the pool, and  *)
(* either file may fail to be opened or written; a crash loses the memory  *)
(* and recovery loads the two saved files, while the data file keeps       *)
(* whatever was written since.                                             *)
(*                                                                         *)
(* The configuration without the LRU cache (CacheSizeGB = 0, the default). *)
(* Page contents are abstracted to whether a block that a saved list names *)
(* was written since.  A posting is its set of full pages and its at most  *)
(* one partly filled page; page order is not modelled.                     *)
(***************************************************************************)
EXTENDS Integers, FiniteSets

CONSTANTS
    Keys,              \* posting ids
    Threads,           \* threads that write: inserts and jobs of the pool
    StartBlocks,       \* blocks of the initial file (StartFileSize)
    GrowthBlocks,      \* m_growthBlocks
    MaxBlocks,         \* m_maxBlocks
    GrowthThreshold,   \* m_growthThreshold, as a percentage
    BlockLimit,        \* m_blockLimit, entries of a block address list
    DisableCheckpoint, \* m_disableCheckpoint
    ConcurrentWriters, \* whether operations may start while Checkpoint runs
    RecoverStale,      \* whether a crash is considered when a file is out of date
    MaxOps,            \* bound on the operations of a behaviour
    MaxSaveFailures,   \* bound on the files that Checkpoint fails to save
    NoThread,          \* m_expandLock is free
    NoKey              \* a thread that executes no operation

CheckpointPhases == {"none", "saving", "saved", "reloaded"}

\* What the last Checkpoint has made of a file: it is written as a whole, it is
\* still that of an earlier one, or it is written in part.
FileStates == {"saved", "stale", "torn"}

ASSUME SizesAssumption ==
    /\ StartBlocks \in Nat
    /\ MaxBlocks \in Nat
    /\ StartBlocks <= MaxBlocks
    /\ GrowthBlocks \in Nat
    /\ GrowthThreshold \in Nat
    /\ BlockLimit \in Nat
    /\ MaxOps \in Nat
    /\ MaxSaveFailures \in Nat

ASSUME SwitchesAssumption ==
    /\ DisableCheckpoint \in BOOLEAN
    /\ ConcurrentWriters \in BOOLEAN
    /\ RecoverStale \in BOOLEAN
    /\ NoThread \notin Threads
    /\ NoKey \notin Keys

Blocks == 0 .. MaxBlocks - 1

NoBlock == -1   \* the address 0xffffffffffffffff

VARIABLES
    m_blockAddresses,         \* free queue: how often it holds each block
    m_blockAddresses_reserve, \* the same for blocks released since the checkpoint
    m_available,              \* blocks labelled available
    m_totalAllocatedBlocks,
    m_expandLock,             \* holder of the expansion mutex
    m_pBlockMapping,          \* the block address list At(key) of each posting
    th,                       \* the operation each thread is executing
    dirty,                    \* blocks of the saved lists that were written since
    lost,                     \* history: blocks that no queue, list or thread holds
    ops,                      \* number of operations started, bounded by MaxOps
    ckpt,                     \* Checkpoint: phase, keys saved so far, state of the
                              \* two files, number of failures
    mappingFile,              \* the saved mapping
    poolFile                  \* the saved pool: free blocks and total (lost: history)

pool == <<m_blockAddresses, m_blockAddresses_reserve, m_available>>
files == <<ckpt, mappingFile, poolFile>>
vars == <<m_blockAddresses, m_blockAddresses_reserve, m_available,
          m_totalAllocatedBlocks, m_expandLock, m_pBlockMapping, th, dirty, lost,
          ops, ckpt, mappingFile, poolFile>>

\* At(key): no list (all ones), a list whose size is negative (what Load makes
\* of an absent posting), the same while its first put writes, with the size and
\* the addresses of that put in it, a posting, or a list with a size but no addresses.
List == [st : {"none", "empty", "sized", "posting", "broken"},
         full : SUBSET Blocks, part : SUBSET Blocks]

NoList == [st |-> "none", full |-> {}, part |-> {}]
EmptyList == [NoList EXCEPT !.st = "empty"]
BrokenList == [NoList EXCEPT !.st = "broken"]

BlocksOf(list) == list.full \cup list.part

\* The list of a posting made of kept full pages and newly written ones, whose
\* last page is partly filled or not.
Lists(kept, new, partial) ==
    IF partial
    THEN {[st |-> "posting", full |-> kept \cup (new \ {b}), part |-> {b}] : b \in new}
    ELSE {[st |-> "posting", full |-> kept \cup new, part |-> {}]}

IdleThread ==
    [at |-> "idle", key |-> NoKey, need |-> 0, grow |-> 0, grown |-> 0, got |-> {},
     cur |-> NoBlock, kept |-> {}, old |-> {}, rel |-> {}, partial |-> FALSE,
     kind |-> "put", ok |-> TRUE]

EmptyQueue == [b \in Blocks |-> 0]

\* An index that was built without postings and saved.  The mapping has a row for
\* every posting id; that it grows with the ids is not modelled.
Init ==
    /\ m_blockAddresses = [b \in Blocks |-> IF b < StartBlocks THEN 1 ELSE 0]
    /\ m_blockAddresses_reserve = EmptyQueue
    /\ m_available = 0 .. StartBlocks - 1
    /\ m_totalAllocatedBlocks = StartBlocks
    /\ m_expandLock = NoThread
    /\ m_pBlockMapping = [k \in Keys |-> NoList]
    /\ th = [t \in Threads |-> IdleThread]
    /\ dirty = {}
    /\ lost = {}
    /\ ops = 0
    /\ ckpt = [at |-> "none", saved |-> {}, mapping |-> "saved", pool |-> "saved",
              failed |-> 0]
    /\ mappingFile = [k \in Keys |-> NoList]
    /\ poolFile = [free |-> m_blockAddresses, total |-> StartBlocks, lost |-> {}]

-----------------------------------------------------------------------------
(***************************************************************************)
(* The operations.  The callers in ExtraDynamicSearcher hold the lock of   *)
(* the posting, so at most one thread works on a key.  Checkpoint holds    *)
(* m_checkPointLock and waits for the jobs, so that no operation starts    *)
(* while it runs, unless writers come that take neither (AddIndex,         *)
(* merges started by searches): ConcurrentWriters.                         *)
(*                                                                         *)
(* An operation on a broken list computes with the address -1; what it     *)
(* does then is undefined and only the crash is modelled (CrashAndRecover). *)
(* Merge is called with data to append, so that n > 0.  A failed read of    *)
(* the partly filled page ends it before it has changed anything.           *)
(***************************************************************************)
MayStart(t, k) ==
    /\ th[t].at = "idle"
    /\ \A u \in Threads : th[u].key # k
    /\ ckpt.at = "none" \/ ConcurrentWriters
    /\ m_pBlockMapping[k].st \notin {"sized", "broken"}
    /\ ops < MaxOps

\* Put: a value of n blocks, too long ones are refused.
Put(t, k, n, partial) ==
    /\ MayStart(t, k)
    /\ n < BlockLimit
    /\ partial => n > 0
    /\ th' = [th EXCEPT ![t] = [IdleThread EXCEPT !.at = "get", !.key = k, !.need = n,
                                                  !.partial = partial]]
    /\ ops' = ops + 1
    /\ UNCHANGED <<pool, m_totalAllocatedBlocks, m_expandLock, m_pBlockMapping, dirty, lost, files>>

\* Merge: n blocks are allocated for the appended data and for the copy of a
\* partly filled last page; that page is released later.
Merge(t, k, n, partial) ==
    /\ MayStart(t, k)
    /\ m_pBlockMapping[k].st = "posting"
    /\ n > 0
    /\ Cardinality(m_pBlockMapping[k].full) + n < BlockLimit
    /\ th' = [th EXCEPT ![t] = [IdleThread EXCEPT !.at = "get", !.key = k, !.need = n,
                                                  !.partial = partial, !.kind = "merge",
                                                  !.kept = m_pBlockMapping[k].full]]
    /\ ops' = ops + 1
    /\ UNCHANGED <<pool, m_totalAllocatedBlocks, m_expandLock, m_pBlockMapping, dirty, lost, files>>

\* Delete: all blocks are released before the list is dropped.
Delete(t, k) ==
    /\ MayStart(t, k)
    /\ m_pBlockMapping[k].st = "posting"
    /\ th' = [th EXCEPT ![t] = [IdleThread EXCEPT !.at = "release", !.key = k,
                                                  !.kind = "delete",
                                                  !.old = BlocksOf(m_pBlockMapping[k]),
                                                  !.rel = BlocksOf(m_pBlockMapping[k])]]
    /\ ops' = ops + 1
    /\ UNCHANGED <<pool, m_totalAllocatedBlocks, m_expandLock, m_pBlockMapping, dirty, lost, files>>

-----------------------------------------------------------------------------
(***************************************************************************)
(* GetBlocks                                                               *)
(***************************************************************************)
RemainBlocks == Cardinality({b \in Blocks : m_blockAddresses[b] > 0})

NeedsExpansion(n) ==
    \/ RemainBlocks < n
    \/ 100 * RemainBlocks < GrowthThreshold * m_totalAllocatedBlocks

CheckExpansion(t) ==
    /\ th[t].at = "get"
    /\ \/ /\ ~NeedsExpansion(th[t].need)
          /\ th' = [th EXCEPT ![t].at = "pop"]
          /\ UNCHANGED m_expandLock
       \/ /\ NeedsExpansion(th[t].need)
          /\ m_expandLock = NoThread
          /\ m_expandLock' = t
          /\ th' = [th EXCEPT ![t].at = "recheck"]
    /\ UNCHANGED <<pool, m_totalAllocatedBlocks, m_pBlockMapping, dirty, lost, files, ops>>

GrowBy(n) == IF GrowthBlocks > n THEN GrowthBlocks ELSE n

\* The Mutant operators are defects a change of the code could introduce; no
\* specification uses them.  Here: the growth is not capped.
MutantCanGrow(t) == NeedsExpansion(th[t].need)

CanGrow(t) ==
    /\ NeedsExpansion(th[t].need)
    /\ m_totalAllocatedBlocks + GrowBy(th[t].need) <= MaxBlocks

\* Enough blocks after all, or the cap is reached: go on to the queue.
SkipExpansion(t) ==
    /\ th[t].at = "recheck"
    /\ ~CanGrow(t)
    /\ m_expandLock' = NoThread
    /\ th' = [th EXCEPT ![t].at = "pop"]
    /\ UNCHANGED <<pool, m_totalAllocatedBlocks, m_pBlockMapping, dirty, lost, files, ops>>

\* The file cannot be extended: GetBlocks and the operation fail.
ExpandFileFails(t) ==
    /\ th[t].at = "recheck"
    /\ CanGrow(t)
    /\ m_expandLock' = NoThread
    /\ th' = [th EXCEPT ![t] = IdleThread]
    /\ UNCHANGED <<pool, m_totalAllocatedBlocks, m_pBlockMapping, dirty, lost, files, ops>>

ExpandFile(t) ==
    /\ th[t].at = "recheck"
    /\ CanGrow(t)
    /\ th' = [th EXCEPT ![t].at = "push", ![t].grow = GrowBy(th[t].need), ![t].grown = 0]
    /\ UNCHANGED <<pool, m_totalAllocatedBlocks, m_expandLock, m_pBlockMapping, dirty, lost, files, ops>>

\* Each new block is queued first and labelled available afterwards.
ExpandPush(t) ==
    /\ th[t].at = "push"
    /\ th[t].grown < th[t].grow
    /\ m_blockAddresses' = [m_blockAddresses EXCEPT ![m_totalAllocatedBlocks + th[t].grown] = @ + 1]
    /\ th' = [th EXCEPT ![t].at = "label"]
    /\ UNCHANGED <<m_blockAddresses_reserve, m_available, m_totalAllocatedBlocks, m_expandLock,
                   m_pBlockMapping, dirty, lost, files, ops>>

ExpandInsert(t) ==
    /\ th[t].at = "label"
    /\ m_available' = m_available \cup {m_totalAllocatedBlocks + th[t].grown}
    /\ th' = [th EXCEPT ![t].at = "push", ![t].grown = @ + 1]
    /\ UNCHANGED <<m_blockAddresses, m_blockAddresses_reserve, m_totalAllocatedBlocks,
                   m_expandLock, m_pBlockMapping, dirty, lost, files, ops>>

ExpandEnd(t) ==
    /\ th[t].at = "push"
    /\ th[t].grown = th[t].grow
    /\ m_totalAllocatedBlocks' = m_totalAllocatedBlocks + th[t].grow
    /\ m_expandLock' = NoThread
    /\ th' = [th EXCEPT ![t].at = "pop", ![t].grow = 0, ![t].grown = 0]
    /\ UNCHANGED <<pool, m_pBlockMapping, dirty, lost, files, ops>>

Pop(t) ==
    /\ th[t].at = "pop"
    /\ th[t].need > 0
    /\ \E b \in Blocks :
          /\ m_blockAddresses[b] > 0
          /\ m_blockAddresses' = [m_blockAddresses EXCEPT ![b] = @ - 1]
          /\ th' = [th EXCEPT ![t].at = "reset", ![t].cur = b]
    /\ UNCHANGED <<m_blockAddresses_reserve, m_available, m_totalAllocatedBlocks, m_expandLock,
                   m_pBlockMapping, dirty, lost, files, ops>>

Reset(t) ==
    /\ th[t].at = "reset"
    /\ m_available' = m_available \ {th[t].cur}
    /\ th' = [th EXCEPT ![t].at = "pop", ![t].need = @ - 1, ![t].cur = NoBlock,
                        ![t].got = @ \cup {th[t].cur}]
    /\ UNCHANGED <<m_blockAddresses, m_blockAddresses_reserve, m_totalAllocatedBlocks,
                   m_expandLock, m_pBlockMapping, dirty, lost, files, ops>>

\* The queue is empty: the operation fails and the blocks popped so far are
\* returned to neither queue.
PopFails(t) ==
    /\ th[t].at = "pop"
    /\ th[t].need > 0
    /\ \A b \in Blocks : m_blockAddresses[b] = 0
    /\ lost' = lost \cup th[t].got
    /\ th' = [th EXCEPT ![t] = IdleThread]
    /\ UNCHANGED <<pool, m_totalAllocatedBlocks, m_expandLock, m_pBlockMapping, dirty, files, ops>>

-----------------------------------------------------------------------------
(***************************************************************************)
(* WriteBlocks: all blocks are written, or some of them and the operation  *)
(* gives the new blocks back.  Afterwards the blocks that the operation    *)
(* replaces are released: all of a put's old ones, a merge's partly filled *)
(* page.  A put into a list of negative size stores the size in that list  *)
(* before it writes; when the write fails it erases the addresses only.    *)
(***************************************************************************)
\* A merge releases the full pages that it keeps, too.
MutantReplaced(t) == BlocksOf(m_pBlockMapping[th[t].key])

Replaced(t) ==
    IF th[t].kind = "merge" THEN m_pBlockMapping[th[t].key].part
    ELSE BlocksOf(m_pBlockMapping[th[t].key])

StoreSize(t) ==
    /\ th[t].at = "pop"
    /\ th[t].need = 0
    /\ m_pBlockMapping[th[t].key].st = "empty"
    /\ m_pBlockMapping' = [m_pBlockMapping EXCEPT ![th[t].key].st = "sized"]
    /\ th' = [th EXCEPT ![t].at = "write"]
    /\ UNCHANGED <<pool, m_totalAllocatedBlocks, m_expandLock, dirty, lost, files, ops>>

MayWrite(t) ==
    \/ th[t].at = "pop" /\ th[t].need = 0 /\ m_pBlockMapping[th[t].key].st # "empty"
    \/ th[t].at = "write"

Named(blocks) == {b \in blocks : \E k \in Keys : b \in BlocksOf(mappingFile[k])}

WriteBlocks(t) ==
    /\ MayWrite(t)
    /\ dirty' = dirty \cup Named(th[t].got)
    /\ th' = [th EXCEPT ![t].at = "release", ![t].old = Replaced(t), ![t].rel = Replaced(t)]
    /\ UNCHANGED <<pool, m_totalAllocatedBlocks, m_expandLock, m_pBlockMapping, lost, files, ops>>

\* The blocks of a failed write are not given back.
MutantWriteBlocksFails(t) ==
    /\ MayWrite(t)
    /\ th[t].got # {}
    /\ \E written \in SUBSET Named(th[t].got) : dirty' = dirty \cup written
    /\ th' = [th EXCEPT ![t].at = "release", ![t].got = {}, ![t].ok = FALSE]
    /\ UNCHANGED <<pool, m_totalAllocatedBlocks, m_expandLock, m_pBlockMapping, lost, files, ops>>

WriteBlocksFails(t) ==
    /\ MayWrite(t)
    /\ th[t].got # {}
    /\ \E written \in SUBSET Named(th[t].got) : dirty' = dirty \cup written
    /\ m_pBlockMapping' =
          IF m_pBlockMapping[th[t].key].st = "sized"
          THEN [m_pBlockMapping EXCEPT ![th[t].key] = BrokenList]
          ELSE m_pBlockMapping
    /\ th' = [th EXCEPT ![t].at = "release", ![t].got = {}, ![t].rel = th[t].got,
                        ![t].ok = FALSE]
    /\ UNCHANGED <<pool, m_totalAllocatedBlocks, m_expandLock, lost, files, ops>>

(***************************************************************************)
(* ReleaseBlocks: a block labelled available already is skipped, the       *)
(* others are labelled and then queued.                                    *)
(***************************************************************************)
ReleaseSkip(t) ==
    /\ th[t].at = "release"
    /\ \E b \in th[t].rel \cap m_available :
          /\ th' = [th EXCEPT ![t].rel = @ \ {b}]
          /\ lost' = lost \cup {b}
    /\ UNCHANGED <<pool, m_totalAllocatedBlocks, m_expandLock, m_pBlockMapping, dirty, files, ops>>

ReleaseInsert(t) ==
    /\ th[t].at = "release"
    /\ \E b \in th[t].rel \ m_available :
          /\ th' = [th EXCEPT ![t].at = "relpush", ![t].rel = @ \ {b}, ![t].cur = b]
          /\ m_available' = m_available \cup {b}
    /\ UNCHANGED <<m_blockAddresses, m_blockAddresses_reserve, m_totalAllocatedBlocks,
                   m_expandLock, m_pBlockMapping, dirty, lost, files, ops>>

\* Released blocks become free at once.
MutantReleasePush(t) ==
    /\ th[t].at = "relpush"
    /\ m_blockAddresses' = [m_blockAddresses EXCEPT ![th[t].cur] = @ + 1]
    /\ th' = [th EXCEPT ![t].at = "release", ![t].cur = NoBlock]
    /\ UNCHANGED <<m_blockAddresses_reserve, m_available, m_totalAllocatedBlocks, m_expandLock,
                   m_pBlockMapping, dirty, lost, files, ops>>

ReleasePush(t) ==
    /\ th[t].at = "relpush"
    /\ IF DisableCheckpoint
       THEN /\ m_blockAddresses' = [m_blockAddresses EXCEPT ![th[t].cur] = @ + 1]
            /\ UNCHANGED m_blockAddresses_reserve
       ELSE /\ m_blockAddresses_reserve' = [m_blockAddresses_reserve EXCEPT ![th[t].cur] = @ + 1]
            /\ UNCHANGED m_blockAddresses
    /\ th' = [th EXCEPT ![t].at = "release", ![t].cur = NoBlock]
    /\ UNCHANGED <<m_available, m_totalAllocatedBlocks, m_expandLock, m_pBlockMapping, dirty,
                   lost, files, ops>>

\* The end of the operation: At(key) gets the new list, or nothing if it failed.
Publish(t) ==
    /\ th[t].at = "release"
    /\ th[t].rel = {}
    /\ IF ~th[t].ok THEN UNCHANGED m_pBlockMapping
       ELSE \E list \in IF th[t].kind = "delete" THEN {NoList}
                        ELSE Lists(th[t].kept, th[t].got, th[t].partial) :
               m_pBlockMapping' = [m_pBlockMapping EXCEPT ![th[t].key] = list]
    /\ th' = [th EXCEPT ![t] = IdleThread]
    /\ UNCHANGED <<pool, m_totalAllocatedBlocks, m_expandLock, dirty, lost, files, ops>>

-----------------------------------------------------------------------------
(***************************************************************************)
(* Checkpoint: the mapping file is truncated and written list by list, the *)
(* reserved blocks become free, and the pool file is written.  The result  *)
(* of Save is not looked at: when the mapping file cannot be opened or     *)
(* written, the reserve is reloaded and the pool saved all the same.  A    *)
(* failure to save the pool is reported, with the reserve reloaded.        *)
(***************************************************************************)
Outdated(file) == IF file = "torn" THEN "torn" ELSE "stale"

MayCheckpoint ==
    /\ ckpt.at = "none"
    /\ \A t \in Threads : th[t].at = "idle"

CheckpointBegin ==
    /\ MayCheckpoint
    /\ ckpt' = [ckpt EXCEPT !.at = "saving", !.mapping = "torn", !.pool = Outdated(@)]
    /\ mappingFile' = [k \in Keys |-> NoList]
    /\ dirty' = {}
    /\ UNCHANGED <<pool, m_totalAllocatedBlocks, m_expandLock, m_pBlockMapping, th, lost,
                   poolFile, ops>>

\* Save cannot open the mapping file: the earlier one stays.
OpenMappingFails ==
    /\ MayCheckpoint
    /\ ckpt.failed < MaxSaveFailures
    /\ ckpt' = [ckpt EXCEPT !.at = "saved", !.mapping = Outdated(@), !.pool = Outdated(@),
                            !.failed = @ + 1]
    /\ UNCHANGED <<pool, m_totalAllocatedBlocks, m_expandLock, m_pBlockMapping, th, dirty, lost,
                   mappingFile, poolFile, ops>>

SaveList(k) ==
    /\ ckpt.at = "saving"
    /\ k \notin ckpt.saved
    /\ mappingFile' = [mappingFile EXCEPT ![k] = m_pBlockMapping[k]]
    /\ ckpt' = [ckpt EXCEPT !.saved = @ \cup {k}]
    /\ dirty' = dirty \ BlocksOf(m_pBlockMapping[k])
    /\ UNCHANGED <<pool, m_totalAllocatedBlocks, m_expandLock, m_pBlockMapping, th, lost,
                   poolFile, ops>>

SaveEnd ==
    /\ ckpt.at = "saving"
    /\ ckpt.saved = Keys
    /\ ckpt' = [ckpt EXCEPT !.at = "saved", !.saved = {}, !.mapping = "saved"]
    /\ UNCHANGED <<pool, m_totalAllocatedBlocks, m_expandLock, m_pBlockMapping, th, dirty, lost,
                   mappingFile, poolFile, ops>>

\* A write to the mapping file fails: Save returns, with a part of it written.  What
\* that part holds is left out, as is a recovery from it (MayRecover).
SaveFails ==
    /\ ckpt.at = "saving"
    /\ ckpt.failed < MaxSaveFailures
    /\ ckpt' = [ckpt EXCEPT !.at = "saved", !.saved = {}, !.failed = @ + 1]
    /\ mappingFile' = [k \in Keys |-> NoList]
    /\ dirty' = {}
    /\ UNCHANGED <<pool, m_totalAllocatedBlocks, m_expandLock, m_pBlockMapping, th, lost,
                   poolFile, ops>>

ReloadReserve ==
    /\ ckpt.at = "saved"
    /\ m_blockAddresses' = [b \in Blocks |-> m_blockAddresses[b] + m_blockAddresses_reserve[b]]
    /\ m_blockAddresses_reserve' = EmptyQueue
    /\ ckpt' = [ckpt EXCEPT !.at = "reloaded"]
    /\ UNCHANGED <<m_available, m_totalAllocatedBlocks, m_expandLock, m_pBlockMapping, th, dirty,
                   lost, mappingFile, poolFile, ops>>

\* The pool is saved with the total of the previous checkpoint.
MutantSavePool ==
    /\ ckpt.at = "reloaded"
    /\ poolFile' = [free |-> m_blockAddresses, total |-> poolFile.total, lost |-> lost]
    /\ ckpt' = [ckpt EXCEPT !.at = "none", !.pool = "saved"]
    /\ UNCHANGED <<pool, m_totalAllocatedBlocks, m_expandLock, m_pBlockMapping, th, dirty, lost,
                   mappingFile, ops>>

SavePool ==
    /\ ckpt.at = "reloaded"
    /\ poolFile' = [free |-> m_blockAddresses, total |-> m_totalAllocatedBlocks, lost |-> lost]
    /\ ckpt' = [ckpt EXCEPT !.at = "none", !.pool = "saved"]
    /\ UNCHANGED <<pool, m_totalAllocatedBlocks, m_expandLock, m_pBlockMapping, th, dirty, lost,
                   mappingFile, ops>>

\* The pool file cannot be opened, or a write to it fails.
SavePoolFails ==
    /\ ckpt.at = "reloaded"
    /\ ckpt.failed < MaxSaveFailures
    /\ \E file \in {ckpt.pool, "torn"} :
          ckpt' = [ckpt EXCEPT !.at = "none", !.pool = file, !.failed = @ + 1]
    /\ UNCHANGED <<pool, m_totalAllocatedBlocks, m_expandLock, m_pBlockMapping, th, dirty, lost,
                   mappingFile, poolFile, ops>>

(***************************************************************************)
(* A crash and the recovery from the saved files (Load, LoadBlockPool): a  *)
(* posting absent from the file gets a list of negative size, a block      *)
(* listed twice is taken once.  A recovery from a file written in part is  *)
(* not modelled.  With such a pool the index does not open; with such a    *)
(* mapping it does, since the result of Load is not looked at: the rest of *)
(* the postings is missing, and one list is not initialized.               *)
(***************************************************************************)
Loaded(list) == IF list.st = "none" THEN EmptyList ELSE list

MayRecover ==
    /\ ckpt.mapping # "torn" /\ ckpt.pool # "torn"
    /\ (ckpt.mapping = "saved" /\ ckpt.pool = "saved") \/ RecoverStale

CrashAndRecover ==
    /\ MayRecover
    /\ m_pBlockMapping' = [k \in Keys |-> Loaded(mappingFile[k])]
    /\ m_blockAddresses' = [b \in Blocks |-> IF poolFile.free[b] > 0 THEN 1 ELSE 0]
    /\ m_blockAddresses_reserve' = EmptyQueue
    /\ m_available' = {b \in Blocks : poolFile.free[b] > 0}
    /\ m_totalAllocatedBlocks' = poolFile.total
    /\ m_expandLock' = NoThread
    /\ th' = [t \in Threads |-> IdleThread]
    /\ lost' = poolFile.lost
    /\ ckpt' = [ckpt EXCEPT !.at = "none", !.saved = {}]
    /\ UNCHANGED <<dirty, mappingFile, poolFile, ops>>

ThreadStep(t) ==
    \/ \E k \in Keys, n \in 0 .. BlockLimit - 1, partial \in BOOLEAN :
          Put(t, k, n, partial) \/ Merge(t, k, n, partial)
    \/ \E k \in Keys : Delete(t, k)
    \/ CheckExpansion(t) \/ SkipExpansion(t) \/ ExpandFileFails(t) \/ ExpandFile(t)
    \/ ExpandPush(t) \/ ExpandInsert(t) \/ ExpandEnd(t)
    \/ Pop(t) \/ Reset(t) \/ PopFails(t)
    \/ StoreSize(t) \/ WriteBlocks(t) \/ WriteBlocksFails(t)
    \/ ReleaseSkip(t) \/ ReleaseInsert(t) \/ ReleasePush(t) \/ Publish(t)

CheckpointStep ==
    \/ CheckpointBegin \/ OpenMappingFails
    \/ (\E k \in Keys : SaveList(k)) \/ SaveEnd \/ SaveFails
    \/ ReloadReserve \/ SavePool \/ SavePoolFails

Next == (\E t \in Threads : ThreadStep(t)) \/ CheckpointStep \/ CrashAndRecover

Spec == Init /\ [][Next]_vars

-----------------------------------------------------------------------------
Phases == {"idle", "get", "recheck", "push", "label", "pop", "reset", "write",
           "release", "relpush"}

ThreadState ==
    [at : Phases, key : Keys \cup {NoKey}, need : Nat, grow : Nat, grown : Nat,
     got : SUBSET Blocks, cur : Blocks \cup {NoBlock}, kept : SUBSET Blocks,
     old : SUBSET Blocks, rel : SUBSET Blocks, partial : BOOLEAN,
     kind : {"put", "merge", "delete"}, ok : BOOLEAN]

\* The type of the store's state.
TypeOK ==
    /\ m_blockAddresses \in [Blocks -> Nat]
    /\ m_blockAddresses_reserve \in [Blocks -> Nat]
    /\ m_available \subseteq Blocks
    /\ m_totalAllocatedBlocks \in 0 .. MaxBlocks
    /\ m_expandLock \in Threads \cup {NoThread}
    /\ m_pBlockMapping \in [Keys -> List]
    /\ th \in [Threads -> ThreadState]
    /\ dirty \subseteq Blocks
    /\ lost \subseteq Blocks
    /\ ops \in Nat
    /\ ckpt \in [at : CheckpointPhases, saved : SUBSET Keys, mapping : FileStates,
                pool : FileStates, failed : Nat]
    /\ mappingFile \in [Keys -> List]
    /\ poolFile \in [free : [Blocks -> Nat], total : 0 .. MaxBlocks, lost : SUBSET Blocks]

Queued(b) == m_blockAddresses[b] + m_blockAddresses_reserve[b]

\* The blocks a thread has taken from a queue or is about to put into one.
InHand(r) == r.got \cup r.rel \cup ({r.cur} \ {NoBlock})
Held(t) == InHand(th[t])

\* The blocks of a posting that no operation has begun to give back.
Live(k) == {b \in BlocksOf(m_pBlockMapping[k]) :
               \A t \in Threads : th[t].key = k => b \notin th[t].old}

\* FileIO::Check reports a block that two postings use ("Block %lld double used!",
\* ExtraFileController.h:956-959).  No block is ever used twice: a queued block is
\* queued once and belongs to no thread and no posting, and neither threads nor
\* postings share a block, however GetBlocks and ReleaseBlocks of several threads,
\* expansion, checkpoints, crashes and recoveries interleave.
BlockUsedOnce ==
    /\ \A b \in Blocks : Queued(b) <= 1
    /\ \A b \in Blocks : Queued(b) = 1 =>
          /\ \A t \in Threads : b \notin Held(t)
          /\ \A k \in Keys : b \notin Live(k)
    /\ \A t, u \in Threads : t # u => Held(t) \cap Held(u) = {}
    /\ \A t \in Threads : \A k \in Keys : Held(t) \cap Live(k) = {}
    /\ \A j, k \in Keys : j # k => Live(j) \cap Live(k) = {}

\* "To ensure the effectiveness of the checkpoint, new blocks must be allocated for
\* writing here" (ExtraFileController.h:883, 1075): the data file is not part of the
\* checkpoint, so once Save has written the mapping, every page of it must still hold
\* what it held then, whatever has been put, merged, deleted, released and reallocated
\* since, and even if the pool could not be saved (122-131), after which the
\* reserved blocks are free.  Says nothing of a mapping that Save could not write.
CheckpointIntact ==
    ckpt.at = "none" /\ ckpt.mapping = "saved" =>
        \A k \in Keys : BlocksOf(mappingFile[k]) \cap dirty = {}

\* The claim of ExtraFileController.h:883 for every Checkpoint that returns Success,
\* whose log ExtraDynamicSearcher then deletes: the pages of the mapping file, if that is
\* a whole one, still hold what they held when it was saved.
SuccessProtectsPages ==
    ckpt.at = "none" /\ ckpt.mapping # "torn" /\ ckpt.pool = "saved" =>
        \A k \in Keys : BlocksOf(mappingFile[k]) \cap dirty = {}

\* A recovery from two files that one Checkpoint has saved finds the mapping and the
\* pool in agreement: no saved posting shares a block with another one or with the
\* saved free list (ExtraFileController.h:102-201, 1175-1192).  Says nothing once
\* either of them could not be saved: then they are of different checkpoints.
SavedFilesAgree ==
    ckpt.at = "none" /\ ckpt.mapping = "saved" /\ ckpt.pool = "saved" =>
        /\ \A k \in Keys : \A b \in BlocksOf(mappingFile[k]) :
              poolFile.free[b] = 0 /\ b < poolFile.total
        /\ \A j, k \in Keys : j # k => BlocksOf(mappingFile[j]) \cap BlocksOf(mappingFile[k]) = {}

\* Get and MultiGet read At(key) and then the pages without any lock.  A page is
\* never overwritten while a posting's list still names it: the blocks a thread is
\* about to write are in no posting, not even in one that is being replaced
\* (ExtraFileController.h:692, 708, 901-906, 1124-1138).  The first put into a list of
\* negative size is the exception: it fills in the list before it writes (867-868).
PublishedNotOverwritten ==
    \A t \in Threads : \A k \in Keys :
        th[t].at \in {"pop", "write"} => th[t].got \cap BlocksOf(m_pBlockMapping[k]) = {}

\* No block leaks except by the two recorded ways (a GetBlocks that runs dry keeps
\* what it has popped, a release that meets a stale label skips the block):
\* every block of the file is queued, held by a thread, in a posting or recorded.
NoOtherLeak ==
    \A b \in 0 .. m_totalAllocatedBlocks - 1 :
        \/ Queued(b) > 0
        \/ b \in lost
        \/ \E t \in Threads : b \in Held(t)
        \/ \E k \in Keys : b \in Live(k)
=============================================================================
