---------------------------- MODULE FileIO_proofs ----------------------------
(***************************************************************************)
(* Proofs about FileIO for every number of threads, postings and blocks.   *)
(* The inductive invariant says where a block can be: in one queue, with   *)
(* one thread, in one posting, or not yet part of the file (Beyond); and   *)
(* that the blocks of a mapping that was saved, and those that an          *)
(* operation gives back while its old list is still published, stay out of *)
(* the free queue (KeptBlocks).  A second one, LInv, says that it is in    *)
(* one of them.  Checkpoint may fail to save either file, any number of    *)
(* times.                                                                  *)
(***************************************************************************)
EXTENDS FileIO_types

\* What the checkpoint protocol of Index::Checkpoint provides when every writer takes
\* m_checkPointLock and a recovery starts from two files of one Checkpoint: the
\* process does not die inside it, nor after one that failed to save a file.
Quiet ==
    /\ ~ConcurrentWriters
    /\ ~DisableCheckpoint
    /\ ~RecoverStale

\* At most one thread works on a posting.
OneThreadPerKey ==
    \A t, u \in Threads : t # u /\ th[t].key # NoKey => th[t].key # th[u].key

\* The parts of a thread's hand are disjoint.
Apart(r) ==
    /\ r.cur \notin r.got \cup r.rel
    /\ r.got \cap r.rel = {}

\* What an operation keeps and what it gives back make up the list it replaces.
Replaces(t) ==
    (th[t].at # "idle" /\ th[t].ok) =>
        /\ th[t].kind = "merge" => th[t].kept = m_pBlockMapping[th[t].key].full
        /\ Releases(th[t]) => th[t].old = Replaced(t)

ListsOK ==
    \A k \in Keys :
        /\ m_pBlockMapping[k].full \cap m_pBlockMapping[k].part = {}
        /\ m_pBlockMapping[k].st # "posting" => BlocksOf(m_pBlockMapping[k]) = {}

\* A block that has never been queued since the last recovery.
Nowhere(b) ==
    /\ Queued(b) = 0
    /\ \A t \in Threads : b \notin Held(t) \cup th[t].old
    /\ \A k \in Keys : b \notin BlocksOf(m_pBlockMapping[k])

\* A block that the thread which extends the file has queued.
Fresh(b) ==
    \E t \in Threads :
        \/ th[t].at = "push" /\ b < m_totalAllocatedBlocks + th[t].grown
        \/ th[t].at = "label" /\ b <= m_totalAllocatedBlocks + th[t].grown

Beyond == \A b \in Blocks : b >= m_totalAllocatedBlocks => Nowhere(b) \/ Fresh(b)

\* Blocks whose contents the data file must not lose yet, and the blocks that a
\* thread has taken from the free queue in order to write them.
Kept(b) ==
    \/ /\ ckpt.at = "none" /\ ckpt.mapping = "saved"
       /\ \E k \in Keys : b \in BlocksOf(mappingFile[k])
    \/ \E t \in Threads : b \in th[t].old

Taken(r) == r.got \cup (IF r.at = "reset" THEN {r.cur} ELSE {})

KeptBlocks ==
    \A b \in Blocks : Kept(b) =>
        /\ m_blockAddresses[b] = 0
        /\ \A t \in Threads : b \notin Taken(th[t])

\* While Checkpoint runs nobody else does, its pool is yet to be saved, and the lists
\* that it has saved are the current ones.
CheckpointOK ==
    /\ ckpt.at # "none" => ckpt.pool # "saved" /\ \A t \in Threads : th[t].at = "idle"
    /\ IF ckpt.at = "saving" THEN ckpt.mapping = "torn" ELSE ckpt.saved = {}
    /\ \A k \in Keys :
          (ckpt.at \in {"saved", "reloaded"} /\ ckpt.mapping = "saved") \/ k \in ckpt.saved =>
          mappingFile[k] = m_pBlockMapping[k] /\ BlocksOf(mappingFile[k]) \cap dirty = {}
    /\ ckpt.at = "reloaded" => \A b \in Blocks : m_blockAddresses_reserve[b] = 0

FilesOK ==
    /\ poolFile.total <= m_totalAllocatedBlocks
    /\ \A b \in Blocks : poolFile.free[b] > 0 => b < poolFile.total
    /\ \A k \in Keys :
          /\ mappingFile[k].full \cap mappingFile[k].part = {}
          /\ mappingFile[k].st # "posting" => BlocksOf(mappingFile[k]) = {}
    /\ ckpt.at = "none" /\ ckpt.mapping = "saved" =>
          \A k \in Keys : \A b \in BlocksOf(mappingFile[k]) : b < m_totalAllocatedBlocks

BInv ==
    /\ OneThreadPerKey
    /\ \A t \in Threads : Apart(th[t]) /\ Replaces(t)
    /\ ListsOK
    /\ BlockUsedOnce
    /\ Beyond
    /\ KeptBlocks
    /\ CheckpointIntact
    /\ SavedFilesAgree
    /\ CheckpointOK
    /\ FilesOK

-----------------------------------------------------------------------------
(***************************************************************************)
(* What the steps of one thread have in common.                            *)
(***************************************************************************)
\* A step of one thread leaves the records of the others alone.
LEMMA Frame ==
    ASSUME TInv, NEW t \in Threads, NEW s, th' = [th EXCEPT ![t] = s]
    PROVE  /\ th'[t] = s
           /\ \A u \in Threads : u # t => th'[u] = th[u]
           /\ Held(t)' = InHand(s)
           /\ \A u \in Threads : u # t => Held(u)' = Held(u)
<1>1. th'[t] = s /\ \A u \in Threads : u # t => th'[u] = th[u]
  BY DEF TInv, ThreadsOK
<1> QED BY <1>1 DEF Held

\* A thread executes or begins an operation only while no checkpoint runs.
LEMMA NoCheckpoint ==
    ASSUME BInv, Quiet, NEW t \in Threads,
           th[t].at # "idle" \/ \E k \in Keys : MayStart(t, k)
    PROVE  ckpt.at = "none" /\ ckpt.saved = {}
<1>1. ckpt.at = "none"
  BY DEF BInv, CheckpointOK, MayStart, Quiet
<1> QED BY <1>1 DEF BInv, CheckpointOK

\* Outside a checkpoint nothing changes the saved files, and the file only grows.
LEMMA FilesStep ==
    ASSUME TInv, TInv', BInv, ckpt.at = "none", UNCHANGED files,
           m_totalAllocatedBlocks' >= m_totalAllocatedBlocks
    PROVE  SavedFilesAgree' /\ CheckpointOK' /\ FilesOK'
<1>1. ckpt' = ckpt /\ mappingFile' = mappingFile /\ poolFile' = poolFile
  BY DEF files
<1>2. SavedFilesAgree'
  BY <1>1 DEF BInv, SavedFilesAgree, BlocksOf
<1>3. CheckpointOK'
  BY <1>1 DEF BInv, CheckpointOK
<1>4. poolFile.total <= m_totalAllocatedBlocks'
  <2>1. /\ poolFile.total \in Int /\ m_totalAllocatedBlocks \in Int
        /\ m_totalAllocatedBlocks' \in Int
    BY DEF TInv, TypeOK
  <2> QED BY <2>1 DEF BInv, FilesOK
<1>5. ASSUME ckpt.mapping = "saved", NEW k \in Keys, NEW b \in BlocksOf(mappingFile[k])
      PROVE  b < m_totalAllocatedBlocks'
  <2>1. b \in Int /\ m_totalAllocatedBlocks \in Int /\ m_totalAllocatedBlocks' \in Int
    BY DEF TInv, TypeOK, List, BlocksOf, Blocks
  <2> QED BY <1>5, <2>1 DEF BInv, FilesOK
<1>6. FilesOK'
  BY <1>1, <1>4, <1>5 DEF BInv, FilesOK, BlocksOf
<1> QED BY <1>2, <1>3, <1>6

\* A step that does not begin an operation keeps the threads on different postings.
LEMMA SameKey ==
    ASSUME TInv, BInv, NEW t \in Threads, NEW s, th' = [th EXCEPT ![t] = s],
           s.key = th[t].key \/ s.key = NoKey
    PROVE  OneThreadPerKey'
  BY Frame DEF BInv, OneThreadPerKey

\* A step that leaves the lists alone disturbs the record of its own thread only.
LEMMA RecordStep ==
    ASSUME TInv, BInv, NEW t \in Threads, NEW s, th' = [th EXCEPT ![t] = s],
           UNCHANGED m_pBlockMapping, Apart(s), Replaces(t)'
    PROVE  ListsOK' /\ \A u \in Threads : Apart(th[u])' /\ Replaces(u)'
<1>1. ListsOK'
  BY DEF BInv, ListsOK
<1>2. ASSUME NEW u \in Threads, u # t PROVE Apart(th[u])' /\ Replaces(u)'
  <2>1. th'[u] = th[u]
    BY <1>2, Frame
  <2>2. Apart(th[u]) /\ Replaces(u)
    BY DEF BInv
  <2> QED BY <2>1, <2>2 DEF Apart, Replaces, Replaced
<1>3. Apart(th[t])'
  BY Frame
<1> QED BY <1>1, <1>2, <1>3

\* What a posting's list says does not change if no thread begins or ends to give
\* blocks back and every list keeps its blocks.
LEMMA LiveSame ==
    ASSUME TInv, NEW t \in Threads, NEW s, th' = [th EXCEPT ![t] = s],
           \A k \in Keys : BlocksOf(m_pBlockMapping'[k]) = BlocksOf(m_pBlockMapping[k]),
           \/ s.old = th[t].old /\ s.key = th[t].key
           \/ s.old = {} /\ th[t].old = {}
    PROVE  \A k \in Keys : Live(k)' = Live(k)
<1> SUFFICES ASSUME NEW k \in Keys, NEW b \in BlocksOf(m_pBlockMapping[k])
             PROVE  (\A u \in Threads : th'[u].key = k => b \notin th'[u].old)
                    <=> (\A u \in Threads : th[u].key = k => b \notin th[u].old)
  BY DEF Live
<1> QED BY Frame

\* Steps that move no block from one place to another: the thread only drops
\* blocks from its hand, if any.
LEMMA NoMove ==
    ASSUME TInv, BInv, NEW t \in Threads, NEW s, th' = [th EXCEPT ![t] = s],
           UNCHANGED <<m_blockAddresses, m_blockAddresses_reserve>>,
           \A k \in Keys : BlocksOf(m_pBlockMapping'[k]) = BlocksOf(m_pBlockMapping[k]),
           \/ s.old = th[t].old /\ s.key = th[t].key
           \/ s.old = {} /\ th[t].old = {},
           InHand(s) \subseteq InHand(th[t]), Taken(s) \subseteq Taken(th[t]),
           UNCHANGED files
    PROVE  /\ BlockUsedOnce'
           /\ KeptBlocks'
           /\ \A b \in Blocks : Nowhere(b) => Nowhere(b)'
<1>1. \A k \in Keys : Live(k)' = Live(k)
  BY LiveSame
<1>2. \A b \in Blocks : Queued(b)' = Queued(b)
  BY DEF Queued
<1>3. \A u \in Threads : Held(u)' \subseteq Held(u)
  BY Frame DEF Held
<1>4. \A u \in Threads : th'[u].old = th[u].old /\ Taken(th'[u]) \subseteq Taken(th[u])
  BY Frame
<1>5. BlockUsedOnce'
  BY <1>1, <1>2, <1>3 DEF BInv, BlockUsedOnce
<1>6. KeptBlocks'
  <2>1. ASSUME NEW b \in Blocks, Kept(b)' PROVE Kept(b)
    BY <1>4, <2>1 DEF Kept, files
  <2> QED BY <1>4, <2>1 DEF BInv, KeptBlocks
<1>7. ASSUME NEW b \in Blocks, Nowhere(b) PROVE Nowhere(b)'
  BY <1>2, <1>3, <1>4, <1>7 DEF Nowhere
<1> QED BY <1>5, <1>6, <1>7

\* A step of a thread that does not extend the file.
LEMMA BeyondStep ==
    ASSUME TInv, BInv, NEW t \in Threads, NEW s, th' = [th EXCEPT ![t] = s],
           ~Growing(th[t]), UNCHANGED m_totalAllocatedBlocks,
           \A b \in Blocks : Nowhere(b) => Nowhere(b)'
    PROVE  Beyond'
<1>1. ASSUME NEW b \in Blocks, Fresh(b) PROVE Fresh(b)'
  <2>1. PICK u \in Threads :
           \/ th[u].at = "push" /\ b < m_totalAllocatedBlocks + th[u].grown
           \/ th[u].at = "label" /\ b <= m_totalAllocatedBlocks + th[u].grown
    BY <1>1 DEF Fresh
  <2>2. th'[u] = th[u]
    BY <2>1, Frame DEF Growing
  <2> QED BY <2>1, <2>2 DEF Fresh
<1> QED BY <1>1 DEF BInv, Beyond

\* All of this together, for steps that only change a thread's record, the labels
\* and the history.
LEMMA CalmStep ==
    ASSUME TInv, TInv', BInv, Quiet, NEW t \in Threads, NEW s, th' = [th EXCEPT ![t] = s],
           UNCHANGED <<m_blockAddresses, m_blockAddresses_reserve, m_totalAllocatedBlocks,
                       m_pBlockMapping, dirty, files>>,
           ckpt.at = "none", ~Growing(th[t]), OneThreadPerKey',
           \/ s.old = th[t].old /\ s.key = th[t].key
           \/ s.old = {} /\ th[t].old = {},
           InHand(s) \subseteq InHand(th[t]), Taken(s) \subseteq Taken(th[t]),
           Apart(s), Replaces(t)'
    PROVE  BInv'
<1>1. BlockUsedOnce' /\ KeptBlocks' /\ \A b \in Blocks : Nowhere(b) => Nowhere(b)'
  BY NoMove
<1>2. Beyond'
  BY <1>1, BeyondStep
<1>3. ListsOK' /\ \A u \in Threads : Apart(th[u])' /\ Replaces(u)'
  BY RecordStep
<1>4. SavedFilesAgree' /\ CheckpointOK' /\ FilesOK'
  <2>1. m_totalAllocatedBlocks' >= m_totalAllocatedBlocks
    BY DEF TInv, TypeOK
  <2> QED BY <2>1, FilesStep
<1>5. CheckpointIntact'
  BY DEF files, BInv, CheckpointIntact
<1> QED BY <1>1, <1>2, <1>3, <1>4, <1>5 DEF BInv

-----------------------------------------------------------------------------
(***************************************************************************)
(* The steps that move no block.                                           *)
(***************************************************************************)
\* Put begins on a posting that no other thread works on.
LEMMA PutBlocks ==
    ASSUME TInv, TInv', BInv, Quiet, NEW t \in Threads, NEW k \in Keys, NEW n \in 0 .. BlockLimit - 1, NEW p \in BOOLEAN,
           Put(t, k, n, p)
    PROVE  BInv'
<1> DEFINE r == th[t]
           s == [IdleThread EXCEPT !.at = "get", !.key = k, !.need = n, !.partial = p]
<1>1. r \in ThreadState /\ Hand(r) /\ Apart(r) /\ Replaces(t)
  BY DEF TInv, ThreadsOK, BInv
<1>2. th' = [th EXCEPT ![t] = s] /\ th'[t] = s
  BY <1>1 DEF Put, ThreadState, TInv, ThreadsOK
<1>3. ckpt.at = "none"
  BY NoCheckpoint DEF Put
<1>4. OneThreadPerKey'
  <2>1. s.key = k
    BY DEF IdleThread
  <2> QED BY <1>2, <2>1, Frame DEF Put, MayStart, BInv, OneThreadPerKey
<1>5. s.old = {} /\ r.old = {}
  BY <1>1 DEF Put, MayStart, Hand, Releases, IdleThread
<1>6. InHand(s) \subseteq InHand(r) /\ Taken(s) \subseteq Taken(r) /\ Apart(s)
  BY DEF InHand, Taken, Apart, IdleThread
<1>7. Replaces(t)'
  <2>1. s.at = "get" /\ s.kind = "put"
    BY DEF IdleThread
  <2> QED BY <1>2, <2>1 DEF Put, Replaces, Releases
<1>8. ~Growing(r)
  BY DEF Put, MayStart, Growing
<1> QED BY <1>1, <1>2, <1>3, <1>4, <1>5, <1>6, <1>7, <1>8, CalmStep DEF Put, pool

\* Merge begins with the full pages of its posting kept.
LEMMA MergeBlocks ==
    ASSUME TInv, TInv', BInv, Quiet, NEW t \in Threads, NEW k \in Keys, NEW n \in 0 .. BlockLimit - 1, NEW p \in BOOLEAN,
           Merge(t, k, n, p)
    PROVE  BInv'
<1> DEFINE r == th[t]
           s == [IdleThread EXCEPT !.at = "get", !.key = k, !.need = n, !.partial = p,
                                  !.kind = "merge", !.kept = m_pBlockMapping[k].full]
<1>1. r \in ThreadState /\ Hand(r) /\ Apart(r) /\ Replaces(t)
  BY DEF TInv, ThreadsOK, BInv
<1>2. th' = [th EXCEPT ![t] = s] /\ th'[t] = s
  BY <1>1 DEF Merge, ThreadState, TInv, ThreadsOK
<1>3. ckpt.at = "none"
  BY NoCheckpoint DEF Merge
<1>4. OneThreadPerKey'
  <2>1. s.key = k
    BY DEF IdleThread
  <2> QED BY <1>2, <2>1, Frame DEF Merge, MayStart, BInv, OneThreadPerKey
<1>5. s.old = {} /\ r.old = {}
  BY <1>1 DEF Merge, MayStart, Hand, Releases, IdleThread
<1>6. InHand(s) \subseteq InHand(r) /\ Taken(s) \subseteq Taken(r) /\ Apart(s)
  BY DEF InHand, Taken, Apart, IdleThread
<1>7. Replaces(t)'
  <2>1. s.at = "get" /\ s.key = k /\ s.kept = m_pBlockMapping[k].full
    BY DEF IdleThread
  <2> QED BY <1>2, <2>1 DEF Merge, Replaces, Releases
<1>8. ~Growing(r)
  BY DEF Merge, MayStart, Growing
<1> QED BY <1>1, <1>2, <1>3, <1>4, <1>5, <1>6, <1>7, <1>8, CalmStep DEF Merge, pool

\* Leaving the expansion without extending the file moves nothing.
LEMMA SkipExpansionBlocks ==
    ASSUME TInv, TInv', BInv, Quiet, NEW t \in Threads, SkipExpansion(t)
    PROVE  BInv'
<1> DEFINE r == th[t]
           s == [r EXCEPT !.at = "pop"]
<1>1. r \in ThreadState /\ Hand(r) /\ Apart(r) /\ Replaces(t)
  BY DEF TInv, ThreadsOK, BInv
<1>2. th' = [th EXCEPT ![t] = s] /\ th'[t] = s
  BY <1>1 DEF SkipExpansion, ThreadState, TInv, ThreadsOK
<1>3. ckpt.at = "none"
  BY NoCheckpoint DEF SkipExpansion
<1>4. OneThreadPerKey'
  BY <1>1, <1>2, SameKey DEF ThreadState
<1>5. s.old = r.old /\ s.key = r.key
  BY <1>1 DEF ThreadState
<1>6. InHand(s) \subseteq InHand(r) /\ Taken(s) \subseteq Taken(r) /\ Apart(s)
  BY <1>1 DEF SkipExpansion, InHand, Taken, Apart, ThreadState, Hand, NoBlock, Blocks
<1>7. Replaces(t)'
  BY <1>1, <1>2 DEF SkipExpansion, Replaces, Releases, ThreadState
<1>8. ~Growing(r)
  BY DEF SkipExpansion, Growing
<1> QED BY <1>1, <1>2, <1>3, <1>4, <1>5, <1>6, <1>7, <1>8, CalmStep DEF SkipExpansion, pool

\* A failed extension moves nothing.
LEMMA ExpandFileFailsBlocks ==
    ASSUME TInv, TInv', BInv, Quiet, NEW t \in Threads, ExpandFileFails(t)
    PROVE  BInv'
<1> DEFINE r == th[t]
           s == IdleThread
<1>1. r \in ThreadState /\ Hand(r) /\ Apart(r) /\ Replaces(t)
  BY DEF TInv, ThreadsOK, BInv
<1>2. th' = [th EXCEPT ![t] = s] /\ th'[t] = s
  BY <1>1 DEF ExpandFileFails, ThreadState, TInv, ThreadsOK
<1>3. ckpt.at = "none"
  BY NoCheckpoint DEF ExpandFileFails
<1>4. OneThreadPerKey'
  BY <1>1, <1>2, SameKey DEF ThreadState, IdleThread
<1>5. s.old = {} /\ r.old = {}
  BY <1>1 DEF ExpandFileFails, Hand, Releases, IdleThread
<1>6. InHand(s) \subseteq InHand(r) /\ Taken(s) \subseteq Taken(r) /\ Apart(s)
  BY <1>1 DEF ExpandFileFails, InHand, Taken, Apart, ThreadState, Hand, NoBlock, Blocks, IdleThread
<1>7. Replaces(t)'
  BY <1>1, <1>2 DEF ExpandFileFails, Replaces, Releases, ThreadState, IdleThread
<1>8. ~Growing(r)
  BY DEF ExpandFileFails, Growing
<1> QED BY <1>1, <1>2, <1>3, <1>4, <1>5, <1>6, <1>7, <1>8, CalmStep DEF ExpandFileFails, pool

\* The beginning of an extension moves nothing.
LEMMA ExpandFileBlocks ==
    ASSUME TInv, TInv', BInv, Quiet, NEW t \in Threads, ExpandFile(t)
    PROVE  BInv'
<1> DEFINE r == th[t]
           s == [r EXCEPT !.at = "push", !.grow = GrowBy(r.need), !.grown = 0]
<1>1. r \in ThreadState /\ Hand(r) /\ Apart(r) /\ Replaces(t)
  BY DEF TInv, ThreadsOK, BInv
<1>2. th' = [th EXCEPT ![t] = s] /\ th'[t] = s
  BY <1>1 DEF ExpandFile, ThreadState, TInv, ThreadsOK
<1>3. ckpt.at = "none"
  BY NoCheckpoint DEF ExpandFile
<1>4. OneThreadPerKey'
  BY <1>1, <1>2, SameKey DEF ThreadState
<1>5. s.old = r.old /\ s.key = r.key
  BY <1>1 DEF ThreadState
<1>6. InHand(s) \subseteq InHand(r) /\ Taken(s) \subseteq Taken(r) /\ Apart(s)
  BY <1>1 DEF ExpandFile, InHand, Taken, Apart, ThreadState, Hand, NoBlock, Blocks
<1>7. Replaces(t)'
  BY <1>1, <1>2 DEF ExpandFile, Replaces, Releases, ThreadState
<1>8. ~Growing(r)
  BY DEF ExpandFile, Growing
<1> QED BY <1>1, <1>2, <1>3, <1>4, <1>5, <1>6, <1>7, <1>8, CalmStep DEF ExpandFile, pool

\* The popped block stays in the hand.
LEMMA ResetBlocks ==
    ASSUME TInv, TInv', BInv, Quiet, NEW t \in Threads, Reset(t)
    PROVE  BInv'
<1> DEFINE r == th[t]
           s == [r EXCEPT !.at = "pop", !.need = @ - 1, !.cur = NoBlock,
                                 !.got = @ \cup {r.cur}]
<1>1. r \in ThreadState /\ Hand(r) /\ Apart(r) /\ Replaces(t)
  BY DEF TInv, ThreadsOK, BInv
<1>2. th' = [th EXCEPT ![t] = s] /\ th'[t] = s
  BY <1>1 DEF Reset, ThreadState, TInv, ThreadsOK
<1>3. ckpt.at = "none"
  BY NoCheckpoint DEF Reset
<1>4. OneThreadPerKey'
  BY <1>1, <1>2, SameKey DEF ThreadState
<1>5. s.old = r.old /\ s.key = r.key
  BY <1>1 DEF ThreadState
<1>6. InHand(s) \subseteq InHand(r) /\ Taken(s) \subseteq Taken(r) /\ Apart(s)
  BY <1>1 DEF Reset, InHand, Taken, Apart, ThreadState, Hand, NoBlock, Blocks
<1>7. Replaces(t)'
  BY <1>1, <1>2 DEF Reset, Replaces, Releases, ThreadState
<1>8. ~Growing(r)
  BY DEF Reset, Growing
<1> QED BY <1>1, <1>2, <1>3, <1>4, <1>5, <1>6, <1>7, <1>8, CalmStep DEF Reset, pool

\* A dry queue drops the blocks popped so far.
LEMMA PopFailsBlocks ==
    ASSUME TInv, TInv', BInv, Quiet, NEW t \in Threads, PopFails(t)
    PROVE  BInv'
<1> DEFINE r == th[t]
           s == IdleThread
<1>1. r \in ThreadState /\ Hand(r) /\ Apart(r) /\ Replaces(t)
  BY DEF TInv, ThreadsOK, BInv
<1>2. th' = [th EXCEPT ![t] = s] /\ th'[t] = s
  BY <1>1 DEF PopFails, ThreadState, TInv, ThreadsOK
<1>3. ckpt.at = "none"
  BY NoCheckpoint DEF PopFails
<1>4. OneThreadPerKey'
  BY <1>1, <1>2, SameKey DEF ThreadState, IdleThread
<1>5. s.old = {} /\ r.old = {}
  BY <1>1 DEF PopFails, Hand, Releases, IdleThread
<1>6. InHand(s) \subseteq InHand(r) /\ Taken(s) \subseteq Taken(r) /\ Apart(s)
  BY <1>1 DEF PopFails, InHand, Taken, Apart, ThreadState, Hand, NoBlock, Blocks, IdleThread
<1>7. Replaces(t)'
  BY <1>1, <1>2 DEF PopFails, Replaces, Releases, ThreadState, IdleThread
<1>8. ~Growing(r)
  BY DEF PopFails, Growing
<1> QED BY <1>1, <1>2, <1>3, <1>4, <1>5, <1>6, <1>7, <1>8, CalmStep DEF PopFails, pool

\* The test for expansion moves nothing.
LEMMA CheckExpansionBlocks ==
    ASSUME TInv, TInv', BInv, Quiet, NEW t \in Threads, CheckExpansion(t)
    PROVE  BInv'
<1> DEFINE r == th[t]
<1>1. r \in ThreadState /\ Hand(r) /\ Apart(r) /\ Replaces(t)
  BY DEF TInv, ThreadsOK, BInv
<1>2. PICK phase \in {"pop", "recheck"} : th' = [th EXCEPT ![t] = [th[t] EXCEPT !.at = phase]]
  BY <1>1 DEF CheckExpansion, ThreadState
<1> DEFINE s == [r EXCEPT !.at = phase]
<1>3. ckpt.at = "none" /\ ~Growing(r)
  BY NoCheckpoint DEF CheckExpansion, Growing
<1>4. OneThreadPerKey'
  BY <1>1, <1>2, SameKey DEF ThreadState
<1>5. s.old = r.old /\ s.key = r.key
  BY <1>1 DEF ThreadState
<1>6. InHand(s) \subseteq InHand(r) /\ Taken(s) \subseteq Taken(r) /\ Apart(s)
  BY <1>1 DEF InHand, Taken, Apart, ThreadState
<1>7. Replaces(t)'
  <2>1. th'[t] = s
    BY <1>2, Frame
  <2> QED BY <1>1, <2>1 DEF CheckExpansion, Replaces, Releases, ThreadState
<1> QED BY <1>1, <1>2, <1>3, <1>4, <1>5, <1>6, <1>7, CalmStep DEF CheckExpansion, pool

\* A skipped block is dropped from the hand.
LEMMA ReleaseSkipBlocks ==
    ASSUME TInv, TInv', BInv, Quiet, NEW t \in Threads, ReleaseSkip(t)
    PROVE  BInv'
<1> DEFINE r == th[t]
<1>1. r \in ThreadState /\ Hand(r) /\ Apart(r) /\ Replaces(t)
  BY DEF TInv, ThreadsOK, BInv
<1>2. PICK b \in r.rel \cap m_available : th' = [th EXCEPT ![t].rel = @ \ {b}]
  BY DEF ReleaseSkip
<1> DEFINE s == [r EXCEPT !.rel = @ \ {b}]
<1>3. ckpt.at = "none" /\ ~Growing(r)
  BY NoCheckpoint DEF ReleaseSkip, Growing
<1>4. th' = [th EXCEPT ![t] = s] /\ th'[t] = s
  BY <1>1, <1>2 DEF ThreadState, TInv, ThreadsOK
<1>5. s.old = r.old /\ s.key = r.key /\ OneThreadPerKey'
  BY <1>1, <1>4, SameKey DEF ThreadState
<1>6. InHand(s) \subseteq InHand(r) /\ Taken(s) \subseteq Taken(r) /\ Apart(s)
  BY <1>1 DEF InHand, Taken, Apart, ThreadState
<1>7. Replaces(t)'
  BY <1>1, <1>4 DEF ReleaseSkip, Replaces, Replaced, Releases, ThreadState
<1> QED BY <1>1, <1>3, <1>4, <1>5, <1>6, <1>7, CalmStep DEF ReleaseSkip, pool

\* A labelled block stays in the hand.
LEMMA ReleaseInsertBlocks ==
    ASSUME TInv, TInv', BInv, Quiet, NEW t \in Threads, ReleaseInsert(t)
    PROVE  BInv'
<1> DEFINE r == th[t]
<1>1. r \in ThreadState /\ Hand(r) /\ Apart(r) /\ Replaces(t)
  BY DEF TInv, ThreadsOK, BInv
<1>2. PICK b \in r.rel \ m_available :
         th' = [th EXCEPT ![t].at = "relpush", ![t].rel = @ \ {b}, ![t].cur = b]
  BY DEF ReleaseInsert
<1> DEFINE s == [r EXCEPT !.at = "relpush", !.rel = @ \ {b}, !.cur = b]
<1>3. ckpt.at = "none" /\ ~Growing(r)
  BY NoCheckpoint DEF ReleaseInsert, Growing
<1>4. th' = [th EXCEPT ![t] = s] /\ th'[t] = s
  BY <1>1, <1>2 DEF ThreadState, TInv, ThreadsOK
<1>5. s.old = r.old /\ s.key = r.key /\ OneThreadPerKey'
  BY <1>1, <1>4, SameKey DEF ThreadState
<1>6. InHand(s) \subseteq InHand(r) /\ Taken(s) \subseteq Taken(r) /\ Apart(s)
  BY <1>1 DEF ReleaseInsert, InHand, Taken, Apart, ThreadState
<1>7. Replaces(t)'
  <2>1. /\ s.at = "relpush" /\ s.key = r.key /\ s.old = r.old /\ s.kept = r.kept
        /\ s.kind = r.kind /\ s.ok = r.ok
    BY <1>1 DEF ThreadState
  <2>2. r.at = "release" /\ UNCHANGED m_pBlockMapping
    BY DEF ReleaseInsert
  <2> QED BY <1>1, <1>4, <2>1, <2>2 DEF Replaces, Replaced, Releases
<1> QED BY <1>1, <1>3, <1>4, <1>5, <1>6, <1>7, CalmStep DEF ReleaseInsert

\* Between the push and the label of a new block nothing moves.
LEMMA ExpandInsertBlocks ==
    ASSUME TInv, TInv', BInv, Quiet, NEW t \in Threads, ExpandInsert(t)
    PROVE  BInv'
<1> DEFINE r == th[t]
           s == [r EXCEPT !.at = "push", !.grown = @ + 1]
<1>1. r \in ThreadState /\ Hand(r) /\ Apart(r) /\ Replaces(t)
  BY DEF TInv, ThreadsOK, BInv
<1>2. th' = [th EXCEPT ![t] = s] /\ th'[t] = s
  BY <1>1 DEF ExpandInsert, ThreadState, TInv, ThreadsOK
<1>3. ckpt.at = "none"
  BY NoCheckpoint DEF ExpandInsert
<1>4. s.old = r.old /\ s.key = r.key /\ OneThreadPerKey'
  BY <1>1, <1>2, SameKey DEF ThreadState
<1>5. InHand(s) \subseteq InHand(r) /\ Taken(s) \subseteq Taken(r) /\ Apart(s)
  BY <1>1 DEF ExpandInsert, InHand, Taken, Apart, ThreadState
<1>6. Replaces(t)'
  BY <1>1, <1>2 DEF ExpandInsert, Replaces, Releases, ThreadState
<1>7. BlockUsedOnce' /\ KeptBlocks' /\ \A b \in Blocks : Nowhere(b) => Nowhere(b)'
  BY <1>1, <1>2, <1>4, <1>5, NoMove DEF ExpandInsert
<1>8. Beyond'
  <2>1. \A u \in Threads : u # t => ~Growing(th[u])
    BY DEF ExpandInsert, TInv, GrowthOK, Growing
  <2>2. s.at = "push" /\ s.grown = r.grown + 1 /\ r.at = "label"
    BY <1>1 DEF ExpandInsert, ThreadState
  <2>3. r.grown \in Nat /\ m_totalAllocatedBlocks \in Nat
    BY <1>1 DEF ThreadState, TInv, TypeOK
  <2>4. ASSUME NEW b \in Blocks, Fresh(b) PROVE Fresh(b)'
    <3>1. b <= m_totalAllocatedBlocks + r.grown
      BY <2>1, <2>2, <2>4 DEF Fresh, Growing
    <3>2. b < m_totalAllocatedBlocks' + th'[t].grown
      <4>1. th'[t].grown = r.grown + 1 /\ m_totalAllocatedBlocks' = m_totalAllocatedBlocks
        BY <1>2, <2>2 DEF ExpandInsert
      <4> QED BY <2>3, <3>1, <4>1 DEF Blocks
    <3> QED BY <1>2, <2>2, <3>2 DEF Fresh
  <2> QED BY <1>7, <2>4 DEF ExpandInsert, BInv, Beyond
<1>9. ListsOK' /\ \A u \in Threads : Apart(th[u])' /\ Replaces(u)'
  BY <1>2, <1>5, <1>6, RecordStep DEF ExpandInsert
<1>10. SavedFilesAgree' /\ CheckpointOK' /\ FilesOK'
  <2>1. m_totalAllocatedBlocks' >= m_totalAllocatedBlocks
    BY DEF ExpandInsert, TInv, TypeOK
  <2> QED BY <1>3, <2>1, FilesStep DEF ExpandInsert
<1>11. CheckpointIntact'
  BY DEF ExpandInsert, files, BInv, CheckpointIntact
<1> QED BY <1>4, <1>7, <1>8, <1>9, <1>10, <1>11 DEF BInv

\* The new blocks become part of the file.
LEMMA ExpandEndBlocks ==
    ASSUME TInv, TInv', BInv, Quiet, NEW t \in Threads, ExpandEnd(t)
    PROVE  BInv'
<1> DEFINE r == th[t]
           s == [r EXCEPT !.at = "pop", !.grow = 0, !.grown = 0]
<1>1. r \in ThreadState /\ Hand(r) /\ Apart(r) /\ Replaces(t)
  BY DEF TInv, ThreadsOK, BInv
<1>2. th' = [th EXCEPT ![t] = s] /\ th'[t] = s
  BY <1>1 DEF ExpandEnd, ThreadState, TInv, ThreadsOK
<1>3. ckpt.at = "none"
  BY NoCheckpoint DEF ExpandEnd
<1>4. s.old = r.old /\ s.key = r.key /\ OneThreadPerKey'
  BY <1>1, <1>2, SameKey DEF ThreadState
<1>5. InHand(s) \subseteq InHand(r) /\ Taken(s) \subseteq Taken(r) /\ Apart(s)
  BY <1>1 DEF ExpandEnd, InHand, Taken, Apart, ThreadState
<1>6. Replaces(t)'
  BY <1>1, <1>2 DEF ExpandEnd, Replaces, Releases, ThreadState
<1>7. BlockUsedOnce' /\ KeptBlocks' /\ \A b \in Blocks : Nowhere(b) => Nowhere(b)'
  BY <1>1, <1>2, <1>4, <1>5, NoMove DEF ExpandEnd, pool
<1>8. m_totalAllocatedBlocks' = m_totalAllocatedBlocks + r.grown /\ r.grown \in Nat
  BY <1>1 DEF ExpandEnd, ThreadState
<1>9. m_totalAllocatedBlocks \in Nat
  BY DEF TInv, TypeOK
<1>10. Beyond'
  <2>1. \A u \in Threads : u # t => ~Growing(th[u])
    BY DEF ExpandEnd, TInv, GrowthOK, Growing
  <2>2. ASSUME NEW b \in Blocks, b >= m_totalAllocatedBlocks' PROVE Nowhere(b)'
    <3>1. b >= m_totalAllocatedBlocks /\ ~(b < m_totalAllocatedBlocks + r.grown)
      BY <1>8, <1>9, <2>2 DEF Blocks
    <3>2. ~Fresh(b)
      BY <2>1, <3>1 DEF Fresh, Growing, ExpandEnd
    <3> QED BY <1>7, <3>1, <3>2 DEF BInv, Beyond
  <2> QED BY <2>2 DEF Beyond
<1>11. ListsOK' /\ \A u \in Threads : Apart(th[u])' /\ Replaces(u)'
  BY <1>2, <1>5, <1>6, RecordStep DEF ExpandEnd
<1>12. SavedFilesAgree' /\ CheckpointOK' /\ FilesOK'
  BY <1>3, <1>8, <1>9, FilesStep DEF ExpandEnd
<1>13. CheckpointIntact'
  BY DEF ExpandEnd, files, BInv, CheckpointIntact
<1> QED BY <1>4, <1>7, <1>10, <1>11, <1>12, <1>13 DEF BInv

\* Storing the size gives a list without blocks another mark.
LEMMA StoreSizeBlocks ==
    ASSUME TInv, TInv', BInv, Quiet, NEW t \in Threads, StoreSize(t)
    PROVE  BInv'
<1> DEFINE r == th[t]
           s == [r EXCEPT !.at = "write"]
<1>1. r \in ThreadState /\ Hand(r) /\ Apart(r) /\ Replaces(t) /\ r.at = "pop"
  BY DEF TInv, ThreadsOK, BInv, StoreSize
<1>2. th' = [th EXCEPT ![t] = s] /\ th'[t] = s
  BY <1>1 DEF StoreSize, ThreadState, TInv, ThreadsOK
<1>3. ckpt.at = "none" /\ ~Growing(r) /\ r.key \in Keys
  BY <1>1, NoCheckpoint DEF Growing, Hand, ThreadState
<1>4. /\ s.at = "write" /\ s.key = r.key /\ s.old = r.old /\ s.got = r.got /\ s.rel = r.rel
      /\ s.cur = r.cur /\ s.kept = r.kept /\ s.kind = r.kind /\ s.ok = r.ok
  BY <1>1 DEF ThreadState
<1>5. OneThreadPerKey'
  BY <1>2, <1>4, SameKey
<1>6. InHand(s) \subseteq InHand(r) /\ Taken(s) \subseteq Taken(r) /\ Apart(s)
  BY <1>1, <1>4 DEF InHand, Taken, Apart
<1>7. \A k \in Keys :
         /\ m_pBlockMapping'[k].full = m_pBlockMapping[k].full
         /\ m_pBlockMapping'[k].part = m_pBlockMapping[k].part
         /\ m_pBlockMapping'[k].st # "posting" => m_pBlockMapping[k].st # "posting"
  <2>1. m_pBlockMapping \in [Keys -> List]
    BY DEF TInv, TypeOK
  <2> QED BY <1>3, <2>1 DEF StoreSize, List
<1>8. \A k \in Keys : BlocksOf(m_pBlockMapping'[k]) = BlocksOf(m_pBlockMapping[k])
  BY <1>7 DEF BlocksOf
<1>9. UNCHANGED <<m_blockAddresses, m_blockAddresses_reserve, m_totalAllocatedBlocks, dirty,
                  files>>
  BY DEF StoreSize, pool
<1>10. BlockUsedOnce' /\ KeptBlocks' /\ \A b \in Blocks : Nowhere(b) => Nowhere(b)'
  BY <1>2, <1>4, <1>6, <1>8, <1>9, NoMove
<1>11. Beyond'
  BY <1>2, <1>3, <1>9, <1>10, BeyondStep
<1>12. ListsOK'
  BY <1>7, <1>8 DEF BInv, ListsOK
<1>13. \A u \in Threads : Apart(th[u])' /\ Replaces(u)'
  <2>1. ASSUME NEW u \in Threads, u # t PROVE Apart(th[u])' /\ Replaces(u)'
    <3>1. th'[u] = th[u] /\ Apart(th[u]) /\ Replaces(u) /\ Hand(th[u]) /\ th[u] \in ThreadState
      BY <1>2, <2>1, Frame DEF BInv, TInv, ThreadsOK
    <3>2. th[u].at # "idle" => th[u].key \in Keys
      BY <3>1 DEF Hand, ThreadState
    <3> QED BY <1>7, <1>8, <3>1, <3>2 DEF Apart, Replaces, Replaced
  <2>2. Replaces(t)'
    BY <1>1, <1>2, <1>3, <1>4, <1>7 DEF Replaces, Releases
  <2> QED BY <1>2, <1>6, <2>1, <2>2
<1>14. SavedFilesAgree' /\ CheckpointOK' /\ FilesOK'
  <2>1. m_totalAllocatedBlocks' >= m_totalAllocatedBlocks
    BY <1>9 DEF TInv, TypeOK
  <2> QED BY <1>3, <1>9, <2>1, FilesStep
<1>15. CheckpointIntact'
  BY <1>9 DEF files, BInv, CheckpointIntact
<1> QED BY <1>5, <1>10, <1>11, <1>12, <1>13, <1>14, <1>15 DEF BInv

\* A failed write reaches no page that a saved list names.
LEMMA WriteBlocksFailsBlocks ==
    ASSUME TInv, TInv', BInv, Quiet, NEW t \in Threads, WriteBlocksFails(t)
    PROVE  BInv'
<1> DEFINE r == th[t]
           s == [r EXCEPT !.at = "release", !.got = {}, !.rel = r.got, !.ok = FALSE]
<1>1. r \in ThreadState /\ Hand(r) /\ Apart(r) /\ Replaces(t)
  BY DEF TInv, ThreadsOK, BInv
<1>2. th' = [th EXCEPT ![t] = s] /\ th'[t] = s
  BY <1>1 DEF WriteBlocksFails, ThreadState, TInv, ThreadsOK
<1>3. ckpt.at = "none" /\ ~Growing(r)
  BY NoCheckpoint DEF WriteBlocksFails, MayWrite, Growing
<1>4. s.old = r.old /\ s.key = r.key /\ OneThreadPerKey'
  BY <1>1, <1>2, SameKey DEF ThreadState
<1>5. InHand(s) \subseteq InHand(r) /\ Taken(s) \subseteq Taken(r) /\ Apart(s)
  BY <1>1 DEF WriteBlocksFails, MayWrite, InHand, Taken, Apart, ThreadState, Hand, NoBlock, Blocks
<1>6. Replaces(t)'
  <2>1. ~s.ok
    BY <1>1 DEF ThreadState
  <2> QED BY <1>2, <2>1 DEF Replaces
<1>7. /\ \A k \in Keys : k # r.key => m_pBlockMapping'[k] = m_pBlockMapping[k]
      /\ \A k \in Keys : BlocksOf(m_pBlockMapping'[k]) = BlocksOf(m_pBlockMapping[k])
      /\ ListsOK'
  <2>1. m_pBlockMapping \in [Keys -> List] /\ ListsOK
    BY DEF TInv, TypeOK, BInv
  <2>2. /\ BrokenList.full = {} /\ BrokenList.part = {} /\ BlocksOf(BrokenList) = {}
    BY DEF BrokenList, NoList, BlocksOf
  <2>3. CASE m_pBlockMapping[r.key].st = "sized" /\ r.key \in Keys
    <3>1. m_pBlockMapping' = [m_pBlockMapping EXCEPT ![r.key] = BrokenList]
      BY <2>3 DEF WriteBlocksFails
    <3>2. BlocksOf(m_pBlockMapping[r.key]) = {}
      BY <2>1, <2>3 DEF ListsOK
    <3> QED BY <2>1, <2>2, <2>3, <3>1, <3>2 DEF ListsOK
  <2>4. CASE ~(m_pBlockMapping[r.key].st = "sized" /\ r.key \in Keys)
    <3>1. m_pBlockMapping' = m_pBlockMapping
      BY <2>1, <2>4 DEF WriteBlocksFails
    <3> QED BY <2>1, <3>1 DEF ListsOK
  <2> QED BY <2>3, <2>4
<1>8. BlockUsedOnce' /\ KeptBlocks' /\ \A b \in Blocks : Nowhere(b) => Nowhere(b)'
  BY <1>1, <1>2, <1>4, <1>5, <1>7, NoMove DEF WriteBlocksFails, pool
<1>9. Beyond'
  BY <1>2, <1>3, <1>8, BeyondStep DEF WriteBlocksFails
<1>10. \A u \in Threads : Apart(th[u])' /\ Replaces(u)'
  <2>1. ASSUME NEW u \in Threads, u # t PROVE Apart(th[u])' /\ Replaces(u)'
    <3>1. th'[u] = th[u] /\ Apart(th[u]) /\ Replaces(u) /\ Hand(th[u]) /\ th[u] \in ThreadState
      BY <1>2, <2>1, Frame DEF BInv, TInv, ThreadsOK
    <3>2. th[u].at # "idle" => th[u].key \in Keys /\ th[u].key # r.key
      BY <2>1, <3>1 DEF BInv, OneThreadPerKey, Hand, ThreadState
    <3>3. th[u].at # "idle" => m_pBlockMapping'[th[u].key] = m_pBlockMapping[th[u].key]
      BY <1>7, <3>2
    <3> QED BY <3>1, <3>3 DEF Apart, Replaces, Replaced
  <2> QED BY <1>2, <1>5, <1>6, <2>1
<1>11. SavedFilesAgree' /\ CheckpointOK' /\ FilesOK'
  <2>1. m_totalAllocatedBlocks' >= m_totalAllocatedBlocks
    BY DEF WriteBlocksFails, TInv, TypeOK
  <2> QED BY <1>3, <2>1, FilesStep DEF WriteBlocksFails
<1>12. CheckpointIntact'
  <2>1. ASSUME ckpt.mapping = "saved", NEW k \in Keys, NEW b \in BlocksOf(mappingFile[k])
        PROVE  b \notin dirty'
    <3>1. b \in Blocks
      BY DEF TInv, TypeOK, List, BlocksOf
    <3>2. b \notin r.got
      BY <1>3, <2>1, <3>1 DEF BInv, KeptBlocks, Kept, Taken
    <3>3. b \notin dirty
      BY <1>3, <2>1 DEF BInv, CheckpointIntact
    <3> QED BY <3>2, <3>3 DEF WriteBlocksFails, Named
  <2> QED BY <2>1 DEF WriteBlocksFails, files, CheckpointIntact
<1> QED BY <1>4, <1>7, <1>8, <1>9, <1>10, <1>11, <1>12 DEF BInv

-----------------------------------------------------------------------------
(***************************************************************************)
(* The steps that move blocks: from a posting to the thread that gives     *)
(* them back, between a thread and a queue, and from a thread to the       *)
(* posting it publishes.                                                   *)
(***************************************************************************)
\* An operation takes the blocks it replaces out of the list of its posting.
LEMMA TakeBack ==
    ASSUME TInv, TInv', BInv, Quiet, NEW t \in Threads, NEW s, th' = [th EXCEPT ![t] = s],
           UNCHANGED <<m_blockAddresses, m_blockAddresses_reserve, m_totalAllocatedBlocks,
                       m_pBlockMapping, files>>,
           ckpt.at = "none", ~Growing(th[t]),
           NEW k \in Keys, s.key = k, th[t].key = k \/ th[t].key = NoKey, th[t].old = {},
           \A u \in Threads : u # t => th[u].key # k,
           s.old \subseteq BlocksOf(m_pBlockMapping[k]),
           InHand(s) = InHand(th[t]) \cup s.old, Taken(s) \subseteq Taken(th[t])
    PROVE  BlockUsedOnce' /\ KeptBlocks' /\ Beyond'
<1>1. Live(k) = BlocksOf(m_pBlockMapping[k]) /\ BlocksOf(m_pBlockMapping[k]) \subseteq Blocks
  <2>1. \A u \in Threads : th[u].key = k => th[u].old = {}
    OBVIOUS
  <2> QED BY <2>1 DEF Live, BlocksOf, TInv, TypeOK, List
<1>2. Live(k)' = Live(k) \ s.old
  <2>1. \A u \in Threads : th'[u].key = k <=> u = t
    BY Frame
  <2>2. th'[t].old = s.old
    BY Frame
  <2>3. \A b : b \in Live(k)' <=> b \in BlocksOf(m_pBlockMapping[k]) /\ b \notin s.old
    BY <2>1, <2>2 DEF Live
  <2> QED BY <1>1, <2>3
<1>3. \A j \in Keys : j # k => Live(j)' = Live(j)
  <2> SUFFICES ASSUME NEW j \in Keys, j # k, NEW b,
                      NEW u \in Threads
               PROVE  (th'[u].key = j => b \notin th'[u].old)
                      <=> (th[u].key = j => b \notin th[u].old)
    BY DEF Live
  <2> QED BY Frame
<1>4. \A b \in Blocks : Queued(b)' = Queued(b)
  BY DEF Queued
<1>5. Held(t)' = Held(t) \cup s.old /\ \A u \in Threads : u # t => Held(u)' = Held(u)
  BY Frame DEF Held
<1>6. s.old \subseteq Live(k)
  BY <1>1
<1>7. BlockUsedOnce
  BY DEF BInv
<1>8. BlockUsedOnce'
  <2>1. \A b \in Blocks : Queued(b)' <= 1
    BY <1>4, <1>7 DEF BlockUsedOnce
  <2>2. ASSUME NEW b \in Blocks, Queued(b)' = 1
        PROVE  /\ \A u \in Threads : b \notin Held(u)'
               /\ \A j \in Keys : b \notin Live(j)'
    BY <1>2, <1>3, <1>4, <1>5, <1>6, <1>7, <2>2 DEF BlockUsedOnce
  <2>3. \A u, v \in Threads : u # v => Held(u)' \cap Held(v)' = {}
    BY <1>5, <1>6, <1>7 DEF BlockUsedOnce
  <2>4. \A u \in Threads : \A j \in Keys : Held(u)' \cap Live(j)' = {}
    BY <1>2, <1>3, <1>5, <1>6, <1>7 DEF BlockUsedOnce
  <2>5. \A i, j \in Keys : i # j => Live(i)' \cap Live(j)' = {}
    BY <1>2, <1>3, <1>7 DEF BlockUsedOnce
  <2> QED BY <2>1, <2>2, <2>3, <2>4, <2>5 DEF BlockUsedOnce
<1>9. KeptBlocks'
  <2>1. ASSUME NEW b \in Blocks, Kept(b)'
        PROVE  m_blockAddresses'[b] = 0 /\ \A u \in Threads : b \notin Taken(th'[u])
    <3>1. \A u \in Threads : Taken(th'[u]) \subseteq Taken(th[u])
      BY Frame
    <3>2. CASE Kept(b)
      BY <3>1, <3>2 DEF BInv, KeptBlocks
    <3>3. CASE ~Kept(b)
      <4>1. b \in s.old
        BY <2>1, <3>3, Frame DEF Kept, files
      <4>2. Queued(b) = 0 /\ \A u \in Threads : b \notin Held(u)
        <5>1. Queued(b) \in Nat
          BY DEF Queued, TInv, TypeOK
        <5> QED BY <1>6, <1>7, <4>1, <5>1 DEF BlockUsedOnce
      <4>3. m_blockAddresses[b] = 0
        BY <4>2 DEF Queued, TInv, TypeOK
      <4>4. \A u \in Threads : Taken(th[u]) \subseteq Held(u)
        BY DEF Taken, Held, InHand, TInv, ThreadsOK, Hand
      <4> QED BY <3>1, <4>2, <4>3, <4>4
    <3> QED BY <3>2, <3>3
  <2> QED BY <2>1 DEF KeptBlocks
<1>10. Beyond'
  <2>1. ASSUME NEW b \in Blocks, Nowhere(b) PROVE Nowhere(b)'
    <3>1. b \notin s.old
      BY <2>1 DEF Nowhere
    <3>2. \A u \in Threads : b \notin Held(u)' \cup th'[u].old
      BY <1>5, <2>1, <3>1, Frame DEF Nowhere
    <3> QED BY <1>4, <2>1, <3>2 DEF Nowhere
  <2> QED BY <2>1, BeyondStep
<1> QED BY <1>8, <1>9, <1>10

\* Delete takes all blocks of its posting back.
LEMMA DeleteBlocks ==
    ASSUME TInv, TInv', BInv, Quiet, NEW t \in Threads, NEW k \in Keys, Delete(t, k)
    PROVE  BInv'
<1> DEFINE r == th[t]
           s == [IdleThread EXCEPT !.at = "release", !.key = k, !.kind = "delete",
                                   !.old = BlocksOf(m_pBlockMapping[k]),
                                   !.rel = BlocksOf(m_pBlockMapping[k])]
<1>1. /\ r \in ThreadState /\ Hand(r) /\ Apart(r)
      /\ r.at = "idle" /\ r.key = NoKey /\ r.old = {}
      /\ \A u \in Threads : u # t => th[u].key # k
  BY DEF TInv, ThreadsOK, BInv, Delete, MayStart, Hand, Releases
<1>2. th' = [th EXCEPT ![t] = s] /\ th'[t] = s
  BY DEF Delete, TInv, ThreadsOK
<1>3. ckpt.at = "none" /\ ~Growing(r)
  BY <1>1, NoCheckpoint DEF Delete, Growing
<1>4. /\ s.at = "release" /\ s.key = k /\ s.kind = "delete" /\ s.got = {} /\ s.cur = NoBlock
      /\ s.old = BlocksOf(m_pBlockMapping[k]) /\ s.rel = BlocksOf(m_pBlockMapping[k])
  BY DEF IdleThread
<1>5. BlocksOf(m_pBlockMapping[k]) \subseteq Blocks
  BY DEF BlocksOf, TInv, TypeOK, List
<1>6. OneThreadPerKey'
  BY <1>1, <1>2, <1>4, Frame DEF BInv, OneThreadPerKey
<1>7. BlockUsedOnce' /\ KeptBlocks' /\ Beyond'
  <2>1. InHand(r) = {}
    BY <1>1 DEF InHand, Hand, Releases
  <2>2. InHand(s) = InHand(r) \cup s.old /\ Taken(s) \subseteq Taken(r)
    BY <1>4, <2>1 DEF InHand, Taken
  <2>3. UNCHANGED <<m_blockAddresses, m_blockAddresses_reserve, m_totalAllocatedBlocks,
                    m_pBlockMapping, files>>
    BY DEF Delete, pool
  <2>4. s.old \subseteq BlocksOf(m_pBlockMapping[k]) /\ s.key = k /\ (r.key = k \/ r.key = NoKey)
    BY <1>1, <1>4
  <2>5. r.old = {} /\ \A u \in Threads : u # t => th[u].key # k
    BY <1>1
  <2> HIDE DEF s
  <2> QED BY <1>2, <1>3, <2>2, <2>3, <2>4, <2>5, TakeBack, ZenonT(60)
<1>8. ListsOK' /\ \A u \in Threads : Apart(th[u])' /\ Replaces(u)'
  <2>1. Apart(s)
    BY <1>4, <1>5 DEF Apart, NoBlock, Blocks
  <2>2. Replaces(t)'
    BY <1>2, <1>4 DEF Delete, Replaces, Replaced
  <2> QED BY <1>2, <2>1, <2>2, RecordStep DEF Delete
<1>9. SavedFilesAgree' /\ CheckpointOK' /\ FilesOK'
  <2>1. m_totalAllocatedBlocks' >= m_totalAllocatedBlocks
    BY DEF Delete, TInv, TypeOK
  <2> QED BY <1>3, <2>1, FilesStep DEF Delete
<1>10. CheckpointIntact'
  BY DEF Delete, files, BInv, CheckpointIntact
<1> QED BY <1>6, <1>7, <1>8, <1>9, <1>10 DEF BInv

\* The pages of the saved mapping are not among the ones that are written.
LEMMA WriteBlocksBlocks ==
    ASSUME TInv, TInv', BInv, Quiet, NEW t \in Threads, WriteBlocks(t)
    PROVE  BInv'
<1> DEFINE r == th[t]
           k == r.key
           s == [r EXCEPT !.at = "release", !.old = Replaced(t), !.rel = Replaced(t)]
<1>1. /\ r \in ThreadState /\ Hand(r) /\ Apart(r) /\ Replaces(t)
      /\ r.at \in {"pop", "write"}
  BY DEF TInv, ThreadsOK, BInv, WriteBlocks, MayWrite
<1>2. th' = [th EXCEPT ![t] = s] /\ th'[t] = s
  BY <1>1 DEF WriteBlocks, ThreadState, TInv, ThreadsOK
<1>3. ckpt.at = "none" /\ ~Growing(r)
  BY <1>1, NoCheckpoint DEF Growing
<1>4. /\ s.at = "release" /\ s.key = k /\ s.kind = r.kind /\ s.got = r.got /\ s.cur = r.cur
      /\ s.kept = r.kept /\ s.ok = r.ok /\ s.old = Replaced(t) /\ s.rel = Replaced(t)
  BY <1>1 DEF ThreadState
<1>5. /\ k \in Keys /\ r.old = {} /\ r.rel = {} /\ r.cur = NoBlock /\ r.kind # "delete"
      /\ \A u \in Threads : u # t => th[u].key # k
  BY <1>1 DEF Hand, Releases, ThreadState, BInv, OneThreadPerKey
<1>6. Replaced(t) \subseteq BlocksOf(m_pBlockMapping[k])
  BY DEF Replaced, BlocksOf
<1>7. BlocksOf(m_pBlockMapping[k]) \subseteq Blocks
  BY <1>5 DEF BlocksOf, TInv, TypeOK, List
<1>8. OneThreadPerKey'
  BY <1>2, <1>4, SameKey
<1>9. BlockUsedOnce' /\ KeptBlocks' /\ Beyond'
  <2>1. InHand(s) = InHand(r) \cup s.old /\ Taken(s) \subseteq Taken(r)
    BY <1>4, <1>5 DEF InHand, Taken
  <2>2. UNCHANGED <<m_blockAddresses, m_blockAddresses_reserve, m_totalAllocatedBlocks,
                    m_pBlockMapping, files>>
    BY DEF WriteBlocks, pool
  <2>3. s.old \subseteq BlocksOf(m_pBlockMapping[k]) /\ s.key = k /\ (r.key = k \/ r.key = NoKey)
    BY <1>4, <1>6
  <2> HIDE DEF s
  <2> QED BY <1>2, <1>3, <1>5, <2>1, <2>2, <2>3, TakeBack, ZenonT(60)
<1>10. ListsOK' /\ \A u \in Threads : Apart(th[u])' /\ Replaces(u)'
  <2>1. Apart(s)
    <3>1. r.got \cap BlocksOf(m_pBlockMapping[k]) = {}
      <4>1. Live(k) = BlocksOf(m_pBlockMapping[k])
        BY <1>5 DEF Live
      <4>2. r.got \subseteq Held(t)
        BY DEF Held, InHand
      <4> QED BY <1>5, <4>1, <4>2 DEF BInv, BlockUsedOnce
    <3>2. NoBlock \notin r.got \cup Replaced(t)
      BY <1>1, <1>6, <1>7 DEF ThreadState, NoBlock, Blocks
    <3> QED BY <1>4, <1>5, <1>6, <3>1, <3>2 DEF Apart
  <2>2. Replaces(t)'
    <3>1. m_pBlockMapping' = m_pBlockMapping
      BY DEF WriteBlocks
    <3>2. Replaced(t)' = Replaced(t)
      BY <1>2, <1>4, <3>1 DEF Replaced
    <3> QED BY <1>1, <1>2, <1>4, <3>1, <3>2 DEF Replaces
  <2> QED BY <1>2, <2>1, <2>2, RecordStep DEF WriteBlocks
<1>11. SavedFilesAgree' /\ CheckpointOK' /\ FilesOK'
  <2>1. m_totalAllocatedBlocks' >= m_totalAllocatedBlocks
    BY DEF WriteBlocks, TInv, TypeOK
  <2> QED BY <1>3, <2>1, FilesStep DEF WriteBlocks
<1>12. CheckpointIntact'
  <2>1. ASSUME ckpt.mapping = "saved", NEW j \in Keys, NEW b \in BlocksOf(mappingFile[j])
        PROVE  b \notin dirty'
    <3>1. b \in Blocks
      BY DEF TInv, TypeOK, List, BlocksOf
    <3>2. b \notin r.got
      BY <1>3, <2>1, <3>1 DEF BInv, KeptBlocks, Kept, Taken
    <3>3. b \notin dirty
      BY <1>3, <2>1 DEF BInv, CheckpointIntact
    <3> QED BY <3>2, <3>3 DEF WriteBlocks, Named
  <2> QED BY <2>1 DEF WriteBlocks, files, CheckpointIntact
<1> QED BY <1>8, <1>9, <1>10, <1>11, <1>12 DEF BInv

\* A new block comes from nowhere: no saved list and no thread can know it.
LEMMA ExpandPushBlocks ==
    ASSUME TInv, TInv', BInv, Quiet, NEW t \in Threads, ExpandPush(t)
    PROVE  BInv'
<1> DEFINE r == th[t]
           s == [r EXCEPT !.at = "label"]
<1>1. r \in ThreadState /\ Hand(r) /\ Apart(r) /\ Replaces(t) /\ r.at = "push"
  BY DEF TInv, ThreadsOK, BInv, ExpandPush
<1>2. th' = [th EXCEPT ![t] = s] /\ th'[t] = s
  BY <1>1 DEF ExpandPush, ThreadState, TInv, ThreadsOK
<1>3. ckpt.at = "none"
  BY <1>1, NoCheckpoint
<1>4. /\ s.at = "label" /\ s.key = r.key /\ s.old = r.old /\ s.got = r.got /\ s.rel = r.rel
      /\ s.cur = r.cur /\ s.kept = r.kept /\ s.kind = r.kind /\ s.ok = r.ok
      /\ s.grown = r.grown
  BY <1>1 DEF ThreadState
<1>5. OneThreadPerKey'
  BY <1>2, <1>4, SameKey
<1>6. r.grown \in Nat /\ r.grow \in Nat /\ m_totalAllocatedBlocks \in Nat
  BY <1>1 DEF ThreadState, TInv, TypeOK
<1>7. PICK n \in Blocks : n = m_totalAllocatedBlocks + r.grown
  <2>1. m_totalAllocatedBlocks + r.grow <= MaxBlocks /\ r.grown < r.grow
    BY <1>1 DEF ExpandPush, TInv, GrowthOK, Growing
  <2> QED BY <1>6, <2>1, SizesAssumption DEF Blocks
<1>8. \A u \in Threads : u # t => ~Growing(th[u])
  BY <1>1 DEF TInv, GrowthOK, Growing
<1>9. Nowhere(n)
  <2>1. ~(n < m_totalAllocatedBlocks + r.grown) /\ n >= m_totalAllocatedBlocks
    BY <1>6, <1>7
  <2>2. ~Fresh(n)
    BY <1>1, <1>8, <2>1 DEF Fresh, Growing
  <2> QED BY <1>7, <2>1, <2>2 DEF BInv, Beyond
<1>10. \A k \in Keys : Live(k)' = Live(k)
  BY <1>2, <1>4, LiveSame DEF ExpandPush
<1>11. \A u \in Threads : Held(u)' = Held(u) /\ th'[u].old = th[u].old
                          /\ Taken(th'[u]) = Taken(th[u])
  <2>1. InHand(s) = InHand(r) /\ Taken(s) = Taken(r)
    BY <1>1, <1>4 DEF InHand, Taken
  <2> QED BY <1>2, <1>4, <2>1, Frame DEF Held
<1>12. /\ \A b \in Blocks : b # n => Queued(b)' = Queued(b) /\ m_blockAddresses'[b] = m_blockAddresses[b]
       /\ Queued(n)' = 1
  <2>1. m_blockAddresses \in [Blocks -> Nat] /\ m_blockAddresses_reserve \in [Blocks -> Nat]
    BY DEF TInv, TypeOK
  <2>2. Queued(n) = 0
    BY <1>9 DEF Nowhere
  <2> QED BY <1>7, <2>1, <2>2 DEF ExpandPush, Queued
<1>13. BlockUsedOnce'
  <2>1. BlockUsedOnce
    BY DEF BInv
  <2>2. (\A u \in Threads : n \notin Held(u)) /\ (\A k \in Keys : n \notin Live(k))
    BY <1>9 DEF Nowhere, Live
  <2> QED BY <1>7, <1>10, <1>11, <1>12, <2>1, <2>2 DEF BlockUsedOnce
<1>14. KeptBlocks'
  <2>1. ASSUME NEW b \in Blocks, Kept(b)' PROVE Kept(b)
    BY <1>11, <2>1 DEF Kept, ExpandPush, files
  <2>2. ~Kept(n)
    <3>1. \A u \in Threads : n \notin th[u].old
      BY <1>9 DEF Nowhere
    <3>2. ASSUME ckpt.mapping = "saved", NEW k \in Keys, n \in BlocksOf(mappingFile[k])
          PROVE  FALSE
      <4>1. n < m_totalAllocatedBlocks
        BY <1>3, <3>2 DEF BInv, FilesOK
      <4> QED BY <1>6, <1>7, <4>1
    <3> QED BY <3>1, <3>2 DEF Kept
  <2> QED BY <1>11, <1>12, <2>1, <2>2 DEF BInv, KeptBlocks
<1>15. Beyond'
  <2>1. ASSUME NEW b \in Blocks, Fresh(b) PROVE Fresh(b)'
    <3>1. b < m_totalAllocatedBlocks + r.grown
      BY <1>1, <1>8, <2>1 DEF Fresh, Growing
    <3>2. b <= m_totalAllocatedBlocks' + th'[t].grown
      <4>1. th'[t].grown = r.grown /\ m_totalAllocatedBlocks' = m_totalAllocatedBlocks
        BY <1>2, <1>4 DEF ExpandPush
      <4> QED BY <1>6, <3>1, <4>1 DEF Blocks
    <3> QED BY <1>2, <1>4, <3>2 DEF Fresh
  <2>2. Fresh(n)'
    <3>1. th'[t].at = "label"
      BY <1>2, <1>4
    <3>2. n <= m_totalAllocatedBlocks' + th'[t].grown
      <4>1. th'[t].grown = r.grown /\ m_totalAllocatedBlocks' = m_totalAllocatedBlocks
        BY <1>2, <1>4 DEF ExpandPush
      <4> QED BY <1>6, <1>7, <4>1
    <3> QED BY <3>1, <3>2 DEF Fresh
  <2>3. ASSUME NEW b \in Blocks, Nowhere(b), b # n PROVE Nowhere(b)'
    BY <1>11, <1>12, <2>3 DEF Nowhere, ExpandPush
  <2> QED BY <2>1, <2>2, <2>3 DEF BInv, Beyond, ExpandPush
<1>16. ListsOK' /\ \A u \in Threads : Apart(th[u])' /\ Replaces(u)'
  <2>1. Apart(s)
    BY <1>1, <1>4 DEF Apart
  <2>2. Replaces(t)'
    BY <1>1, <1>2, <1>4 DEF ExpandPush, Replaces, Releases
  <2> QED BY <1>2, <2>1, <2>2, RecordStep DEF ExpandPush
<1>17. SavedFilesAgree' /\ CheckpointOK' /\ FilesOK'
  <2>1. m_totalAllocatedBlocks' >= m_totalAllocatedBlocks
    BY <1>6 DEF ExpandPush
  <2> QED BY <1>3, <2>1, FilesStep DEF ExpandPush
<1>18. CheckpointIntact'
  BY DEF ExpandPush, files, BInv, CheckpointIntact
<1> QED BY <1>5, <1>13, <1>14, <1>15, <1>16, <1>17, <1>18 DEF BInv

\* A popped block was queued once, so that nobody else has it.
LEMMA PopBlocks ==
    ASSUME TInv, TInv', BInv, Quiet, NEW t \in Threads, Pop(t)
    PROVE  BInv'
<1> DEFINE r == th[t]
<1>1. r \in ThreadState /\ Hand(r) /\ Apart(r) /\ Replaces(t) /\ r.at = "pop"
  BY DEF TInv, ThreadsOK, BInv, Pop
<1>2. PICK n \in Blocks :
         /\ m_blockAddresses[n] > 0
         /\ m_blockAddresses' = [m_blockAddresses EXCEPT ![n] = @ - 1]
         /\ th' = [th EXCEPT ![t].at = "reset", ![t].cur = n]
  BY DEF Pop
<1> DEFINE s == [r EXCEPT !.at = "reset", !.cur = n]
<1>3. th' = [th EXCEPT ![t] = s] /\ th'[t] = s
  BY <1>1, <1>2 DEF ThreadState, TInv, ThreadsOK
<1>4. ckpt.at = "none" /\ ~Growing(r)
  BY <1>1, NoCheckpoint DEF Growing
<1>5. /\ s.at = "reset" /\ s.key = r.key /\ s.old = r.old /\ s.got = r.got /\ s.rel = r.rel
      /\ s.cur = n /\ s.kept = r.kept /\ s.kind = r.kind /\ s.ok = r.ok
  BY <1>1 DEF ThreadState
<1>6. OneThreadPerKey'
  BY <1>3, <1>5, SameKey
<1>7. \A k \in Keys : Live(k)' = Live(k)
  BY <1>3, <1>5, LiveSame DEF Pop
<1>8. m_blockAddresses \in [Blocks -> Nat] /\ m_blockAddresses_reserve \in [Blocks -> Nat]
  BY DEF TInv, TypeOK
<1>9. Queued(n) = 1 /\ Queued(n)' = 0
  <2>1. Queued(n) <= 1
    BY DEF BInv, BlockUsedOnce
  <2>2. m_blockAddresses[n] \in Nat /\ m_blockAddresses_reserve[n] \in Nat
    BY <1>8
  <2>3. m_blockAddresses'[n] = m_blockAddresses[n] - 1 /\ m_blockAddresses_reserve'[n] = m_blockAddresses_reserve[n]
    BY <1>2, <1>8 DEF Pop
  <2> QED BY <1>2, <2>1, <2>2, <2>3 DEF Queued
<1>10. \A b \in Blocks : b # n => Queued(b)' = Queued(b) /\ m_blockAddresses'[b] = m_blockAddresses[b]
  BY <1>2, <1>8 DEF Pop, Queued
<1>11. (\A u \in Threads : n \notin Held(u)) /\ (\A k \in Keys : n \notin Live(k))
  BY <1>9 DEF BInv, BlockUsedOnce
<1>12. /\ Held(t)' = Held(t) \cup {n}
       /\ \A u \in Threads : u # t => Held(u)' = Held(u)
  <2>1. r.cur = NoBlock /\ n # NoBlock
    BY <1>1 DEF Hand, Blocks, NoBlock
  <2>2. InHand(s) = InHand(r) \cup {n}
    BY <1>5, <2>1 DEF InHand
  <2> QED BY <1>3, <2>2, Frame DEF Held
<1>13. BlockUsedOnce'
  <2>1. BlockUsedOnce
    BY DEF BInv
  <2>2. \A b \in Blocks : Queued(b)' <= 1
    BY <1>9, <1>10, <2>1 DEF BlockUsedOnce
  <2>3. ASSUME NEW b \in Blocks, Queued(b)' = 1
        PROVE  (\A u \in Threads : b \notin Held(u)') /\ (\A k \in Keys : b \notin Live(k)')
    <3>1. b # n /\ Queued(b) = 1
      BY <1>9, <1>10, <2>3
    <3> QED BY <1>7, <1>12, <2>1, <3>1 DEF BlockUsedOnce
  <2>4. \A u, v \in Threads : u # v => Held(u)' \cap Held(v)' = {}
    BY <1>11, <1>12, <2>1 DEF BlockUsedOnce
  <2>5. \A u \in Threads : \A k \in Keys : Held(u)' \cap Live(k)' = {}
    BY <1>7, <1>11, <1>12, <2>1 DEF BlockUsedOnce
  <2>6. \A j, k \in Keys : j # k => Live(j)' \cap Live(k)' = {}
    BY <1>7, <2>1 DEF BlockUsedOnce
  <2> QED BY <2>2, <2>3, <2>4, <2>5, <2>6 DEF BlockUsedOnce
<1>14. KeptBlocks'
  <2>1. \A u \in Threads : th'[u].old = th[u].old
    BY <1>3, <1>5, Frame
  <2>2. ASSUME NEW b \in Blocks, Kept(b)' PROVE Kept(b)
    BY <2>1, <2>2 DEF Kept, Pop, files
  <2>3. ~Kept(n)
    BY <1>2 DEF BInv, KeptBlocks
  <2>4. Taken(s) = Taken(r) \cup {n}
    BY <1>1, <1>5 DEF Taken
  <2>5. \A u \in Threads : Taken(th'[u]) \subseteq Taken(th[u]) \cup {n}
    BY <1>3, <2>4, Frame
  <2> QED BY <1>10, <2>2, <2>3, <2>5 DEF BInv, KeptBlocks
<1>15. Beyond'
  <2>1. ASSUME NEW b \in Blocks, Nowhere(b) PROVE Nowhere(b)'
    <3>1. b # n
      BY <1>9, <2>1 DEF Nowhere
    <3>2. \A u \in Threads : b \notin Held(u)' \cup th'[u].old
      BY <1>3, <1>5, <1>12, <2>1, <3>1, Frame DEF Nowhere
    <3> QED BY <1>10, <2>1, <3>1, <3>2 DEF Nowhere, Pop
  <2> QED BY <1>3, <1>4, <2>1, BeyondStep DEF Pop
<1>16. ListsOK' /\ \A u \in Threads : Apart(th[u])' /\ Replaces(u)'
  <2>1. Apart(s)
    BY <1>1, <1>5, <1>11 DEF Apart, Held, InHand
  <2>2. Replaces(t)'
    <3>1. m_pBlockMapping' = m_pBlockMapping
      BY DEF Pop
    <3> QED BY <1>1, <1>3, <1>5, <3>1 DEF Replaces, Releases
  <2> QED BY <1>3, <2>1, <2>2, RecordStep DEF Pop
<1>17. SavedFilesAgree' /\ CheckpointOK' /\ FilesOK'
  <2>1. m_totalAllocatedBlocks' >= m_totalAllocatedBlocks
    BY DEF Pop, TInv, TypeOK
  <2> QED BY <1>4, <2>1, FilesStep DEF Pop
<1>18. CheckpointIntact'
  BY DEF Pop, files, BInv, CheckpointIntact
<1> QED BY <1>6, <1>13, <1>14, <1>15, <1>16, <1>17, <1>18 DEF BInv

\* A released block goes to the reserve, where no allocation finds it.
LEMMA ReleasePushBlocks ==
    ASSUME TInv, TInv', BInv, Quiet, NEW t \in Threads, ReleasePush(t)
    PROVE  BInv'
<1> DEFINE r == th[t]
           s == [r EXCEPT !.at = "release", !.cur = NoBlock]
<1>1. r \in ThreadState /\ Hand(r) /\ Apart(r) /\ Replaces(t) /\ r.at = "relpush"
  BY DEF TInv, ThreadsOK, BInv, ReleasePush
<1>2. th' = [th EXCEPT ![t] = s] /\ th'[t] = s
  BY <1>1 DEF ReleasePush, ThreadState, TInv, ThreadsOK
<1>3. ckpt.at = "none" /\ ~Growing(r)
  BY <1>1, NoCheckpoint DEF Growing
<1>4. /\ s.at = "release" /\ s.key = r.key /\ s.old = r.old /\ s.got = r.got /\ s.rel = r.rel
      /\ s.cur = NoBlock /\ s.kept = r.kept /\ s.kind = r.kind /\ s.ok = r.ok
  BY <1>1 DEF ThreadState
<1>5. PICK n \in Blocks : n = r.cur /\ n # NoBlock /\ n \in Held(t)
  BY <1>1 DEF Hand, ThreadState, Held, InHand
<1>6. OneThreadPerKey'
  BY <1>2, <1>4, SameKey
<1>7. \A k \in Keys : Live(k)' = Live(k)
  BY <1>2, <1>4, LiveSame DEF ReleasePush
<1>8. m_blockAddresses \in [Blocks -> Nat] /\ m_blockAddresses_reserve \in [Blocks -> Nat]
  BY DEF TInv, TypeOK
<1>9. /\ m_blockAddresses' = m_blockAddresses
      /\ m_blockAddresses_reserve' = [m_blockAddresses_reserve EXCEPT ![n] = @ + 1]
  BY <1>5 DEF ReleasePush, Quiet
<1>10. Queued(n)' = 1 /\ \A b \in Blocks : b # n => Queued(b)' = Queued(b)
  <2>1. Queued(n) = 0
    <3>1. Queued(n) \in Nat /\ Queued(n) <= 1 /\ Queued(n) # 1
      BY <1>5, <1>8 DEF BInv, BlockUsedOnce, Queued
    <3> QED BY <3>1
  <2> QED BY <1>5, <1>8, <1>9, <2>1 DEF Queued
<1>11. /\ Held(t)' = Held(t) \ {n}
       /\ \A u \in Threads : u # t => Held(u)' = Held(u)
  <2>1. InHand(s) = InHand(r) \ {n}
    BY <1>1, <1>4, <1>5 DEF InHand, Apart
  <2> QED BY <1>2, <2>1, Frame DEF Held
<1>12. BlockUsedOnce'
  <2>1. BlockUsedOnce
    BY DEF BInv
  <2>2. \A b \in Blocks : Queued(b)' <= 1
    BY <1>10, <2>1 DEF BlockUsedOnce
  <2>3. (\A u \in Threads : n \notin Held(u)') /\ (\A k \in Keys : n \notin Live(k)')
    BY <1>5, <1>7, <1>11, <2>1 DEF BlockUsedOnce
  <2>4. ASSUME NEW b \in Blocks, Queued(b)' = 1
        PROVE  (\A u \in Threads : b \notin Held(u)') /\ (\A k \in Keys : b \notin Live(k)')
    BY <1>7, <1>10, <1>11, <2>1, <2>3, <2>4 DEF BlockUsedOnce
  <2>5. /\ \A u, v \in Threads : u # v => Held(u)' \cap Held(v)' = {}
        /\ \A u \in Threads : \A k \in Keys : Held(u)' \cap Live(k)' = {}
        /\ \A j, k \in Keys : j # k => Live(j)' \cap Live(k)' = {}
    BY <1>7, <1>11, <2>1 DEF BlockUsedOnce
  <2> QED BY <2>2, <2>4, <2>5 DEF BlockUsedOnce
<1>13. KeptBlocks'
  <2>1. \A u \in Threads : th'[u].old = th[u].old
    BY <1>2, <1>4, Frame
  <2>2. ASSUME NEW b \in Blocks, Kept(b)' PROVE Kept(b)
    BY <2>1, <2>2 DEF Kept, ReleasePush, files
  <2>3. Taken(s) = Taken(r)
    BY <1>1, <1>4 DEF Taken
  <2>4. \A u \in Threads : Taken(th'[u]) = Taken(th[u])
    BY <1>2, <2>3, Frame
  <2> QED BY <1>9, <2>2, <2>4 DEF BInv, KeptBlocks
<1>14. Beyond'
  <2>1. ASSUME NEW b \in Blocks, Nowhere(b) PROVE Nowhere(b)'
    <3>1. b # n
      BY <1>5, <2>1 DEF Nowhere
    <3>2. \A u \in Threads : b \notin Held(u)' \cup th'[u].old
      BY <1>2, <1>4, <1>11, <2>1, Frame DEF Nowhere
    <3> QED BY <1>10, <2>1, <3>1, <3>2 DEF Nowhere, ReleasePush
  <2> QED BY <1>2, <1>3, <2>1, BeyondStep DEF ReleasePush
<1>15. ListsOK' /\ \A u \in Threads : Apart(th[u])' /\ Replaces(u)'
  <2>1. Apart(s)
    BY <1>1, <1>4 DEF Apart, ThreadState, NoBlock, Blocks
  <2>2. Replaces(t)'
    <3>1. m_pBlockMapping' = m_pBlockMapping
      BY DEF ReleasePush
    <3> QED BY <1>1, <1>2, <1>4, <3>1 DEF Replaces, Replaced, Releases
  <2> QED BY <1>2, <2>1, <2>2, RecordStep DEF ReleasePush
<1>16. SavedFilesAgree' /\ CheckpointOK' /\ FilesOK'
  <2>1. m_totalAllocatedBlocks' >= m_totalAllocatedBlocks
    BY DEF ReleasePush, TInv, TypeOK
  <2> QED BY <1>3, <2>1, FilesStep DEF ReleasePush
<1>17. CheckpointIntact'
  BY DEF ReleasePush, files, BInv, CheckpointIntact
<1> QED BY <1>6, <1>12, <1>13, <1>14, <1>15, <1>16, <1>17 DEF BInv

\* The new list takes over what the operation kept and what it got.
LEMMA PublishBlocks ==
    ASSUME TInv, TInv', BInv, Quiet, NEW t \in Threads, Publish(t)
    PROVE  /\ BInv'
           /\ \A b \in Held(t) : \E k \in Keys : b \in Live(k)'
           /\ \A k \in Keys : Live(k) \subseteq Live(k)'
<1> DEFINE r == th[t]
           s == IdleThread
<1>1. /\ r \in ThreadState /\ Hand(r) /\ Apart(r) /\ Replaces(t)
      /\ r.at = "release" /\ r.rel = {} /\ r.cur = NoBlock
  BY DEF TInv, ThreadsOK, BInv, Publish, Hand
<1>2. th' = [th EXCEPT ![t] = s] /\ th'[t] = s
  BY DEF Publish, TInv, ThreadsOK
<1>3. ckpt.at = "none" /\ ~Growing(r)
  BY <1>1, NoCheckpoint DEF Growing
<1>4. /\ s.at = "idle" /\ s.key = NoKey /\ s.old = {} /\ s.got = {} /\ s.rel = {}
      /\ s.cur = NoBlock /\ InHand(s) = {} /\ Taken(s) = {} /\ Apart(s)
  BY DEF IdleThread, InHand, Taken, Apart
<1>5. OneThreadPerKey'
  BY <1>2, <1>4, SameKey
<1>6. UNCHANGED <<m_blockAddresses, m_blockAddresses_reserve, m_totalAllocatedBlocks,
                  dirty, files>>
  BY DEF Publish, pool
<1>7. CASE ~r.ok
  <2>1. r.old = {}
    BY <1>1, <1>7 DEF Hand
  <2>2. UNCHANGED m_pBlockMapping
    BY <1>7 DEF Publish
  <2>3. Replaces(t)'
    BY <1>2, <1>4 DEF Replaces
  <2>4. BInv'
    BY <1>2, <1>3, <1>4, <1>5, <1>6, <2>1, <2>2, <2>3, CalmStep
  <2>5. Held(t) = {}
    BY <1>1, <1>7 DEF Held, InHand, Hand
  <2>6. \A k \in Keys : Live(k)' = Live(k)
    BY <1>2, <1>4, <2>1, <2>2, LiveSame
  <2> QED BY <2>4, <2>5, <2>6
<1>8. CASE r.ok
  <2> DEFINE k == r.key
  <2>1. k \in Keys /\ \A u \in Threads : u # t => th[u].key # k
    BY <1>1 DEF Hand, ThreadState, BInv, OneThreadPerKey
  <2>2. r.old = Replaced(t) /\ (r.kind = "merge" => r.kept = m_pBlockMapping[k].full)
    BY <1>1, <1>8 DEF Replaces, Releases
  <2>3. Live(k) = r.kept /\ r.kept \subseteq BlocksOf(m_pBlockMapping[k])
    <3>1. Live(k) = BlocksOf(m_pBlockMapping[k]) \ r.old
      BY <2>1 DEF Live
    <3>2. CASE r.kind = "merge"
      BY <2>1, <2>2, <3>1, <3>2 DEF Replaced, BlocksOf, BInv, ListsOK
    <3>3. CASE r.kind # "merge"
      BY <1>1, <2>2, <3>1, <3>3 DEF Replaced, Hand
    <3> QED BY <3>2, <3>3
  <2>4. Held(t) = r.got /\ r.got \cap r.kept = {}
    <3>1. Held(t) = r.got
      BY <1>1 DEF Held, InHand
    <3> QED BY <2>1, <2>3, <3>1 DEF BInv, BlockUsedOnce
  <2>5. PICK list :
           /\ list \in IF r.kind = "delete" THEN {NoList} ELSE Lists(r.kept, r.got, r.partial)
           /\ m_pBlockMapping' = [m_pBlockMapping EXCEPT ![k] = list]
    BY <1>8 DEF Publish
  <2>6. /\ BlocksOf(list) = r.kept \cup r.got
        /\ list.full \cap list.part = {}
        /\ list.st # "posting" => BlocksOf(list) = {}
    <3>1. CASE r.kind = "delete"
      <4>1. list = NoList /\ r.kept = {} /\ r.got = {}
        BY <1>1, <2>5, <3>1 DEF Hand
      <4> QED BY <4>1 DEF NoList, BlocksOf
    <3>2. CASE r.kind # "delete" /\ r.partial
      <4>1. PICK b \in r.got : list = [st |-> "posting", full |-> r.kept \cup (r.got \ {b}),
                                       part |-> {b}]
        BY <2>5, <3>2 DEF Lists
      <4> QED BY <2>4, <4>1 DEF BlocksOf
    <3>3. CASE r.kind # "delete" /\ ~r.partial
      <4>1. list = [st |-> "posting", full |-> r.kept \cup r.got, part |-> {}]
        BY <2>5, <3>3 DEF Lists
      <4> QED BY <4>1 DEF BlocksOf
    <3> QED BY <3>1, <3>2, <3>3
  <2>7. /\ m_pBlockMapping'[k] = list
        /\ \A j \in Keys : j # k => m_pBlockMapping'[j] = m_pBlockMapping[j]
    BY <2>1, <2>5 DEF TInv, TypeOK
  <2>8. \A u \in Threads : u # t => th'[u] = th[u] /\ Held(u)' = Held(u)
    BY <1>2, Frame
  <2>9. Held(t)' = {}
    BY <1>2, <1>4, Frame
  <2>10. PICK key \in Keys : key = k
    BY <2>1
  <2>11. Live(key)' = Live(key) \cup r.got
    <3>1. \A u \in Threads : th'[u].key # key
      BY <1>2, <1>4, <2>1, <2>8, <2>10, SwitchesAssumption
    <3>2. Live(key)' = BlocksOf(m_pBlockMapping'[key])
      BY <3>1 DEF Live
    <3> QED BY <2>3, <2>6, <2>7, <2>10, <3>2
  <2>12. \A j \in Keys : j # key => Live(j)' = Live(j)
    <3> SUFFICES ASSUME NEW j \in Keys, j # key, NEW u \in Threads, NEW b
                 PROVE  (th'[u].key = j => b \notin th'[u].old)
                        <=> (th[u].key = j => b \notin th[u].old)
      BY <2>7, <2>10 DEF Live
    <3> QED BY <1>2, <1>4, <2>8, <2>10
  <2>13. \A b \in Blocks : Queued(b)' = Queued(b)
    BY <1>6 DEF Queued
  <2>14. BlockUsedOnce'
    <3>1. BlockUsedOnce
      BY DEF BInv
    <3>2. \A b \in Blocks : Queued(b)' <= 1
      BY <2>13, <3>1 DEF BlockUsedOnce
    <3>3. ASSUME NEW b \in Blocks, Queued(b)' = 1
          PROVE  (\A u \in Threads : b \notin Held(u)') /\ (\A j \in Keys : b \notin Live(j)')
      BY <2>4, <2>8, <2>9, <2>11, <2>12, <2>13, <3>1, <3>3 DEF BlockUsedOnce
    <3>4. \A u, v \in Threads : u # v => Held(u)' \cap Held(v)' = {}
      BY <2>8, <2>9, <3>1 DEF BlockUsedOnce
    <3>5. \A u \in Threads : \A j \in Keys : Held(u)' \cap Live(j)' = {}
      BY <2>4, <2>8, <2>9, <2>11, <2>12, <3>1 DEF BlockUsedOnce
    <3>6. \A i, j \in Keys : i # j => Live(i)' \cap Live(j)' = {}
      BY <2>4, <2>11, <2>12, <3>1 DEF BlockUsedOnce
    <3> QED BY <3>2, <3>3, <3>4, <3>5, <3>6 DEF BlockUsedOnce
  <2>15. KeptBlocks'
    <3>1. \A u \in Threads : th'[u].old \subseteq th[u].old /\ Taken(th'[u]) \subseteq Taken(th[u])
      BY <1>2, <1>4, <2>8
    <3>2. ASSUME NEW b \in Blocks, Kept(b)' PROVE Kept(b)
      BY <1>6, <3>1, <3>2 DEF Kept, files
    <3> QED BY <1>6, <3>1, <3>2 DEF BInv, KeptBlocks
  <2>16. Beyond'
    <3>1. ASSUME NEW b \in Blocks, Nowhere(b) PROVE Nowhere(b)'
      <4>1. \A u \in Threads : b \notin Held(u)' \cup th'[u].old
        BY <1>2, <1>4, <2>8, <2>9, <3>1 DEF Nowhere
      <4>2. b \notin BlocksOf(list)
        BY <2>1, <2>3, <2>4, <2>6, <3>1 DEF Nowhere
      <4>3. \A j \in Keys : b \notin BlocksOf(m_pBlockMapping'[j])
        BY <2>7, <3>1, <4>2 DEF Nowhere
      <4> QED BY <2>13, <3>1, <4>1, <4>3 DEF Nowhere
    <3> QED BY <1>2, <1>3, <1>6, <3>1, BeyondStep
  <2>17. ListsOK'
    BY <2>6, <2>7 DEF BInv, ListsOK
  <2>18. \A u \in Threads : Apart(th[u])' /\ Replaces(u)'
    <3>1. ASSUME NEW u \in Threads, u # t PROVE Apart(th[u])' /\ Replaces(u)'
      <4>1. th'[u] = th[u] /\ Apart(th[u]) /\ Replaces(u) /\ Hand(th[u]) /\ th[u] \in ThreadState
        BY <2>8, <3>1 DEF BInv, TInv, ThreadsOK
      <4>2. th[u].at # "idle" => th[u].key \in Keys /\ th[u].key # k
        BY <2>1, <3>1, <4>1 DEF Hand, ThreadState
      <4>3. th[u].at # "idle" => m_pBlockMapping'[th[u].key] = m_pBlockMapping[th[u].key]
        BY <2>7, <4>2
      <4> QED BY <4>1, <4>3 DEF Apart, Replaces, Replaced
    <3>2. Apart(th[t])' /\ Replaces(t)'
      BY <1>2, <1>4 DEF Replaces
    <3> QED BY <3>1, <3>2
  <2>19. SavedFilesAgree' /\ CheckpointOK' /\ FilesOK'
    <3>1. m_totalAllocatedBlocks' >= m_totalAllocatedBlocks
      BY <1>6 DEF TInv, TypeOK
    <3> QED BY <1>3, <1>6, <3>1, FilesStep
  <2>20. CheckpointIntact'
    BY <1>6 DEF files, BInv, CheckpointIntact
  <2>21. BInv'
    BY <1>5, <2>14, <2>15, <2>16, <2>17, <2>18, <2>19, <2>20 DEF BInv
  <2>22. \A j \in Keys : Live(j) \subseteq Live(j)'
    BY <2>11, <2>12
  <2> QED BY <2>4, <2>11, <2>21, <2>22
<1> QED BY <1>7, <1>8

\* A step of one thread preserves the invariant.
LEMMA ThreadBlocks ==
    ASSUME TInv, TInv', BInv, Quiet, NEW t \in Threads, ThreadStep(t)
    PROVE  BInv'
  BY PutBlocks, MergeBlocks, DeleteBlocks, CheckExpansionBlocks, SkipExpansionBlocks,
     ExpandFileFailsBlocks, ExpandFileBlocks, ExpandPushBlocks, ExpandInsertBlocks,
     ExpandEndBlocks, PopBlocks, ResetBlocks, PopFailsBlocks, StoreSizeBlocks, WriteBlocksBlocks,
     WriteBlocksFailsBlocks, ReleaseSkipBlocks, ReleaseInsertBlocks, ReleasePushBlocks,
     PublishBlocks
  DEF ThreadStep

-----------------------------------------------------------------------------
(***************************************************************************)
(* Checkpoint and recovery.                                                *)
(***************************************************************************)
\* When no thread executes an operation, every block is queued or in a posting, or
\* nobody knows it.
LEMMA AtRest ==
    ASSUME TInv, BInv, \A t \in Threads : th[t].at = "idle"
    PROVE  /\ \A t \in Threads : th[t].old = {}
           /\ \A k \in Keys : Live(k) = BlocksOf(m_pBlockMapping[k])
           /\ \A b \in Blocks : ~Fresh(b)
<1>1. \A t \in Threads : th[t].old = {}
  BY DEF TInv, ThreadsOK, Hand, Releases
<1>2. \A k \in Keys : Live(k) = BlocksOf(m_pBlockMapping[k])
  BY <1>1 DEF Live
<1>3. \A b \in Blocks : ~Fresh(b)
  BY DEF Fresh
<1> QED BY <1>1, <1>2, <1>3

\* What depends on the threads and the lists only.
LEMMA Untouched ==
    ASSUME BInv, UNCHANGED <<th, m_pBlockMapping, m_totalAllocatedBlocks>>,
           \A b \in Blocks : Queued(b)' = Queued(b)
    PROVE  /\ OneThreadPerKey' /\ ListsOK' /\ BlockUsedOnce' /\ Beyond'
           /\ \A t \in Threads : Apart(th[t])' /\ Replaces(t)'
<1>1. OneThreadPerKey' /\ ListsOK' /\ \A t \in Threads : Apart(th[t])' /\ Replaces(t)'
  BY DEF BInv, OneThreadPerKey, ListsOK, Apart, Replaces, Replaced, BlocksOf
<1>2. \A t \in Threads : Held(t)' = Held(t)
  BY DEF Held
<1>3. \A k \in Keys : Live(k)' = Live(k)
  BY DEF Live
<1>4. BlockUsedOnce'
  BY <1>2, <1>3 DEF BInv, BlockUsedOnce
<1>5. Beyond'
  <2>1. \A b \in Blocks : (Nowhere(b)' <=> Nowhere(b)) /\ (Fresh(b)' <=> Fresh(b))
    BY <1>2 DEF Nowhere, Fresh
  <2> QED BY <2>1 DEF BInv, Beyond
<1> QED BY <1>1, <1>4, <1>5

\* The old checkpoint ends when the mapping file is truncated.
LEMMA CheckpointBeginBlocks ==
    ASSUME TInv, TInv', BInv, CheckpointBegin
    PROVE  BInv'
<1>1. /\ UNCHANGED <<th, m_pBlockMapping, m_totalAllocatedBlocks, m_blockAddresses,
                     m_blockAddresses_reserve, poolFile>>
      /\ ckpt'.at = "saving" /\ ckpt'.saved = {}
      /\ ckpt'.mapping = "torn" /\ ckpt'.pool # "saved"
      /\ \A k \in Keys : mappingFile'[k] = NoList
      /\ \A t \in Threads : th[t].at = "idle"
  BY DEF CheckpointBegin, MayCheckpoint, Outdated, pool, TInv, TypeOK, BInv, CheckpointOK
<1>2. /\ OneThreadPerKey' /\ ListsOK' /\ BlockUsedOnce' /\ Beyond'
      /\ \A t \in Threads : Apart(th[t])' /\ Replaces(t)'
  BY <1>1, Untouched DEF Queued
<1>3. KeptBlocks'
  BY <1>1, AtRest DEF KeptBlocks, Kept
<1>4. CheckpointIntact' /\ SavedFilesAgree'
  BY <1>1 DEF CheckpointIntact, SavedFilesAgree
<1>5. CheckpointOK'
  BY <1>1 DEF CheckpointOK
<1>6. FilesOK'
  BY <1>1 DEF BInv, FilesOK, NoList, BlocksOf
<1> QED BY <1>2, <1>3, <1>4, <1>5, <1>6 DEF BInv

\* A mapping that cannot be saved is not relied upon.
LEMMA MappingFailsBlocks ==
    ASSUME TInv, TInv', BInv, OpenMappingFails \/ SaveFails
    PROVE  BInv'
<1>1. /\ UNCHANGED <<th, m_pBlockMapping, m_totalAllocatedBlocks, m_blockAddresses,
                     m_blockAddresses_reserve, poolFile>>
      /\ ckpt'.at = "saved" /\ ckpt'.saved = {} /\ ckpt'.mapping # "saved" /\ ckpt'.pool # "saved"
      /\ \A k \in Keys : mappingFile'[k] \in {mappingFile[k], NoList}
      /\ \A t \in Threads : th[t].at = "idle"
  <2>1. CASE OpenMappingFails
    BY <2>1 DEF OpenMappingFails, MayCheckpoint, Outdated, pool, TInv, TypeOK, BInv, CheckpointOK
  <2>2. CASE SaveFails
    BY <2>2 DEF SaveFails, pool, TInv, TypeOK, BInv, CheckpointOK
  <2> QED BY <2>1, <2>2
<1>2. /\ OneThreadPerKey' /\ ListsOK' /\ BlockUsedOnce' /\ Beyond'
      /\ \A t \in Threads : Apart(th[t])' /\ Replaces(t)'
  BY <1>1, Untouched DEF Queued
<1>3. KeptBlocks'
  BY <1>1, AtRest DEF KeptBlocks, Kept
<1>4. CheckpointIntact' /\ SavedFilesAgree'
  BY <1>1 DEF CheckpointIntact, SavedFilesAgree
<1>5. CheckpointOK'
  BY <1>1 DEF CheckpointOK
<1>6. FilesOK'
  BY <1>1 DEF BInv, FilesOK, NoList, BlocksOf
<1> QED BY <1>2, <1>3, <1>4, <1>5, <1>6 DEF BInv

\* The saved list is the current one and its pages are clean.
LEMMA SaveListBlocks ==
    ASSUME TInv, TInv', BInv, NEW k \in Keys, SaveList(k)
    PROVE  BInv'
<1>1. /\ UNCHANGED <<th, m_pBlockMapping, m_totalAllocatedBlocks, m_blockAddresses,
                     m_blockAddresses_reserve, poolFile>>
      /\ ckpt.at = "saving" /\ ckpt'.at = "saving" /\ ckpt'.saved = ckpt.saved \cup {k}
      /\ ckpt'.mapping = ckpt.mapping /\ ckpt'.pool = ckpt.pool
      /\ mappingFile'[k] = m_pBlockMapping[k]
      /\ \A j \in Keys : j # k => mappingFile'[j] = mappingFile[j]
      /\ dirty' = dirty \ BlocksOf(m_pBlockMapping[k])
  BY DEF SaveList, pool, TInv, TypeOK
<1>2. /\ OneThreadPerKey' /\ ListsOK' /\ BlockUsedOnce' /\ Beyond'
      /\ \A t \in Threads : Apart(th[t])' /\ Replaces(t)'
  BY <1>1, Untouched DEF Queued
<1>3. KeptBlocks'
  BY <1>1 DEF BInv, KeptBlocks, Kept
<1>4. CheckpointIntact' /\ SavedFilesAgree'
  BY <1>1 DEF CheckpointIntact, SavedFilesAgree
<1>5. CheckpointOK'
  BY <1>1 DEF BInv, CheckpointOK
<1>6. FilesOK'
  BY <1>1 DEF BInv, FilesOK, ListsOK
<1> QED BY <1>2, <1>3, <1>4, <1>5, <1>6 DEF BInv

\* All lists have been saved.
LEMMA SaveEndBlocks ==
    ASSUME TInv, TInv', BInv, SaveEnd
    PROVE  BInv'
<1>1. /\ UNCHANGED <<th, m_pBlockMapping, m_totalAllocatedBlocks, m_blockAddresses,
                     m_blockAddresses_reserve, dirty, mappingFile, poolFile>>
      /\ ckpt.at = "saving" /\ ckpt.saved = Keys /\ ckpt'.at = "saved" /\ ckpt'.saved = {}
      /\ ckpt'.pool = ckpt.pool
  BY DEF SaveEnd, pool, TInv, TypeOK
<1>2. /\ OneThreadPerKey' /\ ListsOK' /\ BlockUsedOnce' /\ Beyond'
      /\ \A t \in Threads : Apart(th[t])' /\ Replaces(t)'
  BY <1>1, Untouched DEF Queued
<1>3. KeptBlocks'
  BY <1>1 DEF BInv, KeptBlocks, Kept
<1>4. CheckpointIntact' /\ SavedFilesAgree'
  BY <1>1 DEF CheckpointIntact, SavedFilesAgree
<1>5. CheckpointOK'
  BY <1>1 DEF BInv, CheckpointOK
<1>6. FilesOK'
  BY <1>1 DEF BInv, FilesOK
<1> QED BY <1>2, <1>3, <1>4, <1>5, <1>6 DEF BInv

\* The released blocks become free when the new mapping, which does not name them,
\* has replaced the old one, or nothing is claimed of the mapping file any more.
LEMMA ReloadReserveBlocks ==
    ASSUME TInv, TInv', BInv, ReloadReserve
    PROVE  BInv'
<1>1. /\ UNCHANGED <<th, m_pBlockMapping, m_totalAllocatedBlocks, dirty, mappingFile, poolFile>>
      /\ ckpt.at = "saved" /\ ckpt'.at = "reloaded" /\ ckpt'.saved = ckpt.saved
      /\ ckpt'.mapping = ckpt.mapping /\ ckpt'.pool = ckpt.pool
      /\ \A b \in Blocks : m_blockAddresses_reserve'[b] = 0
      /\ \A b \in Blocks : m_blockAddresses'[b] = m_blockAddresses[b] + m_blockAddresses_reserve[b]
  BY DEF ReloadReserve, EmptyQueue, TInv, TypeOK
<1>2. \A b \in Blocks : Queued(b)' = Queued(b)
  BY <1>1 DEF Queued, TInv, TypeOK
<1>3. /\ OneThreadPerKey' /\ ListsOK' /\ BlockUsedOnce' /\ Beyond'
      /\ \A t \in Threads : Apart(th[t])' /\ Replaces(t)'
  BY <1>1, <1>2, Untouched
<1>4. KeptBlocks'
  <2>1. \A t \in Threads : th[t].at = "idle"
    BY <1>1 DEF BInv, CheckpointOK
  <2> QED BY <1>1, <2>1, AtRest DEF KeptBlocks, Kept
<1>5. CheckpointIntact' /\ SavedFilesAgree'
  BY <1>1 DEF CheckpointIntact, SavedFilesAgree
<1>6. CheckpointOK'
  BY <1>1 DEF BInv, CheckpointOK
<1>7. FilesOK'
  BY <1>1 DEF BInv, FilesOK
<1> QED BY <1>3, <1>4, <1>5, <1>6, <1>7 DEF BInv

\* The saved pool agrees with the saved mapping, if that was saved, because both are the
\* current ones.  A pool that cannot be saved is not relied upon.
LEMMA SavePoolBlocks ==
    ASSUME TInv, TInv', BInv, SavePool \/ SavePoolFails
    PROVE  BInv'
<1>1. /\ UNCHANGED <<th, m_pBlockMapping, m_totalAllocatedBlocks, m_blockAddresses,
                     m_blockAddresses_reserve, dirty, mappingFile>>
      /\ ckpt.at = "reloaded" /\ ckpt'.at = "none" /\ ckpt'.saved = ckpt.saved
      /\ ckpt'.mapping = ckpt.mapping
      /\ \/ poolFile'.free = m_blockAddresses /\ poolFile'.total = m_totalAllocatedBlocks
         \/ poolFile' = poolFile /\ ckpt'.pool # "saved"
  <2>1. CASE SavePool
    BY <2>1 DEF SavePool, pool, TInv, TypeOK
  <2>2. CASE SavePoolFails
    <3>1. ckpt.at = "reloaded" /\ ckpt.pool # "saved"
      BY <2>2 DEF SavePoolFails, BInv, CheckpointOK
    <3>2. PICK file \in {ckpt.pool, "torn"} :
             ckpt' = [ckpt EXCEPT !.at = "none", !.pool = file, !.failed = @ + 1]
      BY <2>2 DEF SavePoolFails
    <3>3. ckpt'.at = "none" /\ ckpt'.saved = ckpt.saved /\ ckpt'.mapping = ckpt.mapping /\ ckpt'.pool = file
      BY <3>2 DEF TInv, TypeOK
    <3> QED BY <2>2, <3>1, <3>3 DEF SavePoolFails, pool
  <2> QED BY <2>1, <2>2
<1>2. /\ \A t \in Threads : th[t].at = "idle"
      /\ ckpt.mapping = "saved" => \A k \in Keys : /\ mappingFile[k] = m_pBlockMapping[k]
                                                  /\ BlocksOf(mappingFile[k]) \cap dirty = {}
  BY <1>1 DEF BInv, CheckpointOK
<1>3. /\ OneThreadPerKey' /\ ListsOK' /\ BlockUsedOnce' /\ Beyond'
      /\ \A t \in Threads : Apart(th[t])' /\ Replaces(t)'
  BY <1>1, Untouched DEF Queued
<1>4. ASSUME NEW k \in Keys, NEW b \in BlocksOf(m_pBlockMapping[k])
      PROVE  b \in Blocks /\ m_blockAddresses[b] = 0 /\ b < m_totalAllocatedBlocks
  <2>1. b \in Blocks /\ b \in Live(k)
    BY <1>2, AtRest DEF BlocksOf, TInv, TypeOK, List
  <2>2. m_blockAddresses[b] \in Nat /\ m_blockAddresses_reserve[b] \in Nat
    BY <2>1 DEF TInv, TypeOK
  <2>3. m_blockAddresses[b] = 0
    <3>1. Queued(b) <= 1 /\ Queued(b) # 1
      BY <2>1 DEF BInv, BlockUsedOnce
    <3> QED BY <2>2, <3>1 DEF Queued
  <2>4. ~(b >= m_totalAllocatedBlocks)
    BY <1>2, <2>1, AtRest DEF BInv, Beyond, Nowhere
  <2>5. b \in Int /\ m_totalAllocatedBlocks \in Int
    BY <2>1 DEF Blocks, TInv, TypeOK
  <2> QED BY <2>1, <2>3, <2>4, <2>5
<1>5. \A b \in Blocks : m_blockAddresses[b] > 0 => b < m_totalAllocatedBlocks
  <2> SUFFICES ASSUME NEW b \in Blocks, m_blockAddresses[b] > 0, b >= m_totalAllocatedBlocks
               PROVE  FALSE
    BY DEF Blocks, TInv, TypeOK
  <2>1. Queued(b) = 0
    BY <1>2, AtRest DEF BInv, Beyond, Nowhere
  <2> QED BY <2>1 DEF Queued, TInv, TypeOK
<1>6. KeptBlocks'
  <2>1. ASSUME NEW b \in Blocks, Kept(b)' PROVE m_blockAddresses[b] = 0
    BY <1>1, <1>2, <1>4, <2>1, AtRest DEF Kept
  <2>2. \A t \in Threads : Taken(th[t]) = {}
    BY <1>2 DEF Taken, TInv, ThreadsOK, Hand
  <2> QED BY <1>1, <2>1, <2>2 DEF KeptBlocks
<1>7. CheckpointIntact'
  BY <1>1, <1>2 DEF CheckpointIntact
<1>8. SavedFilesAgree'
  <2>1. \A j, k \in Keys : j # k => BlocksOf(m_pBlockMapping[j]) \cap BlocksOf(m_pBlockMapping[k]) = {}
    BY <1>2, AtRest DEF BInv, BlockUsedOnce
  <2> QED BY <1>1, <1>2, <1>4, <2>1 DEF SavedFilesAgree
<1>9. CheckpointOK'
  BY <1>1 DEF BInv, CheckpointOK
<1>10. FilesOK'
  <2>1. poolFile'.total <= m_totalAllocatedBlocks'
    BY <1>1 DEF TInv, TypeOK, BInv, FilesOK
  <2>2. \A b \in Blocks : poolFile'.free[b] > 0 => b < poolFile'.total
    BY <1>1, <1>5 DEF BInv, FilesOK
  <2>3. ckpt.mapping = "saved" =>
           \A k \in Keys : \A b \in BlocksOf(mappingFile[k]) : b < m_totalAllocatedBlocks
    BY <1>2, <1>4
  <2> QED BY <1>1, <2>1, <2>2, <2>3 DEF BInv, FilesOK
<1> QED BY <1>3, <1>6, <1>7, <1>8, <1>9, <1>10 DEF BInv

\* Recovery starts from two files that agree.
LEMMA RecoverBlocks ==
    ASSUME TInv, TInv', BInv, Quiet, CrashAndRecover
    PROVE  BInv'
<1>0. ckpt.at = "none" /\ ckpt.mapping = "saved" /\ ckpt.pool = "saved"
  BY DEF CrashAndRecover, MayRecover, Quiet, BInv, CheckpointOK
<1>1. /\ ckpt'.at = "none" /\ ckpt'.saved = {}
      /\ ckpt'.mapping = ckpt.mapping /\ ckpt'.pool = ckpt.pool
      /\ UNCHANGED <<dirty, mappingFile, poolFile>>
      /\ m_totalAllocatedBlocks' = poolFile.total
      /\ \A b \in Blocks : m_blockAddresses'[b] = IF poolFile.free[b] > 0 THEN 1 ELSE 0
      /\ \A b \in Blocks : m_blockAddresses_reserve'[b] = 0
  BY DEF CrashAndRecover, EmptyQueue, TInv, TypeOK
<1>2. \A t \in Threads : /\ th'[t] = IdleThread /\ Held(t)' = {} /\ th'[t].old = {}
                         /\ Taken(th'[t]) = {} /\ th'[t].at = "idle" /\ th'[t].key = NoKey
  BY DEF CrashAndRecover, Held, InHand, Taken, IdleThread
<1>3. \A k \in Keys : /\ BlocksOf(m_pBlockMapping'[k]) = BlocksOf(mappingFile[k])
                      /\ m_pBlockMapping'[k].full \cap m_pBlockMapping'[k].part = {}
                      /\ m_pBlockMapping'[k].st # "posting" => BlocksOf(m_pBlockMapping'[k]) = {}
  <2> SUFFICES ASSUME NEW k \in Keys
               PROVE  /\ BlocksOf(Loaded(mappingFile[k])) = BlocksOf(mappingFile[k])
                      /\ Loaded(mappingFile[k]).full \cap Loaded(mappingFile[k]).part = {}
                      /\ Loaded(mappingFile[k]).st # "posting" => BlocksOf(Loaded(mappingFile[k])) = {}
    BY DEF CrashAndRecover
  <2>1. EmptyList.full = {} /\ EmptyList.part = {} /\ BlocksOf(EmptyList) = {}
    BY DEF EmptyList, NoList, BlocksOf
  <2> QED BY <2>1 DEF Loaded, BInv, FilesOK
<1>4. \A k \in Keys : Live(k)' = BlocksOf(mappingFile[k])
  BY <1>2, <1>3 DEF Live
<1>5. \A b \in Blocks : Queued(b)' = IF poolFile.free[b] > 0 THEN 1 ELSE 0
  BY <1>1 DEF Queued
<1>6. /\ \A k \in Keys : \A b \in BlocksOf(mappingFile[k]) :
            poolFile.free[b] = 0 /\ b < poolFile.total
      /\ \A j, k \in Keys : j # k => BlocksOf(mappingFile[j]) \cap BlocksOf(mappingFile[k]) = {}
  BY <1>0 DEF BInv, SavedFilesAgree
<1>7. BlockUsedOnce'
  BY <1>2, <1>4, <1>5, <1>6 DEF BlockUsedOnce
<1>8. Beyond'
  <2> SUFFICES ASSUME NEW b \in Blocks, b >= poolFile.total PROVE Nowhere(b)'
    BY <1>1 DEF Beyond
  <2>1. ~(b < poolFile.total)
    BY DEF Blocks, TInv, TypeOK
  <2>2. Queued(b)' = 0
    BY <1>5, <2>1 DEF BInv, FilesOK
  <2> QED BY <1>2, <1>3, <1>6, <2>1, <2>2 DEF Nowhere
<1>9. KeptBlocks'
  BY <1>1, <1>2, <1>6 DEF KeptBlocks, Kept
<1>10. OneThreadPerKey' /\ ListsOK' /\ \A t \in Threads : Apart(th[t])' /\ Replaces(t)'
  BY <1>2, <1>3 DEF OneThreadPerKey, ListsOK, Apart, Replaces, IdleThread
<1>11. CheckpointIntact' /\ SavedFilesAgree'
  BY <1>0, <1>1 DEF BInv, CheckpointIntact, SavedFilesAgree
<1>12. CheckpointOK'
  BY <1>1 DEF CheckpointOK
<1>13. FilesOK'
  <2>1. poolFile'.total <= m_totalAllocatedBlocks'
    BY <1>1 DEF TInv, TypeOK
  <2> QED BY <1>1, <1>6, <2>1 DEF BInv, FilesOK
<1> QED BY <1>7, <1>8, <1>9, <1>10, <1>11, <1>12, <1>13 DEF BInv

\* The initial state satisfies the invariant.
LEMMA InitBlocks == Init => BInv
<1> SUFFICES ASSUME Init PROVE BInv
  OBVIOUS
<1>1. \A t \in Threads : /\ th[t] = IdleThread /\ Held(t) = {} /\ th[t].old = {}
                         /\ Taken(th[t]) = {} /\ th[t].at = "idle" /\ th[t].key = NoKey
  BY DEF Init, Held, InHand, Taken, IdleThread
<1>2. \A k \in Keys : /\ m_pBlockMapping[k] = NoList /\ mappingFile[k] = NoList
                      /\ BlocksOf(NoList) = {} /\ Live(k) = {}
                      /\ NoList.full = {} /\ NoList.part = {}
  BY DEF Init, NoList, BlocksOf, Live
<1>3. \A b \in Blocks : /\ Queued(b) = IF b < StartBlocks THEN 1 ELSE 0
                        /\ m_blockAddresses[b] = IF b < StartBlocks THEN 1 ELSE 0
                        /\ poolFile.free[b] = m_blockAddresses[b]
  BY DEF Init, Queued, EmptyQueue
<1>4. m_totalAllocatedBlocks = StartBlocks /\ poolFile.total = StartBlocks
  BY DEF Init
<1>5. BlockUsedOnce
  BY <1>1, <1>2, <1>3 DEF BlockUsedOnce
<1>6. Beyond
  BY <1>1, <1>2, <1>3, <1>4, SizesAssumption DEF Beyond, Nowhere, Blocks
<1>7. KeptBlocks
  BY <1>1, <1>2 DEF KeptBlocks, Kept
<1>8. OneThreadPerKey /\ ListsOK /\ \A t \in Threads : Apart(th[t]) /\ Replaces(t)
  BY <1>1, <1>2 DEF OneThreadPerKey, ListsOK, Apart, Replaces, IdleThread
<1>9. CheckpointIntact /\ SavedFilesAgree
  BY <1>2 DEF CheckpointIntact, SavedFilesAgree
<1>10. CheckpointOK
  BY DEF Init, CheckpointOK
<1>11. FilesOK
  BY <1>2, <1>3, <1>4, SizesAssumption DEF FilesOK
<1> QED BY <1>5, <1>6, <1>7, <1>8, <1>9, <1>10, <1>11 DEF BInv

\* Every step preserves the invariant.
LEMMA NextBlocks == ASSUME Quiet PROVE TInv /\ TInv' /\ BInv /\ [Next]_vars => BInv'
<1> SUFFICES ASSUME TInv, TInv', BInv, [Next]_vars PROVE BInv'
  OBVIOUS
<1>1. CASE \E t \in Threads : ThreadStep(t)
  BY <1>1, ThreadBlocks
<1>2. CASE CheckpointStep
  BY <1>2, CheckpointBeginBlocks, MappingFailsBlocks, SaveListBlocks, SaveEndBlocks,
     ReloadReserveBlocks, SavePoolBlocks DEF CheckpointStep
<1>3. CASE CrashAndRecover
  BY <1>3, RecoverBlocks
<1>4. CASE UNCHANGED vars
  <2>1. UNCHANGED <<th, m_pBlockMapping, m_totalAllocatedBlocks, m_blockAddresses,
                    m_blockAddresses_reserve, dirty, ckpt, mappingFile, poolFile>>
    BY <1>4 DEF vars
  <2>2. /\ OneThreadPerKey' /\ ListsOK' /\ BlockUsedOnce' /\ Beyond'
        /\ \A t \in Threads : Apart(th[t])' /\ Replaces(t)'
    BY <2>1, Untouched DEF Queued
  <2>3. KeptBlocks'
    BY <2>1 DEF BInv, KeptBlocks, Kept
  <2>4. CheckpointIntact' /\ SavedFilesAgree'
    BY <2>1 DEF BInv, CheckpointIntact, SavedFilesAgree
  <2>5. CheckpointOK' /\ FilesOK'
    BY <2>1 DEF BInv, CheckpointOK, FilesOK
  <2> QED BY <2>2, <2>3, <2>4, <2>5 DEF BInv
<1> QED BY <1>1, <1>2, <1>3, <1>4 DEF Next

-----------------------------------------------------------------------------
(***************************************************************************)
(* Leaks.  BInv says that a block is in at most one place; here it is      *)
(* shown to be in some place, the two recorded leaks being one.  Two       *)
(* things make this inductive: the blocks that an expansion has queued     *)
(* are accounted for before they are part of the file (Covered), and the   *)
(* two files of a checkpoint, when both were saved, account for every      *)
(* block of the total that they were saved with (FilesCover), which is     *)
(* where a recovery starts.                                                *)
(***************************************************************************)
Somewhere(b) ==
    \/ Queued(b) > 0
    \/ b \in lost
    \/ \E t \in Threads : b \in Held(t)
    \/ \E k \in Keys : b \in Live(k)

Covered == \A b \in Blocks : b < m_totalAllocatedBlocks \/ Fresh(b) => Somewhere(b)

FilesCover ==
    ckpt.at = "none" /\ ckpt.mapping = "saved" /\ ckpt.pool = "saved" =>
        \A b \in Blocks : b < poolFile.total =>
            \/ poolFile.free[b] > 0
            \/ b \in poolFile.lost
            \/ \E k \in Keys : b \in BlocksOf(mappingFile[k])

LInv == Covered /\ FilesCover

\* A step after which every block is still somewhere.
LEMMA CoverStep ==
    ASSUME LInv, UNCHANGED files, \A b \in Blocks : Somewhere(b) => Somewhere(b)',
           \A b \in Blocks : b < m_totalAllocatedBlocks' \/ Fresh(b)' =>
               b < m_totalAllocatedBlocks \/ Fresh(b) \/ Somewhere(b)'
    PROVE  LInv'
<1>1. Covered'
  BY DEF LInv, Covered
<1>2. FilesCover'
  BY DEF LInv, FilesCover, files
<1> QED BY <1>1, <1>2 DEF LInv

\* A step of one thread that leaves the postings alone: what the thread gives away is
\* queued or recorded, what it takes from a queue it has.
LEMMA CalmCover ==
    ASSUME TInv, NEW t \in Threads, NEW s, th' = [th EXCEPT ![t] = s],
           lost \subseteq lost',
           \A k \in Keys : BlocksOf(m_pBlockMapping'[k]) = BlocksOf(m_pBlockMapping[k]),
           \/ s.old = th[t].old /\ s.key = th[t].key
           \/ s.old = {} /\ th[t].old = {},
           \A b \in Blocks : b \in InHand(th[t]) => b \in InHand(s) \/ Queued(b)' > 0 \/ b \in lost',
           \A b \in Blocks : Queued(b) > 0 => Queued(b)' > 0 \/ b \in InHand(s)
    PROVE  \A b \in Blocks : Somewhere(b) => Somewhere(b)'
<1> TAKE b \in Blocks
<1> HAVE Somewhere(b)
<1>1. \A k \in Keys : Live(k)' = Live(k)
  BY LiveSame
<1>2. Held(t)' = InHand(s) /\ \A u \in Threads : u # t => Held(u)' = Held(u)
  BY Frame
<1>3. CASE Queued(b) > 0
  BY <1>2, <1>3 DEF Somewhere
<1>4. CASE b \in lost
  BY <1>4 DEF Somewhere
<1>5. ASSUME NEW u \in Threads, b \in Held(u) PROVE Somewhere(b)'
  BY <1>2, <1>5 DEF Somewhere, Held
<1>6. ASSUME NEW k \in Keys, b \in Live(k) PROVE Somewhere(b)'
  BY <1>1, <1>6 DEF Somewhere
<1> QED BY <1>3, <1>4, <1>5, <1>6 DEF Somewhere

\* A step of one thread that does not extend the file afterwards.
LEMMA NotFresh ==
    ASSUME TInv, NEW t \in Threads, NEW s, th' = [th EXCEPT ![t] = s], ~Growing(s),
           UNCHANGED m_totalAllocatedBlocks
    PROVE  \A b \in Blocks : Fresh(b)' => Fresh(b)
<1> TAKE b \in Blocks
<1> HAVE Fresh(b)'
<1>1. PICK u \in Threads :
         \/ th'[u].at = "push" /\ b < m_totalAllocatedBlocks + th'[u].grown
         \/ th'[u].at = "label" /\ b <= m_totalAllocatedBlocks + th'[u].grown
  BY DEF Fresh
<1>2. th'[u] = th[u]
  BY <1>1, Frame DEF Growing
<1> QED BY <1>1, <1>2 DEF Fresh

\* Both together.
LEMMA ThreadCover ==
    ASSUME TInv, LInv, NEW t \in Threads, NEW s, th' = [th EXCEPT ![t] = s], ~Growing(s),
           UNCHANGED <<m_totalAllocatedBlocks, files>>,
           \A b \in Blocks : Somewhere(b) => Somewhere(b)'
    PROVE  LInv'
<1>1. \A b \in Blocks : Fresh(b)' => Fresh(b)
  BY NotFresh
<1>2. \A b \in Blocks : b < m_totalAllocatedBlocks' => b < m_totalAllocatedBlocks
  OBVIOUS
<1> QED BY <1>1, <1>2, CoverStep

\* A step that moves no block, or one from one part of the thread's hand to another.
LEMMA SameHandCover ==
    ASSUME TInv, LInv, NEW t \in Threads, NEW s, th' = [th EXCEPT ![t] = s], ~Growing(s),
           UNCHANGED <<m_blockAddresses, m_blockAddresses_reserve, m_totalAllocatedBlocks, files>>,
           lost \subseteq lost',
           \A k \in Keys : BlocksOf(m_pBlockMapping'[k]) = BlocksOf(m_pBlockMapping[k]),
           \/ s.old = th[t].old /\ s.key = th[t].key
           \/ s.old = {} /\ th[t].old = {},
           InHand(th[t]) \subseteq InHand(s) \cup lost'
    PROVE  LInv'
<1>1. \A b \in Blocks : Queued(b) > 0 => Queued(b)' > 0
  BY DEF Queued
<1>2. \A b \in Blocks : Somewhere(b) => Somewhere(b)'
  BY <1>1, CalmCover
<1> QED BY <1>2, ThreadCover

\* An operation begins with empty hands.
LEMMA StartCover ==
    ASSUME TInv, LInv, NEW t \in Threads, NEW k \in Keys, NEW n \in 0 .. BlockLimit - 1,
           NEW p \in BOOLEAN, Put(t, k, n, p) \/ Merge(t, k, n, p)
    PROVE  LInv'
<1>1. th[t] \in ThreadState /\ Hand(th[t]) /\ th[t].at = "idle"
  BY DEF TInv, ThreadsOK, Put, Merge, MayStart
<1>2. InHand(th[t]) = {} /\ th[t].old = {}
  BY <1>1 DEF InHand, Hand, Releases
<1>3. UNCHANGED <<m_blockAddresses, m_blockAddresses_reserve, m_totalAllocatedBlocks, files,
                  m_pBlockMapping, lost>>
  BY DEF Put, Merge, pool
<1>4. PICK s : th' = [th EXCEPT ![t] = s] /\ s.old = {} /\ ~Growing(s)
  <2>1. CASE Put(t, k, n, p)
    <3> DEFINE s == [IdleThread EXCEPT !.at = "get", !.key = k, !.need = n, !.partial = p]
    <3>1. s.old = {} /\ ~Growing(s)
      BY DEF IdleThread, Growing
    <3>2. th' = [th EXCEPT ![t] = s]
      BY <2>1 DEF Put
    <3> QED BY <3>1, <3>2
  <2>2. CASE Merge(t, k, n, p)
    <3> DEFINE s == [IdleThread EXCEPT !.at = "get", !.key = k, !.need = n, !.partial = p,
                                       !.kind = "merge", !.kept = m_pBlockMapping[k].full]
    <3>1. s.old = {} /\ ~Growing(s)
      BY DEF IdleThread, Growing
    <3>2. th' = [th EXCEPT ![t] = s]
      BY <2>2 DEF Merge
    <3> QED BY <3>1, <3>2
  <2> QED BY <2>1, <2>2
<1> QED BY <1>2, <1>3, <1>4, SameHandCover

\* GetBlocks goes on to the queue, to the lock or back to its caller.
LEMMA ExpansionCover ==
    ASSUME TInv, LInv, NEW t \in Threads,
           CheckExpansion(t) \/ SkipExpansion(t) \/ ExpandFileFails(t)
    PROVE  LInv'
<1>1. /\ th[t] \in ThreadState /\ Hand(th[t]) /\ th[t].at \in {"get", "recheck"}
      /\ th \in [Threads -> ThreadState]
  BY DEF TInv, ThreadsOK, CheckExpansion, SkipExpansion, ExpandFileFails
<1>2. InHand(th[t]) = {} /\ th[t].old = {}
  BY <1>1 DEF InHand, Hand, Releases
<1>3. UNCHANGED <<m_blockAddresses, m_blockAddresses_reserve, m_totalAllocatedBlocks, files,
                  m_pBlockMapping, lost>>
  BY DEF CheckExpansion, SkipExpansion, ExpandFileFails, pool
<1>4. PICK s : th' = [th EXCEPT ![t] = s] /\ s.old = {} /\ ~Growing(s)
  <2>1. CASE ExpandFileFails(t)
    <3>1. IdleThread.old = {} /\ ~Growing(IdleThread)
      BY DEF IdleThread, Growing
    <3>2. th' = [th EXCEPT ![t] = IdleThread]
      BY <2>1 DEF ExpandFileFails
    <3> QED BY <3>1, <3>2
  <2>2. CASE CheckExpansion(t) \/ SkipExpansion(t)
    <3>1. PICK a \in {"pop", "recheck"} : th' = [th EXCEPT ![t].at = a]
      BY <2>2 DEF CheckExpansion, SkipExpansion
    <3>2. th' = [th EXCEPT ![t] = [th[t] EXCEPT !.at = a]]
      BY <1>1, <3>1
    <3>3. [th[t] EXCEPT !.at = a].old = {} /\ ~Growing([th[t] EXCEPT !.at = a])
      BY <1>1, <1>2, <3>1 DEF ThreadState, Growing
    <3> QED BY <3>2, <3>3
  <2> QED BY <2>1, <2>2
<1> QED BY <1>2, <1>3, <1>4, SameHandCover

\* The thread that extends the file: a block counts from the moment it is queued.
LEMMA GrowCover ==
    ASSUME TInv, LInv, NEW t \in Threads, ExpandFile(t) \/ ExpandPush(t) \/ ExpandInsert(t)
    PROVE  LInv'
<1> DEFINE T == m_totalAllocatedBlocks
           g == th[t].grown
<1>1. /\ th[t] \in ThreadState /\ Hand(th[t]) /\ th[t].at \in {"recheck", "push", "label"}
      /\ th \in [Threads -> ThreadState]
  BY DEF TInv, ThreadsOK, ExpandFile, ExpandPush, ExpandInsert
<1>2. PICK a, x, y :
         /\ th' = [th EXCEPT ![t] = [th[t] EXCEPT !.at = a, !.grow = x, !.grown = y]]
         /\ \/ ExpandFile(t) /\ a = "push" /\ y = 0
            \/ ExpandPush(t) /\ a = "label" /\ y = g
            \/ ExpandInsert(t) /\ a = "push" /\ y = g + 1
  <2>1. CASE ExpandFile(t)
    BY <1>1, <2>1 DEF ExpandFile
  <2>2. CASE ExpandPush(t)
    <3>1. th' = [th EXCEPT ![t] = [th[t] EXCEPT !.at = "label", !.grow = th[t].grow, !.grown = g]]
      BY <1>1, <2>2 DEF ExpandPush, ThreadState
    <3> QED BY <2>2, <3>1
  <2>3. CASE ExpandInsert(t)
    <3>1. th' = [th EXCEPT ![t] = [th[t] EXCEPT !.at = "push", !.grow = th[t].grow, !.grown = g + 1]]
      BY <1>1, <2>3 DEF ExpandInsert, ThreadState
    <3> QED BY <2>3, <3>1
  <2> QED BY <2>1, <2>2, <2>3
<1> DEFINE s == [th[t] EXCEPT !.at = a, !.grow = x, !.grown = y]
<1>3. /\ s.at = a /\ s.grown = y /\ s.old = th[t].old /\ s.key = th[t].key
      /\ s.got = th[t].got /\ s.rel = th[t].rel /\ s.cur = th[t].cur
  BY <1>1 DEF ThreadState
<1> HIDE DEF s
<1>4. th' = [th EXCEPT ![t] = s]
  BY <1>2 DEF s
<1>5. /\ InHand(s) = InHand(th[t])
      /\ th'[t] = s
      /\ \A u \in Threads : u # t => th'[u] = th[u]
  <2>1. InHand(s) = InHand(th[t])
    BY <1>3 DEF InHand
  <2>2. th'[t] = s /\ \A u \in Threads : u # t => th'[u] = th[u]
    BY <1>4, Frame
  <2> QED BY <2>1, <2>2
<1>6. UNCHANGED <<m_totalAllocatedBlocks, files, m_pBlockMapping, lost>>
  BY DEF ExpandFile, ExpandPush, ExpandInsert, pool
<1>7. T \in Nat /\ g \in Nat
  BY <1>1 DEF TInv, TypeOK, ThreadState
<1>8. \A b \in Blocks : Queued(b) > 0 => Queued(b)' > 0
  <2>1. CASE ExpandPush(t)
    <3>1. m_blockAddresses' = [m_blockAddresses EXCEPT ![T + g] = @ + 1]
      BY <2>1 DEF ExpandPush
    <3>2. /\ m_blockAddresses \in [Blocks -> Nat] /\ m_blockAddresses_reserve \in [Blocks -> Nat]
          /\ UNCHANGED m_blockAddresses_reserve
      BY <2>1 DEF TInv, TypeOK, ExpandPush
    <3> QED BY <3>1, <3>2 DEF Queued
  <2>2. CASE ExpandFile(t) \/ ExpandInsert(t)
    BY <2>2 DEF ExpandFile, ExpandInsert, pool, Queued
  <2> QED BY <2>1, <2>2
<1>9. \A b \in Blocks : Somewhere(b) => Somewhere(b)'
  BY <1>3, <1>4, <1>5, <1>6, <1>8, CalmCover
<1>10. ASSUME NEW b \in Blocks, Fresh(b)'
       PROVE  b < T \/ Fresh(b) \/ Somewhere(b)'
  <2>1. PICK u \in Threads :
           \/ th'[u].at = "push" /\ b < T + th'[u].grown
           \/ th'[u].at = "label" /\ b <= T + th'[u].grown
    BY <1>6, <1>10 DEF Fresh
  <2>2. CASE u # t
    BY <1>5, <2>1, <2>2 DEF Fresh
  <2>3. CASE u = t
    <3>0. b \in Nat
      BY DEF Blocks
    <3>1. CASE ExpandFile(t) /\ a = "push" /\ y = 0
      BY <1>3, <1>5, <1>7, <2>1, <2>3, <3>0, <3>1
    <3>2. CASE ExpandInsert(t) /\ a = "push" /\ y = g + 1
      <4>1. b <= T + g /\ th[t].at = "label"
        <5>1. PICK G \in Nat : G = g
          BY <1>7
        <5>2. b < T + (G + 1)
          BY <1>3, <1>5, <2>1, <2>3, <3>2, <5>1
        <5>3. b <= T + G
          BY <1>7, <3>0, <5>2
        <5> QED BY <3>2, <5>1, <5>3 DEF ExpandInsert
      <4> QED BY <4>1 DEF Fresh
    <3>3. CASE ExpandPush(t) /\ a = "label" /\ y = g
      <4>1. b <= T + g /\ th[t].at = "push"
        BY <1>3, <1>5, <2>1, <2>3, <3>3 DEF ExpandPush
      <4>2. CASE b < T + g
        BY <4>1, <4>2 DEF Fresh
      <4>3. CASE b = T + g
        <5>1. m_blockAddresses'[b] = m_blockAddresses[b] + 1 /\ UNCHANGED m_blockAddresses_reserve
          BY <3>3, <4>3 DEF ExpandPush, TInv, TypeOK
        <5>2. m_blockAddresses[b] \in Nat /\ m_blockAddresses_reserve[b] \in Nat
          BY DEF TInv, TypeOK
        <5>3. Queued(b)' > 0
          BY <5>1, <5>2 DEF Queued
        <5> QED BY <5>3 DEF Somewhere
      <4> QED BY <1>7, <3>0, <4>1, <4>2, <4>3
    <3> QED BY <1>2, <3>1, <3>2, <3>3
  <2> QED BY <2>2, <2>3
<1>11. \A b \in Blocks : b < m_totalAllocatedBlocks' => b < m_totalAllocatedBlocks
  BY <1>6
<1> QED BY <1>6, <1>9, <1>10, <1>11, CoverStep

\* The file grows by the blocks that have been queued.
LEMMA ExpandEndCover ==
    ASSUME TInv, LInv, NEW t \in Threads, ExpandEnd(t)
    PROVE  LInv'
<1> DEFINE s == [th[t] EXCEPT !.at = "pop", !.grow = 0, !.grown = 0]
<1>1. /\ th[t] \in ThreadState /\ th[t].at = "push" /\ th \in [Threads -> ThreadState]
      /\ th[t].grown = th[t].grow
  BY DEF TInv, ThreadsOK, ExpandEnd
<1>2. th' = [th EXCEPT ![t] = s]
  BY <1>1 DEF ExpandEnd
<1>3. s.old = th[t].old /\ s.key = th[t].key /\ InHand(s) = InHand(th[t]) /\ s.at = "pop"
  BY <1>1 DEF ThreadState, InHand
<1>4. UNCHANGED <<m_blockAddresses, m_blockAddresses_reserve, files, m_pBlockMapping, lost>>
  BY DEF ExpandEnd, pool
<1>5. \A b \in Blocks : Queued(b) > 0 => Queued(b)' > 0
  BY <1>4 DEF Queued
<1>6. \A b \in Blocks : Somewhere(b) => Somewhere(b)'
  BY <1>2, <1>3, <1>4, <1>5, CalmCover
<1>7. \A b \in Blocks : b < m_totalAllocatedBlocks' => Fresh(b)
  <2>1. m_totalAllocatedBlocks' = m_totalAllocatedBlocks + th[t].grown
    BY <1>1 DEF ExpandEnd
  <2> QED BY <1>1, <2>1 DEF Fresh
<1>8. \A b \in Blocks : ~Fresh(b)'
  <2>1. \A u \in Threads : ~Growing(th'[u])
    <3>1. \A u \in Threads : u # t => ~Growing(th[u])
      BY <1>1 DEF TInv, GrowthOK, Growing
    <3>2. ~Growing(s)
      BY <1>3 DEF Growing
    <3> QED BY <1>2, <3>1, <3>2, Frame
  <2> QED BY <2>1 DEF Fresh, Growing
<1> QED BY <1>4, <1>6, <1>7, <1>8, CoverStep

\* A block that is popped is in the thread's hand before it is out of sight.
LEMMA PopCover ==
    ASSUME TInv, LInv, NEW t \in Threads, Pop(t)
    PROVE  LInv'
<1>1. th[t] \in ThreadState /\ Hand(th[t]) /\ th[t].at = "pop" /\ th \in [Threads -> ThreadState]
  BY DEF TInv, ThreadsOK, Pop
<1>2. PICK c \in Blocks : /\ m_blockAddresses' = [m_blockAddresses EXCEPT ![c] = @ - 1]
                          /\ th' = [th EXCEPT ![t].at = "reset", ![t].cur = c]
  BY DEF Pop
<1> DEFINE s == [th[t] EXCEPT !.at = "reset", !.cur = c]
<1>3. th' = [th EXCEPT ![t] = s]
  BY <1>1, <1>2
<1>4. /\ s.old = th[t].old /\ s.key = th[t].key /\ s.got = th[t].got /\ s.rel = th[t].rel
      /\ s.cur = c /\ s.at = "reset"
  BY <1>1 DEF ThreadState
<1> HIDE DEF s
<1>5. th[t].cur = NoBlock /\ c # NoBlock
  BY <1>1 DEF Hand, NoBlock, Blocks
<1>6. InHand(th[t]) \subseteq InHand(s) /\ c \in InHand(s) /\ ~Growing(s)
  BY <1>4, <1>5 DEF InHand, Growing
<1>7. UNCHANGED <<m_blockAddresses_reserve, m_totalAllocatedBlocks, files, m_pBlockMapping, lost>>
  BY DEF Pop
<1>8. \A b \in Blocks : b # c => Queued(b)' = Queued(b)
  BY <1>2, <1>7 DEF Queued, TInv, TypeOK
<1>9. \A b \in Blocks : Somewhere(b) => Somewhere(b)'
  BY <1>3, <1>4, <1>6, <1>7, <1>8, CalmCover
<1> QED BY <1>3, <1>6, <1>7, <1>9, ThreadCover

\* The label of a popped block is reset.
LEMMA ResetCover ==
    ASSUME TInv, LInv, NEW t \in Threads, Reset(t)
    PROVE  LInv'
<1> DEFINE s == [th[t] EXCEPT !.at = "pop", !.need = @ - 1, !.cur = NoBlock,
                              !.got = @ \cup {th[t].cur}]
<1>1. th[t] \in ThreadState /\ th \in [Threads -> ThreadState]
  BY DEF TInv, ThreadsOK
<1>2. th' = [th EXCEPT ![t] = s]
  BY <1>1 DEF Reset
<1>3. /\ s.old = th[t].old /\ s.key = th[t].key /\ s.got = th[t].got \cup {th[t].cur}
      /\ s.rel = th[t].rel /\ s.at = "pop"
  BY <1>1 DEF ThreadState
<1> HIDE DEF s
<1>4. InHand(th[t]) \subseteq InHand(s) /\ ~Growing(s)
  BY <1>3 DEF InHand, Growing
<1>5. UNCHANGED <<m_blockAddresses, m_blockAddresses_reserve, m_totalAllocatedBlocks, files,
                  m_pBlockMapping, lost>>
  BY DEF Reset
<1> QED BY <1>2, <1>3, <1>4, <1>5, SameHandCover

\* The blocks that a dry queue leaves behind are recorded.
LEMMA PopFailsCover ==
    ASSUME TInv, LInv, NEW t \in Threads, PopFails(t)
    PROVE  LInv'
<1>1. th[t] \in ThreadState /\ Hand(th[t]) /\ th[t].at = "pop"
  BY DEF TInv, ThreadsOK, PopFails
<1>2. InHand(th[t]) = th[t].got /\ th[t].old = {}
  BY <1>1 DEF InHand, Hand, Releases
<1>3. IdleThread.old = {} /\ ~Growing(IdleThread)
  BY DEF IdleThread, Growing
<1>4. /\ UNCHANGED <<m_blockAddresses, m_blockAddresses_reserve, m_totalAllocatedBlocks, files,
                     m_pBlockMapping>>
      /\ lost' = lost \cup th[t].got
      /\ th' = [th EXCEPT ![t] = IdleThread]
  BY DEF PopFails, pool
<1> QED BY <1>2, <1>3, <1>4, SameHandCover

\* Storing the size moves no block.
LEMMA StoreSizeCover ==
    ASSUME TInv, LInv, NEW t \in Threads, StoreSize(t)
    PROVE  LInv'
<1> DEFINE s == [th[t] EXCEPT !.at = "write"]
<1>1. th[t] \in ThreadState /\ th \in [Threads -> ThreadState] /\ m_pBlockMapping \in [Keys -> List]
  BY DEF TInv, ThreadsOK, TypeOK
<1>2. th' = [th EXCEPT ![t] = s]
  BY <1>1 DEF StoreSize
<1>3. s.old = th[t].old /\ s.key = th[t].key /\ InHand(s) = InHand(th[t]) /\ ~Growing(s)
  BY <1>1 DEF ThreadState, InHand, Growing
<1> HIDE DEF s
<1>4. \A k \in Keys : BlocksOf(m_pBlockMapping'[k]) = BlocksOf(m_pBlockMapping[k])
  BY <1>1 DEF StoreSize, List, BlocksOf
<1>5. UNCHANGED <<m_blockAddresses, m_blockAddresses_reserve, m_totalAllocatedBlocks, files, lost>>
  BY DEF StoreSize, pool
<1> QED BY <1>2, <1>3, <1>4, <1>5, SameHandCover

\* The blocks of a failed write are about to be given back.
LEMMA WriteBlocksFailsCover ==
    ASSUME TInv, BInv, LInv, NEW t \in Threads, WriteBlocksFails(t)
    PROVE  LInv'
<1> DEFINE s == [th[t] EXCEPT !.at = "release", !.got = {}, !.rel = th[t].got, !.ok = FALSE]
<1>1. /\ th[t] \in ThreadState /\ Hand(th[t]) /\ th \in [Threads -> ThreadState]
      /\ m_pBlockMapping \in [Keys -> List] /\ th[t].at \in {"pop", "write"}
  BY DEF TInv, ThreadsOK, TypeOK, WriteBlocksFails, MayWrite
<1>2. th' = [th EXCEPT ![t] = s]
  BY <1>1 DEF WriteBlocksFails
<1>3. s.old = th[t].old /\ s.key = th[t].key /\ s.rel = th[t].got /\ s.at = "release"
  BY <1>1 DEF ThreadState
<1> HIDE DEF s
<1>4. InHand(th[t]) \subseteq InHand(s) /\ ~Growing(s)
  BY <1>1, <1>3 DEF InHand, Growing, Hand, Releases
<1>5. \A k \in Keys : BlocksOf(m_pBlockMapping'[k]) = BlocksOf(m_pBlockMapping[k])
  <2>1. BlocksOf(BrokenList) = {}
    BY DEF BrokenList, NoList, BlocksOf
  <2>2. \A k \in Keys : m_pBlockMapping[k].st = "sized" => BlocksOf(m_pBlockMapping[k]) = {}
    BY DEF BInv, ListsOK
  <2>3. CASE m_pBlockMapping[th[t].key].st = "sized"
    <3>1. m_pBlockMapping' = [m_pBlockMapping EXCEPT ![th[t].key] = BrokenList]
      BY <2>3 DEF WriteBlocksFails
    <3>2. \A k \in Keys : k # th[t].key => m_pBlockMapping'[k] = m_pBlockMapping[k]
      BY <1>1, <3>1
    <3>3. \A k \in Keys : k = th[t].key => m_pBlockMapping'[k] = BrokenList
      BY <1>1, <3>1
    <3> QED BY <2>1, <2>2, <2>3, <3>2, <3>3
  <2>4. CASE m_pBlockMapping[th[t].key].st # "sized"
    BY <2>4 DEF WriteBlocksFails
  <2> QED BY <2>3, <2>4
<1>6. UNCHANGED <<m_blockAddresses, m_blockAddresses_reserve, m_totalAllocatedBlocks, files, lost>>
  BY DEF WriteBlocksFails, pool
<1> QED BY <1>2, <1>3, <1>4, <1>5, <1>6, SameHandCover

\* A release skips a block and records it, or takes it to its queue.
LEMMA ReleaseCover ==
    ASSUME TInv, LInv, NEW t \in Threads, ReleaseSkip(t) \/ ReleaseInsert(t)
    PROVE  LInv'
<1>1. /\ th[t] \in ThreadState /\ Hand(th[t]) /\ th \in [Threads -> ThreadState]
      /\ th[t].at = "release"
  BY DEF TInv, ThreadsOK, ReleaseSkip, ReleaseInsert
<1>2. th[t].cur = NoBlock
  BY <1>1 DEF Hand
<1>3. UNCHANGED <<m_blockAddresses, m_blockAddresses_reserve, m_totalAllocatedBlocks, files,
                  m_pBlockMapping>>
  BY DEF ReleaseSkip, ReleaseInsert, pool
<1>4. CASE ReleaseSkip(t)
  <2>1. PICK c : th' = [th EXCEPT ![t].rel = @ \ {c}] /\ lost' = lost \cup {c}
    BY <1>4 DEF ReleaseSkip
  <2> DEFINE s == [th[t] EXCEPT !.rel = @ \ {c}]
  <2>2. th' = [th EXCEPT ![t] = s]
    BY <1>1, <2>1
  <2>3. /\ s.old = th[t].old /\ s.key = th[t].key /\ s.got = th[t].got /\ s.at = "release"
        /\ s.rel = th[t].rel \ {c} /\ s.cur = th[t].cur
    BY <1>1 DEF ThreadState
  <2> HIDE DEF s
  <2>4. InHand(th[t]) \subseteq InHand(s) \cup lost' /\ ~Growing(s) /\ lost \subseteq lost'
    BY <2>1, <2>3 DEF InHand, Growing
  <2> QED BY <1>3, <2>2, <2>3, <2>4, SameHandCover
<1>5. CASE ReleaseInsert(t)
  <2>1. PICK c \in th[t].rel : th' = [th EXCEPT ![t].at = "relpush", ![t].rel = @ \ {c}, ![t].cur = c]
    BY <1>5 DEF ReleaseInsert
  <2> DEFINE s == [th[t] EXCEPT !.at = "relpush", !.rel = @ \ {c}, !.cur = c]
  <2>2. th' = [th EXCEPT ![t] = s]
    BY <1>1, <2>1
  <2>3. /\ s.old = th[t].old /\ s.key = th[t].key /\ s.got = th[t].got /\ s.at = "relpush"
        /\ s.rel = th[t].rel \ {c} /\ s.cur = c
    BY <1>1 DEF ThreadState
  <2> HIDE DEF s
  <2>4. c # NoBlock
    BY <1>1, <2>1 DEF ThreadState, Blocks, NoBlock
  <2>5. InHand(th[t]) \subseteq InHand(s) /\ ~Growing(s) /\ lost' = lost
    BY <1>2, <1>5, <2>3, <2>4 DEF InHand, Growing, ReleaseInsert
  <2> QED BY <1>3, <2>2, <2>3, <2>5, SameHandCover
<1> QED BY <1>4, <1>5

\* A released block reaches its queue.
LEMMA ReleasePushCover ==
    ASSUME TInv, LInv, NEW t \in Threads, ReleasePush(t)
    PROVE  LInv'
<1> DEFINE s == [th[t] EXCEPT !.at = "release", !.cur = NoBlock]
<1>1. /\ th[t] \in ThreadState /\ th \in [Threads -> ThreadState]
      /\ m_blockAddresses \in [Blocks -> Nat] /\ m_blockAddresses_reserve \in [Blocks -> Nat]
  BY DEF TInv, ThreadsOK, TypeOK
<1>2. th' = [th EXCEPT ![t] = s]
  BY <1>1 DEF ReleasePush
<1>3. /\ s.old = th[t].old /\ s.key = th[t].key /\ s.got = th[t].got /\ s.rel = th[t].rel
      /\ s.at = "release"
  BY <1>1 DEF ThreadState
<1> HIDE DEF s
<1>4. ~Growing(s) /\ \A b \in InHand(th[t]) : b \in InHand(s) \/ b = th[t].cur
  BY <1>3 DEF InHand, Growing
<1>5. /\ \A b \in Blocks : Queued(b) > 0 => Queued(b)' > 0
      /\ \A b \in Blocks : b = th[t].cur => Queued(b)' > 0
  <2> SUFFICES ASSUME NEW b \in Blocks
               PROVE  (Queued(b) > 0 => Queued(b)' > 0) /\ (b = th[t].cur => Queued(b)' > 0)
    OBVIOUS
  <2>0. m_blockAddresses[b] \in Nat /\ m_blockAddresses_reserve[b] \in Nat
    BY <1>1
  <2>1. CASE b # th[t].cur
    <3>1. m_blockAddresses'[b] = m_blockAddresses[b] /\ m_blockAddresses_reserve'[b] = m_blockAddresses_reserve[b]
      BY <1>1, <2>1 DEF ReleasePush
    <3> QED BY <2>1, <3>1 DEF Queued
  <2>2. CASE b = th[t].cur
    <3>1. \/ /\ m_blockAddresses'[b] = m_blockAddresses[b] + 1
             /\ m_blockAddresses_reserve'[b] = m_blockAddresses_reserve[b]
          \/ /\ m_blockAddresses'[b] = m_blockAddresses[b]
             /\ m_blockAddresses_reserve'[b] = m_blockAddresses_reserve[b] + 1
      BY <1>1, <2>2 DEF ReleasePush
    <3>2. Queued(b)' > 0
      BY <2>0, <3>1 DEF Queued
    <3> QED BY <3>2
  <2> QED BY <2>1, <2>2
<1>6. UNCHANGED <<m_totalAllocatedBlocks, files, m_pBlockMapping, lost>>
  BY DEF ReleasePush
<1>7. \A b \in Blocks : Somewhere(b) => Somewhere(b)'
  BY <1>2, <1>3, <1>4, <1>5, <1>6, CalmCover
<1> QED BY <1>2, <1>4, <1>6, <1>7, ThreadCover

\* The blocks that an operation replaces pass from the posting to the thread.
LEMMA TakeBackCover ==
    ASSUME TInv, LInv, NEW t \in Threads, NEW key \in Keys,
           Delete(t, key) \/ WriteBlocks(t)
    PROVE  LInv'
<1>1. /\ th[t] \in ThreadState /\ Hand(th[t]) /\ th \in [Threads -> ThreadState]
      /\ th[t].at \in {"idle", "pop", "write"}
  BY DEF TInv, ThreadsOK, Delete, MayStart, WriteBlocks, MayWrite
<1>2. th[t].cur = NoBlock /\ th[t].rel = {} /\ th[t].old = {} /\ (th[t].at = "idle" => th[t].got = {})
  BY <1>1 DEF Hand, Releases
<1>3. UNCHANGED <<m_blockAddresses, m_blockAddresses_reserve, m_totalAllocatedBlocks, files,
                  m_pBlockMapping, lost>>
  BY DEF Delete, WriteBlocks, pool
<1>4. PICK s : /\ th' = [th EXCEPT ![t] = s] /\ ~Growing(s)
               /\ s.old = s.rel /\ th[t].got \subseteq s.got
  <2>1. CASE Delete(t, key)
    <3>1. PICK k, o : th' = [th EXCEPT ![t] = [IdleThread EXCEPT !.at = "release", !.key = k,
                                                  !.kind = "delete", !.old = o, !.rel = o]]
      BY <2>1 DEF Delete
    <3> DEFINE s == [IdleThread EXCEPT !.at = "release", !.key = k, !.kind = "delete",
                                       !.old = o, !.rel = o]
    <3>2. s.old = o /\ s.rel = o /\ ~Growing(s)
      BY DEF IdleThread, Growing
    <3>3. th[t].got = {}
      BY <1>2, <2>1 DEF Delete, MayStart
    <3> HIDE DEF s
    <3>4. th' = [th EXCEPT ![t] = s]
      BY <3>1 DEF s
    <3> QED BY <3>2, <3>3, <3>4
  <2>2. CASE WriteBlocks(t)
    <3>1. PICK o : th' = [th EXCEPT ![t].at = "release", ![t].old = o, ![t].rel = o]
      BY <2>2 DEF WriteBlocks
    <3> DEFINE s == [th[t] EXCEPT !.at = "release", !.old = o, !.rel = o]
    <3>2. th' = [th EXCEPT ![t] = s]
      BY <1>1, <3>1
    <3>3. s.old = o /\ s.rel = o /\ ~Growing(s) /\ s.got = th[t].got
      BY <1>1 DEF ThreadState, Growing
    <3> HIDE DEF s
    <3> QED BY <3>2, <3>3
  <2> QED BY <2>1, <2>2
<1>5. Held(t) \subseteq Held(t)' /\ s.old \subseteq Held(t)' /\ th'[t] = s
  BY <1>2, <1>4, Frame DEF Held, InHand
<1>6. \A u \in Threads : u # t => th'[u] = th[u] /\ Held(u)' = Held(u)
  BY <1>4, Frame
<1>7. \A b \in Blocks : Somewhere(b) => Somewhere(b)'
  <2> SUFFICES ASSUME NEW b \in Blocks, Somewhere(b), b \notin Held(t)' PROVE Somewhere(b)'
    BY DEF Somewhere
  <2>1. \A k \in Keys : b \in Live(k) => b \in Live(k)'
    BY <1>3, <1>5, <1>6 DEF Live
  <2>2. Queued(b)' = Queued(b)
    BY <1>3 DEF Queued
  <2>3. \A u \in Threads : b \in Held(u) => b \in Held(u)'
    BY <1>5, <1>6
  <2> QED BY <1>3, <2>1, <2>2, <2>3 DEF Somewhere
<1> QED BY <1>3, <1>4, <1>7, ThreadCover

\* A finished operation leaves its new blocks in its posting.
LEMMA PublishCover ==
    ASSUME TInv, TInv', BInv, LInv, Quiet, NEW t \in Threads, Publish(t)
    PROVE  LInv'
<1>1. /\ UNCHANGED <<m_blockAddresses, m_blockAddresses_reserve, m_totalAllocatedBlocks, files, lost>>
      /\ th' = [th EXCEPT ![t] = IdleThread]
  BY DEF Publish, pool
<1>2. /\ \A b \in Held(t) : \E k \in Keys : b \in Live(k)'
      /\ \A k \in Keys : Live(k) \subseteq Live(k)'
  BY PublishBlocks
<1>3. \A u \in Threads : u # t => Held(u)' = Held(u)
  BY <1>1, Frame
<1>4. \A b \in Blocks : Somewhere(b) => Somewhere(b)'
  <2> TAKE b \in Blocks
  <2> HAVE Somewhere(b)
  <2>1. Queued(b)' = Queued(b)
    BY <1>1 DEF Queued
  <2>2. CASE Queued(b) > 0 \/ b \in lost
    BY <1>1, <2>1, <2>2 DEF Somewhere
  <2>3. ASSUME NEW u \in Threads, b \in Held(u) PROVE Somewhere(b)'
    BY <1>2, <1>3, <2>3 DEF Somewhere
  <2>4. ASSUME NEW k \in Keys, b \in Live(k) PROVE Somewhere(b)'
    BY <1>2, <2>4 DEF Somewhere
  <2> QED BY <2>2, <2>3, <2>4 DEF Somewhere
<1>5. ~Growing(IdleThread)
  BY DEF IdleThread, Growing
<1> QED BY <1>1, <1>4, <1>5, ThreadCover

\* A step of one thread loses no block.
LEMMA ThreadLeaks ==
    ASSUME TInv, TInv', BInv, LInv, Quiet, NEW t \in Threads, ThreadStep(t)
    PROVE  LInv'
<1>1. ASSUME NEW k \in Keys, Delete(t, k) PROVE LInv'
  BY <1>1, TakeBackCover
<1>2. ASSUME WriteBlocks(t) PROVE LInv'
  <2>1. th[t] \in ThreadState /\ Hand(th[t]) /\ th[t].at \in {"pop", "write"}
    BY <1>2 DEF TInv, ThreadsOK, WriteBlocks, MayWrite
  <2>2. th[t].key \in Keys
    BY <2>1 DEF Hand, ThreadState
  <2> QED BY <1>2, <2>2, TakeBackCover
<1> QED BY <1>1, <1>2, StartCover, ExpansionCover, GrowCover, ExpandEndCover, PopCover, ResetCover,
           PopFailsCover, StoreSizeCover, WriteBlocksFailsCover, ReleaseCover, ReleasePushCover,
           PublishCover
        DEF ThreadStep

\* A step that leaves threads, lists and history alone and empties no queue.
LEMMA UntouchedCover ==
    ASSUME LInv, UNCHANGED <<th, m_pBlockMapping, m_totalAllocatedBlocks, lost>>,
           \A b \in Blocks : Queued(b)' = Queued(b)
    PROVE  Covered'
<1>1. \A t \in Threads : Held(t)' = Held(t)
  BY DEF Held
<1>2. \A k \in Keys : Live(k)' = Live(k)
  BY DEF Live
<1>3. \A b \in Blocks : (Somewhere(b)' <=> Somewhere(b)) /\ (Fresh(b)' <=> Fresh(b))
  BY <1>1, <1>2 DEF Somewhere, Fresh
<1> QED BY <1>3 DEF LInv, Covered

\* Checkpoint writes down where every block is.
LEMMA CheckpointLeaks ==
    ASSUME TInv, BInv, LInv, CheckpointStep
    PROVE  LInv'
<1>1. /\ UNCHANGED <<th, m_pBlockMapping, m_totalAllocatedBlocks, lost>>
      /\ \A b \in Blocks : Queued(b)' = Queued(b)
  <2>1. CASE ReloadReserve
    <3>1. /\ \A b \in Blocks : m_blockAddresses_reserve'[b] = 0
          /\ \A b \in Blocks : m_blockAddresses'[b] = m_blockAddresses[b] + m_blockAddresses_reserve[b]
      BY <2>1 DEF ReloadReserve, EmptyQueue
    <3>2. \A b \in Blocks : m_blockAddresses[b] \in Nat /\ m_blockAddresses_reserve[b] \in Nat
      BY DEF TInv, TypeOK
    <3> QED BY <2>1, <3>1, <3>2 DEF ReloadReserve, Queued
  <2>2. CASE ~ReloadReserve
    BY <2>2 DEF CheckpointStep, CheckpointBegin, OpenMappingFails, SaveList, SaveEnd, SaveFails,
                SavePool, SavePoolFails, pool, Queued
  <2> QED BY <2>1, <2>2
<1>2. Covered'
  BY <1>1, UntouchedCover
<1>3. FilesCover'
  <2>1. CASE SavePool /\ ckpt.mapping = "saved"
    <3>1. /\ ckpt.at = "reloaded" /\ UNCHANGED mappingFile
          /\ poolFile' = [free |-> m_blockAddresses, total |-> m_totalAllocatedBlocks, lost |-> lost]
      BY <2>1 DEF SavePool
    <3>2. /\ \A t \in Threads : th[t].at = "idle"
          /\ \A k \in Keys : mappingFile[k] = m_pBlockMapping[k]
          /\ \A b \in Blocks : m_blockAddresses_reserve[b] = 0
      BY <2>1, <3>1 DEF BInv, CheckpointOK
    <3>3. \A t \in Threads : Held(t) = {}
      BY <3>2 DEF Held, InHand, TInv, ThreadsOK, Hand, Releases
    <3>4. \A k \in Keys : Live(k) = BlocksOf(mappingFile[k])
      BY <3>2, AtRest
    <3>5. \A b \in Blocks : Queued(b) = m_blockAddresses[b]
      BY <3>2 DEF Queued, TInv, TypeOK
    <3>6. \A b \in Blocks : b < m_totalAllocatedBlocks => Somewhere(b)
      BY DEF LInv, Covered
    <3>7. ASSUME NEW b \in Blocks, b < m_totalAllocatedBlocks
          PROVE  m_blockAddresses[b] > 0 \/ b \in lost \/ \E k \in Keys : b \in BlocksOf(mappingFile[k])
      BY <3>3, <3>4, <3>5, <3>6, <3>7 DEF Somewhere
    <3> QED BY <3>1, <3>7 DEF FilesCover
  <2>2. CASE SavePool /\ ckpt.mapping # "saved"
    <3>1. ckpt'.mapping # "saved"
      BY <2>2 DEF SavePool, TInv, TypeOK
    <3> QED BY <3>1 DEF FilesCover
  <2>3. CASE SavePoolFails
    <3>1. ckpt.pool # "saved"
      BY <2>3 DEF SavePoolFails, BInv, CheckpointOK
    <3>2. PICK file \in {ckpt.pool, "torn"} :
             ckpt' = [ckpt EXCEPT !.at = "none", !.pool = file, !.failed = @ + 1]
      BY <2>3 DEF SavePoolFails
    <3>3. ckpt'.pool # "saved"
      BY <3>1, <3>2 DEF TInv, TypeOK
    <3> QED BY <3>3 DEF FilesCover
  <2>4. CASE ~SavePool /\ ~SavePoolFails
    <3>1. ckpt'.at # "none"
      BY <2>4 DEF CheckpointStep, CheckpointBegin, OpenMappingFails, SaveList, SaveEnd, SaveFails,
                  ReloadReserve, TInv, TypeOK
    <3> QED BY <3>1 DEF FilesCover
  <2> QED BY <2>1, <2>2, <2>3, <2>4
<1> QED BY <1>2, <1>3 DEF LInv

\* Recovery starts from files that account for every block.
LEMMA RecoverLeaks ==
    ASSUME TInv, BInv, LInv, Quiet, CrashAndRecover
    PROVE  LInv'
<1>0. ckpt.at = "none" /\ ckpt.mapping = "saved" /\ ckpt.pool = "saved"
  BY DEF CrashAndRecover, MayRecover, Quiet, BInv, CheckpointOK
<1>1. /\ UNCHANGED <<mappingFile, poolFile>>
      /\ m_totalAllocatedBlocks' = poolFile.total /\ lost' = poolFile.lost
      /\ \A b \in Blocks : m_blockAddresses'[b] = IF poolFile.free[b] > 0 THEN 1 ELSE 0
      /\ \A b \in Blocks : m_blockAddresses_reserve'[b] = 0
  BY DEF CrashAndRecover, EmptyQueue
<1>2. \A t \in Threads : th'[t].old = {} /\ th'[t].at = "idle"
  BY DEF CrashAndRecover, IdleThread
<1>3. \A k \in Keys : BlocksOf(m_pBlockMapping'[k]) = BlocksOf(mappingFile[k])
  <2> SUFFICES ASSUME NEW k \in Keys
               PROVE  BlocksOf(Loaded(mappingFile[k])) = BlocksOf(mappingFile[k])
    BY DEF CrashAndRecover
  <2>1. BlocksOf(EmptyList) = {}
    BY DEF EmptyList, NoList, BlocksOf
  <2> QED BY <2>1 DEF Loaded, BInv, FilesOK
<1>4. \A k \in Keys : Live(k)' = BlocksOf(mappingFile[k])
  BY <1>2, <1>3 DEF Live
<1>5. FilesCover
  BY DEF LInv
<1>6. Covered'
  <2> SUFFICES ASSUME NEW b \in Blocks, b < m_totalAllocatedBlocks' \/ Fresh(b)'
               PROVE  Somewhere(b)'
    BY DEF Covered
  <2>1. b < poolFile.total
    BY <1>1, <1>2 DEF Fresh
  <2>2. CASE poolFile.free[b] > 0
    <3>1. Queued(b)' > 0
      BY <1>1, <2>2 DEF Queued
    <3> QED BY <3>1 DEF Somewhere
  <2>3. CASE b \in poolFile.lost
    BY <1>1, <2>3 DEF Somewhere
  <2>4. CASE \E k \in Keys : b \in BlocksOf(mappingFile[k])
    BY <1>4, <2>4 DEF Somewhere
  <2> QED BY <1>0, <1>5, <2>1, <2>2, <2>3, <2>4 DEF FilesCover
<1>7. FilesCover'
  BY <1>0, <1>1, <1>5 DEF FilesCover
<1> QED BY <1>6, <1>7 DEF LInv

\* Every block of the first file is free.
LEMMA InitLeaks == Init => LInv
<1> SUFFICES ASSUME Init PROVE LInv
  OBVIOUS
<1>1. \A b \in Blocks : b < StartBlocks => m_blockAddresses[b] = 1 /\ m_blockAddresses_reserve[b] = 0
  BY DEF Init, EmptyQueue
<1>2. \A b \in Blocks : ~Fresh(b)
  BY DEF Init, Fresh, IdleThread
<1>3. Covered
  <2> SUFFICES ASSUME NEW b \in Blocks, b < StartBlocks PROVE Queued(b) > 0
    BY <1>2 DEF Covered, Somewhere, Init
  <2> QED BY <1>1 DEF Queued
<1>4. FilesCover
  <2>1. poolFile.free = m_blockAddresses /\ poolFile.total = StartBlocks
    BY DEF Init
  <2> QED BY <1>1, <2>1 DEF FilesCover
<1> QED BY <1>3, <1>4 DEF LInv

\* Every step preserves it.
LEMMA NextLeaks == ASSUME Quiet PROVE TInv /\ TInv' /\ BInv /\ LInv /\ [Next]_vars => LInv'
<1> SUFFICES ASSUME TInv, TInv', BInv, LInv, [Next]_vars PROVE LInv'
  OBVIOUS
<1>1. CASE \E t \in Threads : ThreadStep(t)
  BY <1>1, ThreadLeaks
<1>2. CASE CheckpointStep
  BY <1>2, CheckpointLeaks
<1>3. CASE CrashAndRecover
  BY <1>3, RecoverLeaks
<1>4. CASE UNCHANGED vars
  <2>1. Covered'
    BY <1>4, UntouchedCover DEF vars, Queued
  <2>2. FilesCover'
    BY <1>4 DEF vars, LInv, FilesCover
  <2> QED BY <2>1, <2>2 DEF LInv
<1> QED BY <1>1, <1>2, <1>3, <1>4 DEF Next

-----------------------------------------------------------------------------
\* The inductive invariant holds in every reachable state.
THEOREM BlocksInvariant == ASSUME Quiet PROVE Spec => [](TInv /\ BInv)
<1>1. TInv /\ BInv /\ [Next]_vars => TInv' /\ BInv'
  BY NextTypes, NextBlocks
<1>2. Init => TInv /\ BInv
  BY InitTypes, InitBlocks
<1> QED BY <1>1, <1>2, PTL DEF Spec

\* No block is used twice ("Block %lld double used!", ExtraFileController.h:956-959),
\* whatever the number of threads, postings and blocks, however often Checkpoint fails
\* to save a file, and wherever the process dies while both files are saved.
THEOREM NoDoubleUse == ASSUME Quiet PROVE Spec => []BlockUsedOnce
<1>1. TInv /\ BInv => BlockUsedOnce
  BY DEF BInv
<1> QED BY <1>1, BlocksInvariant, PTL

\* Once Save has written the mapping its pages are never overwritten
\* (ExtraFileController.h:883), until the next Checkpoint begins and even if the pool
\* could not be saved after it (122-131).  Without the premise that Save has written it
\* this is false: its result is not looked at (1242, SuccessProtectsPages).
THEOREM CheckpointSafe == ASSUME Quiet PROVE Spec => []CheckpointIntact
<1>1. TInv /\ BInv => CheckpointIntact
  BY DEF BInv
<1> QED BY <1>1, BlocksInvariant, PTL

\* Two files that one Checkpoint has saved agree (ExtraFileController.h:102-201,
\* 1175-1192), however many Checkpoints before it have failed to save one.
THEOREM RecoveryAgrees == ASSUME Quiet PROVE Spec => []SavedFilesAgree
<1>1. TInv /\ BInv => SavedFilesAgree
  BY DEF BInv
<1> QED BY <1>1, BlocksInvariant, PTL

\* A reader that follows a published list without a lock meets no page that a
\* writer is overwriting (ExtraFileController.h:692, 708).
THEOREM ReadersSafe == ASSUME Quiet PROVE Spec => []PublishedNotOverwritten
<1>1. TInv /\ BInv => PublishedNotOverwritten
  <2> SUFFICES ASSUME TInv, BInv, NEW t \in Threads, NEW k \in Keys,
                      NEW b \in th[t].got, b \in BlocksOf(m_pBlockMapping[k])
               PROVE  FALSE
    BY DEF PublishedNotOverwritten
  <2>1. b \in Blocks /\ b \in Held(t)
    BY DEF TInv, ThreadsOK, ThreadState, Held, InHand
  <2>2. CASE b \in Live(k)
    BY <2>1, <2>2 DEF BInv, BlockUsedOnce
  <2>3. CASE b \notin Live(k)
    <3>1. PICK u \in Threads : b \in th[u].old
      BY <2>3 DEF Live
    <3>2. Kept(b) /\ b \in Taken(th[t])
      BY <3>1 DEF Kept, Taken
    <3> QED BY <2>1, <3>2 DEF BInv, KeptBlocks
  <2> QED BY <2>2, <2>3
<1> QED BY <1>1, BlocksInvariant, PTL

\* No block of the data file leaks except in the two recorded ways, through every
\* interleaving of allocations, releases and failed writes, expansion, checkpoints that
\* succeed or fail and recoveries (ExtraFileController.h:102-201, 883-906, 1075-1138).
THEOREM NothingElseLeaks == ASSUME Quiet PROVE Spec => []NoOtherLeak
<1>1. Init => LInv
  BY InitLeaks
<1>2. TInv /\ BInv /\ LInv /\ [Next]_vars /\ TInv' => LInv'
  BY NextLeaks
<1>3. TInv /\ LInv => NoOtherLeak
  <2> SUFFICES ASSUME TInv, LInv, NEW b \in 0 .. m_totalAllocatedBlocks - 1 PROVE Somewhere(b)
    BY DEF NoOtherLeak, Somewhere
  <2>1. b \in Blocks /\ b < m_totalAllocatedBlocks
    BY SizesAssumption DEF TInv, TypeOK, Blocks
  <2> QED BY <2>1 DEF LInv, Covered
<1> QED BY <1>1, <1>2, <1>3, BlocksInvariant, PTL DEF Spec
=============================================================================
