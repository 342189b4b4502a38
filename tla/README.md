# A verification project for RAG_StormX (SPTAG / SPFresh)

The repository is a fork of SPTAG, a C++ library for approximate nearest-neighbour
search, with further storage backends for its disk-based index: a TiKV client in C++
with a sidecar in Go, and an Aerospike client. Its hardest code is the *updatable*
disk index (SPANN with the SPFresh rebalancer). Vectors are kept in posting lists on
disk, one per head of an in-memory index. Inserts, deletes and searches change and read
the lists while background jobs split, merge and rebalance them, and a checkpoint saves
the whole while the process may die at any moment. This project models that code in
TLA+, checks the models with TLC on small instances and proves the central results about
the job pool and the block store with TLAPS. Further models cover the write-ahead log with
the recovery, the clients of TiKV and Aerospike against an abstract posting store, the
sidecar in Go, and the search service with its client and aggregator.

Paths below are relative to `src/SPTAG/AnnService/`; `EDS` is
`inc/Core/SPANN/ExtraDynamicSearcher.h` and `FC` is
`inc/Core/SPANN/ExtraFileController.h` with `src/Core/SPANN/ExtraFileController.cpp`;
the sidecar is `tikv_uds/main.go` of the repository.

## 1. Inventory

How the parts interact, from the caller down:

    client threads                    Index::Checkpoint (m_checkPointLock)
      | AddIndex, DeleteIndex, Search      | waits on AllFinished
      v                                    v
    SPANN index facade -------> ExtraDynamicSearcher <-------> head index (BKT/KDT)
                                 |  ^       |    |               ContainSample, AddIndexId,
                add(job)         |  | exec  |    |               AddIndexIdx, DeleteIndex
                                 v  |       |    v
                               ThreadPool   |   write-ahead log (PersistentBuffer)
                                            v
                            KeyValueIO: FileIO | TiKV | Aerospike | RocksDB | SPDK
                                          |
                                     BlockController, LRU cache, data file

    search client ---> aggregator ---> search servers     (each with an index of its own)
    connections on a Unix socket ---> sidecar (tikv_uds) ---> TiKV

| Component | State | Operations | What is hard about it | What makes it correct |
|---|---|---|---|---|
| Job pool (`inc/Helper/ThreadPool.h`; `SPDKThreadPool` in EDS) | job queue, running counter, stop flag, mutex, condition variable | `add`, `get`, `allClear`, destructor | flag and counter are used without the lock; jobs add jobs | no job is lost or run twice; `allClear` may be relied on; no lost wake-up |
| File posting store (FC) | queue of free blocks, queue of reserved blocks, availability labels, file size, posting mapping, two checkpoint files | `Put`, `Merge`, `Delete`, `Get`, `GetBlocks`, `ReleaseBlocks`, `ExpandFile`, `Checkpoint`, `Load` | lock-free queues and labels, copy on write, growth, failing writes, crash between two files | a block has one owner; a checkpoint survives everything done after it |
| LRU cache of that store (FC) | lists and maps per shard | get, put, merge, evict, flush | eviction writes; failure paths | a cached posting is the newest one |
| Rebalancer (EDS) | posting locks, `m_mergeLock`, `m_splitList`, `m_mergeList`, job queue, sizes, versions | `AddIndex`, `DeleteIndex`, `Append`, `Split`, `MergePostings`, `Reassign`, `CollectReAssign`, search-triggered merges | four kinds of writers on the same lists, locks dropped between phases, early returns | no vector is lost, no posting outgrows its limit, no lock or list entry is left behind, the queue drains |
| Version labels, sizes, striped locks (`inc/Core/Common/`) | a byte per vector, a counter per posting | `IncVersion`, `Delete`, `UpdateSize`, ... | compare-and-swap after a separate test; seven-bit versions | a deleted vector stays deleted; sizes agree with the store |
| Head index (BKT, KDT) | samples, deleted labels, tree, graph | add in two halves, delete, search, rebuild | the two halves of an add; rebuild in the background | a head is visible only with its posting |
| Write-ahead log and recovery (EDS, `PersistentBuffer.h`) | log in a key-value store, checkpoint files | put, scan, truncate, `Checkpoint`, `LoadIndex` | files are saved one after the other; truncation races inserts; the replay writes the log it reads | nothing acknowledged is lost, by a crash or by a recovery |
| TiKV store (`ExtraTiKVController.h`) | region cache shared by all threads, requests | get, put, merge, delete, multi-get | read-modify-write over a network; retries of what may have been done; stale regions | a successful call has taken effect once; a retry is harmless; a moved region is found again |
| Aerospike store (`AerospikeKeyValueIO`) | client handle | the same interface | append with a fallback; no timeout | as above |
| TiKV sidecar (`main.go`) | connections, a semaphore, a goroutine per request | health, get, multi-get, put, delete | goroutines share a writer and a semaphore; contexts expire; connections close under them | one whole answer per request, on its connection; no slot is lost |
| RocksDB and SPDK stores | library state; a block pool | the same interface | - | - |
| Search service (socket, server, client, aggregator) | connections, pending requests with timers, counters | send, receive, time out, fan out, reconnect | timeouts racing late answers; counters changed outside their lock; connections replaced in the background | one callback per query, one answer per query, no wait that ends early or never |
| Static searcher, head selection, build, distances, quantizers, trees, graphs, readers, tools, wrappers, GPU | - | batch computation, numeric kernels, I/O | numeric | recall, out of TLC's reach |

`PROJECT.json` lists the components with their status, and the hazards with the line at
which each would bite.

## 2. What is modelled

### ThreadPool

`m_jobs`, `currentJobs`, `m_stopped`, `m_lock` are the fields of the class; `pc` and
`job` are the local state of the threads and `destroyer` that of the destructor.

| Actions | Code |
|---|---|
| `Push`, `NotifyOne` | `add`: the push under the lock, the notification after it |
| `Acquire`, `LoopTest`, `Wait`, `SpuriousWake`, `Take`, `GetFalse` | `get`, with the window between the test of the flag and the wait |
| `FinishJob` | the rest of the worker's loop |
| `AllClearSize`, `AllClearCount` | the two reads of `allClear`; polled, as `AllFinished` is |
| `SetAbort`, `NotifyAll`, `Join` | the destructor |

A job is executed between `Take` and `FinishJob` and may add jobs meanwhile, as splits
and merges do. Memory order is sequentially consistent.

### FileIO (with MCFileIO)

The fields of `BlockController` and `FileIO` keep their names. A queue is the number of
times it holds each block (the order of a concurrent queue is not relied on). A posting's
list is a status, its full pages and its partly filled last page. Page contents are
abstracted to one question, asked by `dirty`: has a page that a saved list names been
written since? `th` holds the operation of each thread, `mappingFile` and `poolFile` the two
files of the checkpoint, `lost` records blocks that have leaked, and `ops` bounds a
behaviour. `ckpt.mapping` and `ckpt.pool` say what the last checkpoint has made of each
file: `"saved"`, `"stale"` (still that of an earlier checkpoint) or `"torn"` (written in part).
A recovery is considered when both are `"saved"`; with `RecoverStale`, also when one of
them is stale. One from a torn file is not modelled: a torn pool is refused, a torn mapping
is not, and leaves lists uninitialized (FC:538).

| Actions | Code |
|---|---|
| `Put`, `Merge`, `Delete` | entry of the operation: limits, what it needs, keeps and gives back |
| `CheckExpansion`, `SkipExpansion`, `ExpandFileFails`, `ExpandFile`, `ExpandPush`, `ExpandInsert`, `ExpandEnd` | first half of `GetBlocks`, `ExpandFile`; a block is queued before it is labelled |
| `Pop`, `Reset`, `PopFails` | the pops of `GetBlocks`; a queue that runs dry |
| `StoreSize`, `WriteBlocks`, `WriteBlocksFails` | the size stored early, the write and its failure |
| `ReleaseSkip`, `ReleaseInsert`, `ReleasePush` | `ReleaseBlocks`, per block |
| `Publish` | the exchange of the block address list |
| `CheckpointBegin`, `SaveList`, `SaveEnd`, `ReloadReserve`, `SavePool` | `FileIO::Checkpoint`, `Save`, `BlockController::Checkpoint` |
| `OpenMappingFails`, `SaveFails`, `SavePoolFails` | the error paths of the two saves: the file is not opened, or written in part. `Checkpoint` drops the result of `Save` (FC:1242), so the first two go on with `ReloadReserve`; the third ends the checkpoint with an error and the reserve reloaded |
| `CrashAndRecover` | death of the process; `Load`, `LoadBlockPool` |

The callers hold the lock of the posting, so at most one thread works on a key.
Abstracted: page order, the recycling of address arrays through `m_buffer`, the growth of
the mapping with the posting ids. An operation on a list that a failed first put has left
broken (a size without addresses) computes with the address -1; its effect is undefined
and the model continues such a behaviour only with a checkpoint or a crash.

### DynamicSearcher (with MCDynamicSearcher)

The rebalancer with what it uses of the head index, the versions, the sizes and the
locks. `head` is the life of each head id (free, added by `AddIndexId`, visible after
`AddIndexIdx`, deleted), `translate` the vector a head stands for, `db` the posting lists
in the store as sequences of entries (vector, version), `sizes` and `rows` are
`m_postingSizes`, `rwLocks` the striped posting locks. `jobs` is the queue of the pool;
`th` is what each thread does. The queue is the one that ThreadPool models in detail:
`TakeJob` is `Take`.

| Actions | Code |
|---|---|
| `AddIndex`, `DeleteIndex`, `SearchIndex` | calls of clients; a search that reads a short posting queues a merge |
| `TakeJob` | a worker executes the oldest job |
| `NextReplica`, `AppendHeadMiss`, `AppendCheck`, `AppendRecheck`, `AppendFull`, `AppendMerge`, `AppendFails`, `AppendEnd` | `Append` and the loops of `AddIndex` and `Reassign` around it |
| `SplitMissing` ... `SplitErase` | `Split`: each early return, the clusters one at a time, a new head in its four steps (id, version, posting, row) |
| `CollectReAssign` | which vectors have to move |
| `MergeRequeue` ... `MergeWriteBackFails` | `MergePostings`, with each early return |
| `ReassignStale`, `ReassignNotNeeded`, `ReassignSelect`, `ReassignCheck`, `ReassignIncVersion` | `Reassign`, with `IncVersion` in two halves |

Geometry is a free choice: which heads a search returns, how k-means divides a list, which
vectors lie closer to another head. So a property that holds, holds for every distance
function. Work on one posting under its lock is one step unless something outside the
lock can interfere. A version is a number modulo `VersionMask + 1` (0x7f in the code) with
the deleted mark outside it, as in the byte. The scans that keep some entries of a list are
`Filter`, a recursive function of the position, so that it can be reasoned about.

### Recovery

Clients, the jobs of the pool, the thread in `Index::Checkpoint`, the process that dies and
the thread that loads the index. `disk` is what the files of the last checkpoint hold,
`log` the records in RocksDB by key; the rest is memory and is lost in a crash. `added`,
`tried` and `removed` record what clients were told. A posting is the set of the ids it
holds, a split a single step (DynamicSearcher has its parts; FileIO shows that the pages of
a checkpoint survive what is written after it). A key of the log is an integer in the order
of its bytes: `Before` compares two bytes of `Base` values each.

| Actions | Code |
|---|---|
| `Reserve` | `AddIndexSPFresh` (`SPANNIndex.cpp`), under `m_checkPointLock`, or `Index::AddIndex`, without it: new rows of the version map |
| `StartDelete` | the caller of `DeleteIndex` |
| `GetNewAssignmentID`, `PutAssignment` | `PersistentBuffer`: the key is taken, then the record is written |
| `FinishAdd`, `FailAdd`, `FinishDelete` | the appends or the mark, then the answer to the caller |
| `Compact`, `Split` | a split job that finds room, and one that divides the posting |
| `CheckpointBegin`, `CheckpointLock` | `Index::Checkpoint`: wait for the jobs, then the lock |
| `SaveVersionMap`, `SaveSums`, `SaveStore`, `DeleteRange`, `ResetSize`, `SaveHeads`, `CheckpointFails` | the files one by one, `ClearPreviousRecord` in its two steps, the head index last |
| `Crash` | death of the process |
| `LoadIndex`, `ReplayAdd`, `ReplayDelete`, `ReplayEnd` | `LoadIndex`: the files, `StartToScan`, each record with `NextToScan`, the wait for the jobs |

### PostingStore, RemoteStore, TiKVIO, AerospikeKeyValueIO, RemoteStores

`PostingStore` is the abstract specification of a `KeyValueIO`: a call takes effect at one
moment between its start and its return, success means that it has, failure leaves it open.
It states two weaknesses that the code has (see the head of the module): `Delete` may
report success in vain, and `Merge` may replace a posting where `replaces` is true.

`RemoteStore` has what both clients share: the calls, the requests, and a network and a
server that execute, refuse, lose or delay them. The two client modules extend it and
`RemoteStores` composes them. `call` and `rpc` are the local state of a thread in a call,
`cache` is `m_regionCache`, `epoch` the region as it is.

| Actions | Code |
|---|---|
| `FindRegionForKey`, `AskPD`, `GetRegionFromPD`, `CacheRegion`, `PDFails`, `NoStub` | `GetStubForKey`, `SetContext`, `FindRegionForKey`: two look-ups per attempt, PD and its failures |
| `TiKVAnswered`, `TiKVDeleteUnanswered`, `TiKVRetry` | the answer in `Get`, `Put`, `Delete`; `Finish` goes from the read to the write of `Merge` |
| `AerospikeStart`, `NotConnected`, `MergeFallback`, `AerospikeAnswered` | `AerospikeKeyValueIO.cpp` |
| `Serve`, `Refuse`, `ServerError`, `Break`, `ServeLate`, `Move` | external: server and network |

The refinement mapping (`AbstractCall`) takes the moment at which the server executes the
request for the moment at which the call takes effect (`done`), and everything between
attempts for stuttering. `Promised` sets `replaces` for TiKV; `Expected` does not.

### Sidecar (with MCSidecar)

`task` is the goroutine of each request, `limit` the number of elements in the channel
`workerLimit`, `mu` the mutex of each connection's writer, `wire` what each connection has
been sent, in pieces. `seen` records the values a key had while a read ran.

| Actions | Code |
|---|---|
| `Read`, `Close` | the loop of `handleConn` and its returns |
| `Acquire`, `Succeed`, `Fail`, `Expire` | `handleGet`, `handleMultiGet` batch by batch, `handlePut`, `handleDelete` with their contexts |
| `WriteHeader`, `WriteBody` | `syncWriteStatus` |
| `Serve` | external: TiKV executes the request |

### ResourceManager, Aggregator, SearchService (with MCSearchService)

`ResourceManager` is the table of callbacks with its list of timeouts. `Aggregator` and
`SearchService` each instantiate it; `SearchService` composes the client program with the
aggregator. Every server gets at most one request per query; the answer that
`AggregateResults` sends is counted in `answers`.

| Actions | Code |
|---|---|
| `SearchRequest`, `SendRequest`, `Write`, `WriteFails`, `SearchResponse`, `TimeoutCallback` | `SearchRequestHanlder`, `SearchResponseHanlder`; each ends in `Callback`, which counts and may answer |
| `ConnectToPendingServers`, `Connect`, `ConnectFails`, `SetConnectionID`, `SetConnected`, `ConnectionFails` | the timer and the tasks that connect; `RemoveConnection` and its event |
| `SendQueryAsync`, `PostPacket`, `WaitAllFinished`, `SpuriousWakeup` | `Client/main.cpp`, `ClientWrapper.cpp` |
| `WriteQuery`, `WriteQueryFails`, `ClientSearchResponse`, `ClientTimeout` | the threads of the socket and of the timeouts |
| `RunCallback`, `Decrease`, `Notify` | the steps that are left for an answer, a failure or a timeout, in the order of the code |
| `LinkFails`, `Reconnect`, `SetLink` | `HandleDeadConnection` |

## 3. What is checked

`CHECK_DEADLOCK FALSE` is in every configuration because the inputs are bounded (jobs,
operations, vectors, merges): when they are used up the system rightly stops. That nothing
gets stuck before that is what the liveness properties say.
Symmetry over threads, postings and vectors is used in runs of invariants only; block numbers and
head ids are ordered and never permuted. The operators whose names start with `Mutant` are
plausible defects of the code, each written in front of the definition it would replace;
no specification uses them. Replacing the definition by its mutant violates the property
that `PROJECT.json` names beside it, so no property holds by the shape of its model.

### Runs that hold

| Run | Instance | Shows |
|---|---|---|
| `pool` | 2 workers, 1 client, 3 jobs | `ExactlyOnce`: no job is run twice. `ClearCoversEarlierJobs`: a true `allClear` covers every job added before the call. `EveryJobRuns`: no wake-up is lost. `DestructorCompletes`: the destructor returns unless a worker is between its test of the flag and its wait at that moment. |
| `file_safety` | 2 writers, 2 postings of up to 2 pages, a file of 2 to 3 blocks, 3 operations; failing writes, dry pool, expansion, checkpoints of which one save may fail, crashes that find two files of one checkpoint | `BlockUsedOnce`: what `FileIO::Check` looks for, at every instant and for blocks in flight too. `CheckpointIntact`: no page of a saved mapping is overwritten, also when the pool could not be saved or an earlier save had failed. Of a mapping that could not be saved it says nothing (see `FileIOSaveIgnored.cfg`). `SavedFilesAgree`: a mapping and a pool that one checkpoint has saved agree, whatever failed before. `PublishedNotOverwritten`: a reader without a lock never sees a page of the list it read being rewritten for a new list before the old list is replaced. `NoOtherLeak`: blocks leak in two known ways only. |
| `searcher_split` | 2 workers, 1 client, 4 vectors, up to 4 heads | `NoVectorLost` with appends, splits, reassignments and a delete, and `PostingBounded`. |
| `searcher_merge` | 1 worker, 1 client, 5 vectors, up to 3 heads | `NoVectorLost` and `NoStuckHead` with merges and splits that never overlap with each other, only with the client. |
| `searcher_failures` | 2 workers, 1 client, 4 vectors, up to 4 heads, every store call may fail | `SizesMatch`: the recorded size is the stored length whenever the lock is free. `LocksReleased`: no early return keeps a posting lock. |
| `searcher_settles` | 2 workers, 1 client, 3 vectors, 2 heads, 3 merges | `Settles`: if nobody calls the index, the queue drains, although merges put themselves back into it. |
| `recovery` | 2 clients, 3 vectors, 3 heads, 3 records, 1 crash outside a checkpoint | `AckedDurable`: whenever the process may die, files and log together hold what was acknowledged. `AckedVisible`: after every recovery it is found, or deleted, as the caller was told. `SumsMatch`: sizes and checksums describe the postings that come back. `LogTruncated`: a checkpoint leaves no record behind, also of a log that a replay has extended. `RecoveryCompletes`. |
| `remote_stores` | each client, 2 threads, 1 posting, 2 entries, 2 calls, 1 fault, 1 move of the region | `KeepsPromise`: both clients implement `PostingStore`. `MoveTolerated`: a move alone costs no call its success, although the other thread may cache the old region again (with two threads; see below). `CallsReturn`: every call to TiKV returns. |
| `sidecar` | 2 connections, 2 requests, a semaphore of 1, batches of 1 | `SlotsMatch`: the semaphore holds one element per running call. `AnswersIntact`: answers are whole, on the right connection, once. `ReadsCurrent`: a position of a list gets a value its key had while the request ran. `AnsweredUnlessStarved`: requests with a timeout are answered unless calls without one hold every slot. |
| `service` | 1 query to 2 servers with a lost connection; 2 queries to 1 server | `AggregatesOnce`, `CallbackOnce`: one aggregated answer and one callback per query, whatever answers, timeouts and sends interleave. `OpenConnectionUsed`: a late task never hides an open connection, and a server whose connection was lost in use waits to be tried again; two kinds of servers that the code gives up (`givenUp`, below) are excepted from the second part. `FinishedMeansAnswered`, `WaitReturns`: `WaitAllFinished` returns neither early nor never. `EveryQueryReturns`, `AggregatorAnswers`. A query or request that could not be written is excepted where the property says so. |

Why the bounds are enough. The hazards need two actors on one object: two workers (or a
worker and a client) on one posting, two writers on one pool, two holders of a stripe, and
the limits are so low that overflow, a dry pool, growth at the cap, splits of split
postings and merges of merged ones occur in a few operations. One save of a
checkpoint may fail (`MaxSaveFailures`), before or after checkpoints that save both files;
with 2, for both files of a checkpoint or two in a row, the run holds too and takes more
than twice as long. The theorems have no such bound. Two postings share a
stripe when there are more heads than stripes. All actions fire in these runs. `MaxOps`,
`MaxHeads`, `MaxDeletes`, `MaxMerges`, `MaxMoves` and the sets of vectors and jobs are the
only bounds. A split that would need a head beyond `MaxHeads` waits, which hides states
but adds none. For the same reason `NoVectorLost` and `NoStuckHead` speak
of the quiescent states that are reached within the bound.

In `recovery` three records are enough for an addition and the deletion of its vector on
both sides of a checkpoint, and for a replay that grows the log. In `remote_stores` one
fault and one move with two threads use up the attempts of a call. `CounterSize` is 4
where the code has 2^32: a counter that is decreased once too often wraps in both. In
`service` one loss of any connection is enough for a reconnection whose old task is still
running; two queries are enough for the second to meet late answers of the first. The
bounds are `MaxVid`, `MaxHead`, `MaxLog`, `MaxCrashes`; `MaxCalls`, `MaxFaults`, `MaxMoves`;
`MaxReq`; `MaxLosses` and the sets in `MCSetups`. `TypeOK` of RemoteStore and of
Sidecar documents the state and holds too; no run lists it, because `KeepsPromise` and
`SlotsMatch` say more about the same variables.

Fairness. `FairSpec` of ThreadPool and of DynamicSearcher is weak fairness of each thread
that has something to do: the operating system schedules every runnable thread and every
job terminates. Nobody has to add a job, call the index or destroy the pool, and no
spurious wake-up is owed. Locks need no strong fairness: the runs hold without it.
Recovery: the thread that loads the index and the jobs run on; nobody has to call, to take
a checkpoint or to crash. RemoteStores: the threads in a call to TiKV run on, and a request
is answered or its deadline passes, since the client sets one; nothing is assumed of
Aerospike, whose timeout 0 waits for ever. Sidecar: goroutines run, a context with a timeout
expires, and a call returns when its context has; nothing is assumed of calls without one.
A peer reads what it is sent: the deadlines of a connection are cleared (`main.go:110`), so
that `Flush` (`main.go:229`) could block for ever with `writeMu` held for a peer that does
not, which holds up the answers of that connection and no other.
SearchService: the threads and timers of both programs run on; no server, network or user
is obliged to do anything.

### Runs that find a disagreement

Each run has one property, which says what a comment says, and TLC shows a behaviour of
the code that violates it.

| Run | Behaviour |
|---|---|
| `recovery_replay` | A vector is added and deleted, and the process dies. The replay repeats the addition (EDS:2208), which writes it to the log again (EDS:3004) under the key after the one just read: the record of the deletion is overwritten. The iterator still sees it, a second recovery does not. When the process dies before a checkpoint, the deleted vector is back, although the replay is there to "recover the previous WAL" (EDS:2172). |
| `remote_merge` | The read of a `Merge` fails after its attempts, because PD does not answer or the server reports an error (a single lost answer is retried). The client takes this for "Key doesn't exist yet, just put the new value." (`ExtraTiKVController.h:326`), replaces the posting by the new entry and reports success. |

### Further configurations

Seven configurations leave an assumption of the runs above out, or ask for more than they
do, and TLC finds the property violated. They show why the assumption is there.

| Configuration | Property | Behaviour |
|---|---|---|
| `ThreadPoolIdle.cfg` | `ClearMeansIdle` | `allClear` reads the queue length, then the running job adds a job and finishes, then `allClear` reads the counter: it returns true with a job queued. The wait announced by "Waiting for index update complete" ends early. |
| `FileIOCrashInCheckpoint.cfg` | `CheckpointIntact` | The process dies after the mapping and before the pool has been saved, or after a checkpoint that could not save the pool. The recovered store takes saved pages for free and overwrites them (`RecoverStale`). |
| `FileIOSaveIgnored.cfg` | `SuccessProtectsPages` | A posting is put and a checkpoint saved; the posting is deleted, which puts its page into the reserve. The next checkpoint cannot open the mapping file (FC:1204). The result of `Save` is dropped (FC:1242), the reserve becomes free (FC:110-113), the pool is saved and the call returns Success, so that the caller empties the log ("Checkpoint done, delete previous record", EDS:3229). The next put overwrites the page, which the mapping on disk still names, although new blocks are taken "To ensure the effectiveness of the checkpoint" (FC:883). |
| `SearcherMergeFlag.cfg` | `NoVectorLost` | A merge that finds `m_mergeLock` taken creates its job again with the reassign flag inverted (EDS:1248). It later runs without reassignment and the vector of the head it removes is lost. |
| `SearcherMergeRace.cfg` | `NoVectorLost` | A reassignment moves a vector into the candidate of a running merge. The merge recognises duplicates by id alone, keeps the stale entry and drops the valid one. |
| `SearcherDelete.cfg` | `StaysDeleted` | `DeleteIndex` between the two halves of `IncVersion`: the vector is no longer deleted. |
| `SearcherMergeLock.cfg` | `Settles` | The last write of `MergePostings` fails and the function returns without unlocking `m_mergeLock`; later merges go round the queue for ever and Checkpoint never gets past its wait. |

### Observations that have no run of their own

They concern assumptions of the runs above, are recorded with the hazards and can be
reproduced by changing a constant.

* With `ConcurrentWriters = TRUE` (inserts, and merges started by searches, do not take
  `m_checkPointLock`) `CheckpointIntact` fails: a page is released after its list has been
  saved, the same checkpoint makes it free, and it is overwritten.
* A release that meets a label set late by `ExpandFile` skips its block as released
  already, and the block leaks. `NoOtherLeak` records this leak in `lost`.
* A failed first put into a list that a recovery made leaves a size without addresses.
* A merge reads the size of its candidate before it locks it, so a merged posting may be
  longer than the limit plus the buffer, until the next append splits it. `PostingBounded`
  allows `m_mergeThreshold` entries on top as soon as there are merges; without merges,
  as in `searcher_split`, it is the plain limit.
* After a failed read in `Split` the head stays in `m_splitList` and is not split by a job
  again; `NoStuckHead` is checked without failures.
* Recovery: with `CheckpointBreaks = TRUE` (the process dies, or a save fails, within
  Checkpoint) `AckedVisible` and `SumsMatch` fail, since the log is emptied before the head
  index is saved. With `DeletesDuringCheckpoint` or `PlainAdds` a record is written while
  the log is truncated, and `AckedVisible` fails after a crash. With `Base = 2`, which
  stands for more than 256 records, `LogTruncated` fails: the range from 0 to `_size` is
  one of bytes.
* Remote stores: with `Stragglers = TRUE` (a request is executed after its call has
  returned) `KeepsPromise` fails for both clients. After two moves, or with three threads that
  put the old region back in turn, three attempts are not always enough. When `GetStoreAddress`
  fails, a region without an address is cached, and calls of other threads fail that met
  no fault.
* Service: a request or a query that cannot be written calls back and leaves its callback
  registered, so that it is counted again at its timeout: the answer is sent early or
  twice, the callback runs twice, and `m_unfinishedJobCount` wraps. The timeout decreases
  the count before it calls back. The wait has no predicate, so a spurious wake-up ends it.
  A server of which an attempt to connect fails, or whose name cannot be resolved, stays
  Connecting and is never tried again. A connection that is lost before its task has stored
  id and status may leave the server Connected with a dead id. `givenUp` records both, and
  without the exception `OpenConnectionUsed` fails.

## 4. What is proved

### ThreadPool_proofs

For every finite set of workers and any clients and jobs: `PoolTypes` (`TypeOK`, so that
the counter of running jobs never becomes negative), `JobsRunOnce` (`ExactlyOnce`) and
`ClearCovers` (`ClearCoversEarlierJobs`). They follow from `PoolInvariant`, the invariance
of `PInv`, which adds to the properties:

* `Counted`: `currentJobs` is the number of workers with a job in hand. Without it a
  counter of zero says nothing about the workers;
* `HandOK`, `LockOK`: a worker has a job exactly while it executes, and the mutex is held
  from the loop test to the wait or the pop;
* `CheckOK`: the queue that the loop test saw non-empty is still so at the pop, because
  nobody else pops without the mutex and the stop flag is never reset;
* `PollOK`: once `allClear` has read an empty queue, every earlier job is in hand or done,
  so that a zero counter read later leaves only the second case.

The assumptions are that workers and clients are different threads and that there are
finitely many workers.

### FileIO_types and FileIO_proofs

These theorems hold for every set of threads and postings, every file size and every
growth policy.

`TypeCorrect` (`Spec => []TypeOK`) rests on the assumptions on the constants alone. The
content is the bound of the file: expansion writes queue entries beyond
`m_totalAllocatedBlocks`, so `TypeOK` is not inductive. `TInv` adds `ThreadsOK` (which
phase holds which blocks) and `GrowthOK` (a thread that expands holds `m_expandLock`, and
what it adds fits below `MaxBlocks`).

Five theorems of `FileIO_proofs` assume `Quiet`: writers wait for a running checkpoint,
a recovery starts from two files that one checkpoint has saved, and checkpoints are
enabled. Section 3 shows that the first two are needed. Nothing is assumed of the saves:
any number of them may fail, reported or not.

* `NoDoubleUse`: `BlockUsedOnce` always holds.
* `CheckpointSafe`: `CheckpointIntact` always holds. It is about a mapping that was saved;
  `FileIOSaveIgnored.cfg` shows that it cannot be about a mapping that `Save` left in place.
* `RecoveryAgrees`: `SavedFilesAgree` always holds.
* `ReadersSafe`: `PublishedNotOverwritten` always holds.
* `NothingElseLeaks`: `NoOtherLeak` always holds.

All follow from `BlocksInvariant`, the invariance of `TInv /\ BInv`. The argument: a block
is in one queue, with one thread, in one posting, or not part of the file yet. What
`BInv` adds to the properties, and why:

* `OneThreadPerKey`: otherwise two operations could release the same list;
* `Apart`, `Replaces`, `ListsOK`: what a thread holds is disjoint, and what an operation
  keeps together with what it gives back is exactly the list it replaces, so that the
  new list shares nothing with the released blocks;
* `Beyond`: a block at or beyond the end of the file is nowhere, unless the thread that
  extends the file has queued it just now; otherwise expansion could queue a used block;
* `KeptBlocks`: blocks of the saved mapping, and blocks whose old list is still published,
  are neither in the free queue nor taken by a writer. This is what the second queue
  (`m_blockAddresses_reserve`) is for; without it neither `CheckpointIntact` nor
  `PublishedNotOverwritten` is inductive;
* `CheckpointOK`, `FilesOK`: while a checkpoint runs nobody writes and what is saved is
  current; the saved pool lies within the saved file size.

`NothingElseLeaks` needs a second invariant on top of it, `LInv`. `Covered` counts blocks
that an expansion has queued but that are not part of the file yet (`Fresh`), because
between the two steps `NoOtherLeak` says nothing of them. `FilesCover` says that the two
saved files account for every block of the saved total: a recovery starts from them, and
without it a crash could lose blocks that the pool file should have had.

There is a lemma per action and conjunct group; `CalmStep` collects the steps that move no
block, `TakeBack` those that turn published blocks into blocks to release.

### Recovery_proofs

For any clients, any number of vectors, heads, log records and crashes. What a theorem
assumes of the callers and of the crashes is its hypothesis, and each has only the ones
its argument uses:

* `TypesInvariant` (`TypeOK`): none. `TypeOK` is not inductive because a replay writes one
  record beyond the last one it reads; `KeysOK` bounds the keys by the number of crashes.
* `SumsStayMatched` (`SumsMatch`): additions take the lock (`AddsLocked`) and no checkpoint is
  broken off. `SumsInv` says which files of a checkpoint under way are already current;
  `AddsOut` that nobody appends between the first and the last of them.
* `LogStaysTruncated` (`LogTruncated`): `AddsLocked`, no deletion during a checkpoint
  (`DeletesApart`), and keys that differ in one byte (`OneByte`, fewer than 256 records between
  two checkpoints in the code). `LogInv` says that no record lies at or beyond the next key;
  during a replay, records beyond it are those the iterator has still to visit.
* `AckedStaysDurable` (`AckedDurable`) and `AckedStaysVisible` (`AckedVisible`): `Careful`, all
  of the above and no crash between a replay and the next checkpoint, which
  `recovery_replay` shows to be needed. `DurableInv` has four parts. `Backed`: files and log
  hold what was acknowledged; the record of a deletion counts only if a row for its
  vector exists by then, so the order of the records is part of it. `CallsLogged`: what each
  call under way has written, and that no two calls have the same key. `Visible`: memory
  shows what was acknowledged. `Replayed`: during a replay, memory shows the files and the
  records that the iterator has passed; it connects `Backed` before the replay with
  `Visible` after it. A checkpoint goes the other way: it may only empty the log because
  the files saved before are equal to a `Visible` memory.

### RemoteStores_proofs

`ClientsKeepPromise` is the safety refinement `Spec => KeepsPromise`, for any threads, keys,
entries, faults and moves, under the hypothesis `~Stragglers`, as in the runs: no request is
executed after the call that sent it has returned. Without it the promise fails (section 3).
`Inv` says for each thread what its phase, its request, the
requests that are still under way (`late`) and the abstract moment (`done`) have to do
with each other (`ThreadOK`, `LateOK`), and that one thread at a time writes a key
(`OneWriter`). A step of the server is the abstract effect, everything else is a
stuttering step, a start or a return; one lemma per action says which.

`MovesTolerated` is `MoveTolerated`, for any keys, entries and calls, with or without
stragglers. The property speaks of at most two threads, and so does the argument: it is
violated with three, each of which may put the old region back once. `MoveInv` names where
something old can be after the move: in the cache (`StaleCache`), in an answer of PD that
is not cached yet (`StaleAnswer`), in a request (`StaleRequest`). Nothing adds to these but
the cache to a request and an answer to the cache, and a refused request is an old one.
`AttemptOK` then counts: a thread in its second attempt that meets something old has used
up the one answer the other thread had, and in its third it meets nothing old. `ReplyOK`
says that the Put of a Merge carries what is there and the new entry.

### Sidecar_proofs

For any connections, keys, values, requests, workers and batches: `SlotsStayMatched`
(`SlotsMatch`), `AnswersStayIntact` (`AnswersIntact`) and `ReadsStayCurrent` (`ReadsCurrent`).
`TInv` adds to the types that the semaphore counts the calls. For the answers, `MuInv` says
that the mutex of a connection belongs to the request whose header is the last piece on
the wire, and `WireInv` that the pieces come in pairs, without which neither "whole" nor
"once" survives the next header. For the reads, `ReadInv` says of which positions the answer
is known (`Filled`) and that what the store holds now has been recorded. There is at least
one connection (`Conns # {}`).

### SearchService_proofs

For any finite set of queries, any set of servers and any number of lost connections.

* `OpenConnectionsStayUsed` (`OpenConnectionUsed`). `MachineOK` describes a server with all
  tasks that work on it: at most one of them has a connection that the server does
  not name yet (`Fresh`), and a task that is late has an id that is not newer. `RetryInv` adds
  what became of a connection lost in use: the server waits for a task, or is Connecting with
  tasks none of which has a connection yet (`Retried`), until one connects or fails.
* `TypesInvariant` (`TypeOK`), `AnswersAreAggregatedOnce` (`AggregatesOnce`), `CallbacksRunOnce`
  (`CallbackOnce`), from `QueriesInv`. `QueryOK`: the counter of a query is the number of servers
  that have not been heard, and the answer is out exactly when it is zero. `PacketOK` with
  `OwnerOK`: a callback is in the table, or with one task, or has run. `TableOK`: the list of
  timeouts names each id once, and every callback that waits is in it.
* `FinishedStaysAnswered` (`FinishedMeansAnswered`). `JobsInv`: the counter is the number of
  queries that were counted minus the number of those that were finished, modulo its size,
  because a timeout may decrease it before `PostPacket` has increased it.

`ServiceAssumption` asks for finitely many queries and more values of the counter than
queries (2^32 in the code); with fewer the counter could be zero with all of them open.

### DynamicSearcher_proofs

For any number of clients, workers, vectors, heads and stripes, any sizes and thresholds, and
whether or not calls of the store fail (the last two theorems say where they need that they do
not). Eight invariants, each resting on those before it:

* `TInv` gives `TypesInvariant` (`TypeOK`). What a thread has in its hands depends on how far it
  is, so `Shape` (in `ThreadsT`) gives a type for each phase. Entries and heads are drawn from `Known`
  and `Placed`, the entries of vectors that have been added and the heads that have become
  visible, which only grow; `Numbered` says that free ids come after all others and `Pending` that two
  splits never make the same head. Without these a new head could collide with one that is
  being written.
* `LockInv` gives `LocksStayReleased` (`LocksReleased`): a thread holds a stripe if and only if
  it is in a phase that needs one and the stripe is that of its head. The equivalence is
  needed: from "the holder is in such a phase" alone, a release could free the stripe of
  another thread.
* `SizeInv` gives `SizesStayMatched` (`SizesMatch`). It is stronger than the property: the size of
  a visible head is right at every step, not only while the lock is free, and the list of a head that
  is not yet visible is the one whose length it is about to be given.
* `BoundInv` with `MergeFree` gives `PostingsStayBounded` (`PostingBounded`). `Tame` bounds what
  a thread is about to write: both halves of a split, the short list of a merge, and the
  candidate of a merge, which only appends can lengthen and only up to the limit, since
  a second merge would need `m_mergeLock`. `MergeFree` says that merges need a merge to have been
  started, so that the bound is limit plus buffer as long as none is. TLC refutes the
  plain limit once there are merges.
* `PursuedInv` gives `NoHeadIsStuck` (`NoStuckHead`), for `~IoFails`, with merges that overlap with
  splits and with each other. Every visible head on `m_splitList` or `m_mergeList` is `Pursued`:
  its job is in the queue, or a thread is at work on it. The step that needs care is the one
  that ends the work of one thread: it takes the head off the list, hides it, or hands it to a new
  job, and must not do so to a head that another thread is still at work on. With failures
  the property is false: a failed read in `Split` leaves the head on the list.
* `OrderInv`, `QueuedInv` and `LostInv` give `NothingIsLost` (`NoVectorLost`), for `Gentle`
  configurations (below). `OrderInv` has what a thread was told to do (the reassign flag of a
  split or merge is the configured one, a client neither merges nor reassigns, the head whose
  lock a thread holds is visible). `QueuedInv` says that a head has at most one merge, in the queue or
  under way, and that a merge never takes its own head as candidate. `LostInv` accounts for
  every vector that was added and not deleted. It is `Carried`, in one of four ways: *listed*, by
  a valid entry in the posting of a visible head that no thread is about to rewrite from what
  it has read; *handed*, in the half of a split or the list of a merge that is still to be
  written; *borne*, by a thread that is about to append it; or *lifted*, as the vector of a
  visible head, of a head being made, or of a head that was removed and whose reassignment is
  queued or will be. `Sound` adds that what a merge has read is
  still current, or its vector has been deleted or lifted since. The proof follows a vector from
  one way to the next: an append makes it listed, a split makes it handed and then listed
  again, the removal of a head makes it lifted, `IncVersion` makes every entry of it stale at
  the moment the thread bears it.

`Gentle` is what the code needs for `NoVectorLost`, and TLC finds a lost vector when any of
its four parts is dropped (the first three in `SearcherSplit.cfg` with that constant changed):

* `~IoFails`: a failed write or read drops the entries that were on their way;
* `~OneCluster`: a k-means that finds one cluster among different vectors makes `Split` cut the
  list, and the entries beyond the cut are gone;
* `~(ExcludeHead /\ DisableReassign)`: the vector of a removed head is in no list, and without
  reassignment nobody puts it back;
* no merges, or a single worker: two workers lose a vector in `SearcherMergeFlag.cfg` and
  `SearcherMergeRace.cfg`. Appends and in-place splits of the clients do overlap with merges in
  the theorem.

Versions are masked in the model as in the code, so that the theorem covers a version that
wraps around; the bounds of the runs are too small for that.

What `Filter` returns (a sequence over the elements kept, no longer than the list) is proved
from the least position at which it would fail, in place of an induction. `Configuration`
asks that thread names differ and that sizes and thresholds are natural numbers, the limits,
the replica count and the number of stripes being positive, and that there is a vector for
each of the first heads.

### Model-checked only

* The liveness properties: fairness and `ENABLED` are out of the prover's reach.
* `Settles` of DynamicSearcher is one of them. Every invariant that a passing run checks is stated by a
  theorem; some theorems have hypotheses on the configuration, which their sections give.

## 5. What is not modelled

* FileIO: the LRU cache (off by default), address arrays as memory (`m_buffer`),
  `ShutDown`, damaged files (data lost by a stream that reports no error included), a
  recovery from a file that was written in part, readers as processes
  (`PublishedNotOverwritten` is what they rely on).
* DynamicSearcher: `AsyncAppend` (off by default), `ReassignK` (0 by default), `RefineIndex`,
  blocks of rows in `m_postingSizes`, the optional `consistencyCheck`, a head index at its
  capacity, versions that wrap around while stale entries of the same number remain
  (modelled, but not reached by the runs).
* Recovery: a failing RocksDB (the result of the write to the log is ignored), the
  translation of heads to vectors (loaded from the index directory, not from the
  checkpoint), merges, damaged files, a store whose `Checkpoint` reports success without
  having saved the mapping (FileIO has it; `CheckpointFails` covers errors that are reported).
* Remote stores: `MultiGet` and `DeleteRange` of TiKV, `MultiGet` of Aerospike, borders of
  regions that divide a key range, statistics.
* Sidecar: the encoding of the frames, `verify.go`, a configuration of 0 workers or of
  batches of 0, which `main` does not refuse.
* Service: a search timeout configured as 0, which registers none (`ResourceManager.h:67`),
  the server (it executes one query per packet and shares no mutable state),
  heartbeats and registration, the choice of servers by distance (`m_topK`), the pool of
  connections at its limit and the reuse of its slots.
* The LRU cache of the file store, the RocksDB and SPDK stores, the static searcher, the
  search path beyond the merges it starts, numeric code and the tools: see section 1 and
  `PROJECT.json`.

Hazards that no property covers, besides those in `PROJECT.json`: a size that is stored
before its blocks are written (FC:867; the model has the outcome); address arrays recycled
under a reader (FC:1124); ignored results of `Load` (FC:538); a split repeated for as long as
it fails (EDS:1891); seven-bit versions (`VersionLabel.h:90`); an append dropped by a full
asynchronous queue (EDS:1812); the ignored result of `AddIndexId` (EDS:1145); head ids and
rows of sizes taken in different orders (EDS:1177); the ignored result of the write to the
log (`PersistentBuffer.h:19`); a merge that waits for the lock of its candidate with its own
in hand (EDS:1356; one merge at a time does, and `searcher_settles` has no two heads on one
stripe); a connection removed by its slot without a look at its id
(`ConnectionManager.cpp:53`); `m_topK` beyond the number of servers
(`AggregatorService.cpp:217`).

## 6. Plan

1. FileIO shown to implement PostingStore as well, with readers as processes.
2. `LRUCache`: the cache with eviction and its failing writes; the newest value wins.
3. FileIO `ShutDown` and the address arrays with a reader; `AsyncAppend`; the rows of
   `m_postingSizes` by blocks.
