------------------------------ MODULE Recovery ------------------------------
(***************************************************************************)
(* The write-ahead log (PersistentBuffer over RocksDB), the checkpoint of  *)
(* the index (Index::Checkpoint, ExtraDynamicSearcher::Checkpoint) and the *)
(* recovery (LoadIndexData, LoadIndex with its replay of the log), with a  *)
(* process that may die between any two steps.                             *)
(*                                                                         *)
(* Vectors are the ids 0..MaxVid that the version map hands out in order,  *)
(* heads the rows of the head index.  A posting is the set of the ids it   *)
(* holds; an append goes to one head.  A split is a single step here: the  *)
(* module DynamicSearcher has its parts, and a process that dies within    *)
(* one loses everything that the split has written since the checkpoint    *)
(* (FileIO shows that the pages of the checkpoint stay as they are).       *)
(***************************************************************************)
EXTENDS Integers, FiniteSets

CONSTANTS
    Clients,          \* threads that call the index
    MaxVid,           \* bound: the largest vector id
    MaxHead,          \* bound: the largest row of the head index
    MaxLog,           \* bound: records that clients write between two checkpoints
    MaxCrashes,       \* bound: crashes
    Base,             \* values of a byte of a log key: 256 in the code
    PlainAdds,        \* vectors are also added with Index::AddIndex, without m_checkPointLock
    DeletesDuringCheckpoint, \* callers delete while a checkpoint runs; DeleteIndex takes no lock
    CheckpointBreaks, \* the process may die, or a save may fail, within Checkpoint
    CrashAfterReplay  \* the process may die again before the checkpoint that follows a replay

ASSUME BoundsAssumption ==
    /\ MaxVid \in Nat /\ MaxHead \in Nat /\ MaxLog \in Nat /\ MaxCrashes \in Nat
    /\ Base \in Nat \ {0}
    /\ MaxLog + MaxCrashes < Base * Base
    /\ PlainAdds \in BOOLEAN /\ DeletesDuringCheckpoint \in BOOLEAN
    /\ CheckpointBreaks \in BOOLEAN /\ CrashAfterReplay \in BOOLEAN

VARIABLES
    \* durable
    disk,     \* the files of the last checkpoint, each as it was last written
    log,      \* the records in RocksDB, by key
    \* in memory
    mode,     \* "up", "down", or "replay" while LoadIndex repeats the log
    ver,      \* m_versionMap: its rows and the ids marked as deleted
    heads,    \* head index: its rows and the heads that are not deleted
    posting,  \* the postings, by head
    sums,     \* m_postingSizes and m_checkSums: what they were computed on
    size,     \* PersistentBuffer::_size
    jobs,     \* heads whose split is queued or running in m_splitThreadPool
    client,   \* what each client is doing
    ckpt,     \* next step of the thread in Index::Checkpoint
    snap,     \* the records that the iterator of the replay sees
    cur,      \* the key at which the iterator of the replay is
    \* history
    added,    \* ids whose addition was acknowledged
    tried,    \* ids that some client started to delete
    removed,  \* ids whose deletion was acknowledged
    replayed, \* a replay has run since the last checkpoint
    crashes

durable == <<disk, log>>
index == <<ver, heads, posting, sums>>
scan == <<snap, cur>>
history == <<added, tried, removed>>
vars == <<disk, log, mode, ver, heads, posting, sums, size, jobs, client, ckpt,
          snap, cur, added, tried, removed, replayed, crashes>>

Vids == 0..MaxVid
Heads == 0..MaxHead
Keys == 0..(MaxLog + MaxCrashes)
Record == [op : {"add", "del"}, vid : Vids]
NoRecord == [op |-> "none", vid |-> 0]
Logs == [Keys -> Record \cup {NoRecord}]
NoLog == [k \in Keys |-> NoRecord]
NoKey == -1

\* A key is the integer's bytes, lowest byte first, and RocksDB orders keys by their bytes.
Before(a, b) ==
    \/ a % Base < b % Base
    \/ a % Base = b % Base /\ a \div Base < b \div Base

Written(l) == {k \in Keys : l[k] # NoRecord}

\* The key that SeekToFirst finds in l.
IsFirst(l, k) ==
    k \in Written(l) /\ \A j \in Written(l) : ~Before(j, k)

\* The key that Next finds after k in l.
IsNext(l, k, n) ==
    /\ n \in Written(l) /\ Before(k, n)
    /\ \A j \in Written(l) : Before(k, j) => ~Before(j, n)

LastKey(l, k) == \A j \in Written(l) : ~Before(k, j)

IdleClient == [pc |-> "idle", op |-> "add", vid |-> 0, key |-> 0, locked |-> FALSE]

Init ==
    /\ ver = [rows |-> 1, deleted |-> {}]
    /\ heads = [rows |-> 1, live |-> {0}]
    /\ posting = [h \in Heads |-> IF h = 0 THEN {0} ELSE {}]
    /\ sums = posting
    /\ disk = [ver |-> ver, heads |-> heads, posting |-> posting, sums |-> sums]
    /\ log = NoLog
    /\ mode = "up"
    /\ size = 0
    /\ jobs = {}
    /\ client = [c \in Clients |-> IdleClient]
    /\ ckpt = "idle"
    /\ snap = log
    /\ cur = NoKey
    /\ added = {0}
    /\ tried = {}
    /\ removed = {}
    /\ replayed = FALSE
    /\ crashes = 0

-----------------------------------------------------------------------------
(* Clients.  A vector is added by AddIndexSPFresh, which holds             *)
(* m_checkPointLock, or by Index::AddIndex, which does not.                *)

Busy(op) == \E c \in Clients : client[c].pc # "idle" /\ client[c].op = op

\* AddIndexSPFresh or Index::AddIndex take the next rows of the version map.
Reserve(c) ==
    /\ mode = "up" /\ client[c].pc = "idle"
    /\ ver.rows <= MaxVid
    /\ \E locked \in {TRUE} \cup IF PlainAdds THEN {FALSE} ELSE {} :
          /\ locked => ckpt \in {"idle", "lock"}
          /\ client' = [client EXCEPT ![c] =
                [pc |-> "assign", op |-> "add", vid |-> ver.rows, key |-> 0, locked |-> locked]]
    /\ ver' = [ver EXCEPT !.rows = @ + 1]
    /\ UNCHANGED <<durable, mode, heads, posting, sums, size, jobs, ckpt, scan, history, replayed, crashes>>

\* DeleteIndex is called for a vector that has been added.
StartDelete(c) ==
    /\ mode = "up" /\ client[c].pc = "idle"
    /\ DeletesDuringCheckpoint \/ ckpt = "idle"
    /\ \E v \in added \ removed :
          /\ client' = [client EXCEPT ![c] =
                [pc |-> "assign", op |-> "del", vid |-> v, key |-> 0, locked |-> FALSE]]
          /\ tried' = tried \cup {v}
    /\ UNCHANGED <<durable, mode, index, size, jobs, ckpt, scan, added, removed, replayed, crashes>>

\* PutAssignment takes the next key ...
GetNewAssignmentID(c) ==
    /\ mode = "up" /\ client[c].pc = "assign"
    /\ size < MaxLog
    /\ client' = [client EXCEPT ![c].pc = "log", ![c].key = size]
    /\ size' = size + 1
    /\ UNCHANGED <<durable, mode, index, jobs, ckpt, scan, history, replayed, crashes>>

\* ... and then writes the record under it.
PutAssignment(c) ==
    /\ mode = "up" /\ client[c].pc = "log"
    /\ log' = [log EXCEPT ![client[c].key] = [op |-> client[c].op, vid |-> client[c].vid]]
    /\ client' = [client EXCEPT ![c].pc = "apply", ![c].key = 0]
    /\ UNCHANGED <<disk, mode, index, size, jobs, ckpt, scan, history, replayed, crashes>>

\* v is appended to the posting of h, with its size and checksum; the split of h may follow.
AppendTo(h, v) ==
    /\ posting' = [posting EXCEPT ![h] = @ \cup {v}]
    /\ sums' = [sums EXCEPT ![h] = @ \cup {v}]
    /\ jobs' \in {jobs, jobs \cup {h}}

\* The appends of AddIndex, after which the vector id goes back to the caller.
FinishAdd(c) ==
    /\ mode = "up" /\ client[c].pc = "apply" /\ client[c].op = "add"
    /\ \E h \in heads.live : AppendTo(h, client[c].vid)
    /\ added' = added \cup {client[c].vid}
    /\ client' = [client EXCEPT ![c] = IdleClient]
    /\ UNCHANGED <<durable, mode, ver, heads, size, ckpt, scan, tried, removed, replayed, crashes>>

\* An append fails, and the caller gets an error; the record stays in the log.
FailAdd(c) ==
    /\ mode = "up" /\ client[c].pc = "apply" /\ client[c].op = "add"
    /\ client' = [client EXCEPT ![c] = IdleClient]
    /\ UNCHANGED <<durable, mode, index, size, jobs, ckpt, scan, history, replayed, crashes>>

\* VersionLabel::Delete marks a row that exists and says nothing about one that does not.
Marked(v) == IF v < ver.rows THEN ver.deleted \cup {v} ELSE ver.deleted

FinishDelete(c) ==
    /\ mode = "up" /\ client[c].pc = "apply" /\ client[c].op = "del"
    /\ ver' = [ver EXCEPT !.deleted = Marked(client[c].vid)]
    /\ removed' = removed \cup {client[c].vid}
    /\ client' = [client EXCEPT ![c] = IdleClient]
    /\ UNCHANGED <<durable, mode, heads, posting, sums, size, jobs, ckpt, scan, added, tried, replayed, crashes>>

-----------------------------------------------------------------------------
(* Jobs of m_splitThreadPool.                                              *)

\* A posting that is short enough once deleted vectors are dropped is written back.
Compact(h) ==
    /\ mode # "down" /\ h \in jobs
    /\ posting' = [posting EXCEPT ![h] = @ \ ver.deleted]
    /\ sums' = [sums EXCEPT ![h] = posting[h] \ ver.deleted]
    /\ jobs' = jobs \ {h}
    /\ UNCHANGED <<durable, mode, ver, heads, size, client, ckpt, scan, history, replayed, crashes>>

\* Mutant of Split: the split of h stays on the list although h may be gone.
MutantSplit(h) ==
    /\ mode # "down" /\ h \in jobs
    /\ heads.rows < MaxHead
    /\ posting' = [posting EXCEPT ![h] = {}, ![heads.rows] = posting[h]]
    /\ sums' = [sums EXCEPT ![h] = {}, ![heads.rows] = posting[h]]
    /\ heads' = [rows |-> heads.rows + 1, live |-> (heads.live \ {h}) \cup {heads.rows}]
    /\ UNCHANGED <<durable, mode, ver, size, jobs, client, ckpt, scan, history, replayed, crashes>>

\* The posting of h is divided: a new head takes one part, and the other stays with h
\* or goes to a second new head that replaces h.
Split(h) ==
    /\ mode # "down" /\ h \in jobs
    /\ LET g == heads.rows
           kept(S) == (posting[h] \ ver.deleted) \ S
       IN \E S \in SUBSET (posting[h] \ ver.deleted) :
          /\ S # {} /\ kept(S) # {}
          /\ \/ /\ g <= MaxHead
                /\ posting' = [posting EXCEPT ![h] = kept(S), ![g] = S]
                /\ sums' = [sums EXCEPT ![h] = kept(S), ![g] = S]
                /\ heads' = [rows |-> g + 1, live |-> heads.live \cup {g}]
             \/ /\ g + 1 <= MaxHead
                /\ posting' = [posting EXCEPT ![h] = {}, ![g] = S, ![g + 1] = kept(S)]
                /\ sums' = [sums EXCEPT ![h] = {}, ![g] = S, ![g + 1] = kept(S)]
                /\ heads' = [rows |-> g + 2, live |-> (heads.live \ {h}) \cup {g, g + 1}]
    /\ jobs' = jobs \ {h}
    /\ UNCHANGED <<durable, mode, ver, size, client, ckpt, scan, history, replayed, crashes>>

-----------------------------------------------------------------------------
(* Index::Checkpoint and ExtraDynamicSearcher::Checkpoint.                 *)

AllFinished == jobs = {}

CheckpointBegin ==
    /\ mode = "up" /\ ckpt = "idle"
    /\ AllFinished
    /\ DeletesDuringCheckpoint \/ ~Busy("del")
    /\ ckpt' = "lock"
    /\ UNCHANGED <<durable, mode, index, size, jobs, client, scan, history, replayed, crashes>>

\* Mutant of CheckpointLock: the lock is taken although additions are under way.
MutantCheckpointLock ==
    /\ mode = "up" /\ ckpt = "lock"
    /\ ckpt' = "wait"
    /\ UNCHANGED <<durable, mode, index, size, jobs, client, scan, history, replayed, crashes>>

CheckpointLock ==
    /\ mode = "up" /\ ckpt = "lock"
    /\ \A c \in Clients : ~client[c].locked
    /\ ckpt' = "wait"
    /\ UNCHANGED <<durable, mode, index, size, jobs, client, scan, history, replayed, crashes>>

SaveVersionMap ==
    /\ mode = "up" /\ ckpt = "wait"
    /\ AllFinished
    /\ disk' = [disk EXCEPT !.ver = ver]
    /\ ckpt' = "sums"
    /\ UNCHANGED <<log, mode, index, size, jobs, client, scan, history, replayed, crashes>>

\* Mutant of SaveSums: only one of the two files is written, and not the one that counts.
MutantSaveSums ==
    /\ mode = "up" /\ ckpt = "sums"
    /\ ckpt' = "store"
    /\ UNCHANGED <<durable, mode, index, size, jobs, client, scan, history, replayed, crashes>>

\* Posting sizes and checksums.
SaveSums ==
    /\ mode = "up" /\ ckpt = "sums"
    /\ disk' = [disk EXCEPT !.sums = sums]
    /\ ckpt' = "store"
    /\ UNCHANGED <<log, mode, index, size, jobs, client, scan, history, replayed, crashes>>

\* db->Checkpoint.
SaveStore ==
    /\ mode = "up" /\ ckpt = "store"
    /\ disk' = [disk EXCEPT !.posting = posting]
    /\ ckpt' = "clear"
    /\ UNCHANGED <<log, mode, index, size, jobs, client, scan, history, replayed, crashes>>

\* Mutant of DeleteRange: the range ends one record too early.
MutantDeleteRange ==
    /\ mode = "up" /\ ckpt = "clear"
    /\ log' = [k \in Keys |-> IF Before(k + 1, size) THEN NoRecord ELSE log[k]]
    /\ ckpt' = "reset"
    /\ UNCHANGED <<disk, mode, index, size, jobs, client, scan, history, replayed, crashes>>

\* ClearPreviousRecord deletes the keys from 0 to _size, in the order of their bytes ...
DeleteRange ==
    /\ mode = "up" /\ ckpt = "clear"
    /\ log' = [k \in Keys |-> IF Before(k, size) THEN NoRecord ELSE log[k]]
    /\ ckpt' = "reset"
    /\ UNCHANGED <<disk, mode, index, size, jobs, client, scan, history, replayed, crashes>>

\* ... and then starts again at 0.
ResetSize ==
    /\ mode = "up" /\ ckpt = "reset"
    /\ size' = 0
    /\ ckpt' = "heads"
    /\ UNCHANGED <<durable, mode, index, jobs, client, scan, history, replayed, crashes>>

\* Last of all, Index::Checkpoint saves the head index.
SaveHeads ==
    /\ mode = "up" /\ ckpt = "heads"
    /\ disk' = [disk EXCEPT !.heads = heads]
    /\ ckpt' = "idle"
    /\ replayed' = FALSE
    /\ UNCHANGED <<log, mode, index, size, jobs, client, scan, history, crashes>>

\* A job has failed (m_asyncStatus) or a save fails: Checkpoint returns, and what it
\* has saved so far stays.
CheckpointFails ==
    /\ mode = "up"
    /\ ckpt \in {"wait"} \cup IF CheckpointBreaks THEN {"sums", "store", "heads"} ELSE {}
    /\ AllFinished
    /\ ckpt' = "idle"
    /\ UNCHANGED <<durable, mode, index, size, jobs, client, scan, history, replayed, crashes>>

-----------------------------------------------------------------------------
(* Crash, LoadIndexData and LoadIndex with Recovery and EnableWAL set.     *)

MayCrash ==
    /\ mode # "down"
    /\ CheckpointBreaks \/ ckpt \in {"idle", "lock", "wait"}
    /\ CrashAfterReplay \/ ~replayed

Crash ==
    /\ MayCrash
    /\ crashes < MaxCrashes
    /\ crashes' = crashes + 1
    /\ mode' = "down"
    /\ client' = [c \in Clients |-> IdleClient]
    /\ jobs' = {}
    /\ ckpt' = "idle"
    /\ size' = 0
    /\ ver' = [rows |-> 0, deleted |-> {}]
    /\ heads' = [rows |-> 0, live |-> {}]
    /\ posting' = [h \in Heads |-> {}]
    /\ sums' = posting'
    /\ snap' = NoLog
    /\ cur' = NoKey
    /\ UNCHANGED <<durable, history, replayed>>

\* The files are loaded; StartToScan finds the first record or none.
LoadIndex ==
    /\ mode = "down"
    /\ ver' = disk.ver
    /\ heads' = disk.heads
    /\ posting' = disk.posting
    /\ sums' = disk.sums
    /\ snap' = log
    /\ \/ /\ Written(log) = {}
          /\ mode' = "up"
          /\ UNCHANGED <<size, cur, replayed>>
       \/ /\ mode' = "replay"
          /\ \E k \in Keys : IsFirst(log, k) /\ cur' = k /\ size' = k + 1
          /\ replayed' = TRUE
    /\ UNCHANGED <<durable, jobs, client, ckpt, history, crashes>>

\* Mutant of NextToScan: the iterator is not moved.
MutantNextToScan(n) ==
    /\ cur' = cur
    /\ size' = size

\* NextToScan: the next key, which also sets _size, or the end.
NextToScan(n) ==
    \/ /\ LastKey(snap, cur)
       /\ cur' = NoKey
       /\ size' = n
    \/ \E k \in Keys : IsNext(snap, cur, k) /\ cur' = k /\ size' = k + 1

\* Mutant of ReplayAdd: the version map is not extended for the vector.
MutantReplayAdd ==
    /\ mode = "replay" /\ cur # NoKey /\ snap[cur].op = "add"
    /\ log' = [log EXCEPT ![size] = snap[cur]]
    /\ \E h \in heads.live : AppendTo(h, snap[cur].vid)
    /\ NextToScan(size + 1)
    /\ UNCHANGED <<disk, mode, ver, heads, client, ckpt, snap, history, replayed, crashes>>

\* A record of an addition: AddIndex, which writes the record to the log once more.
ReplayAdd ==
    /\ mode = "replay" /\ cur # NoKey /\ snap[cur].op = "add"
    /\ LET v == snap[cur].vid IN
       /\ ver' = [ver EXCEPT !.rows = IF v >= @ THEN v + 1 ELSE @]
       /\ log' = [log EXCEPT ![size] = snap[cur]]
       /\ \E h \in heads.live : AppendTo(h, v)
    /\ NextToScan(size + 1)
    /\ UNCHANGED <<disk, mode, heads, client, ckpt, snap, history, replayed, crashes>>

\* A record of a deletion: only the version map is changed.
ReplayDelete ==
    /\ mode = "replay" /\ cur # NoKey /\ snap[cur].op = "del"
    /\ ver' = [ver EXCEPT !.deleted = Marked(snap[cur].vid)]
    /\ NextToScan(size)
    /\ UNCHANGED <<durable, mode, heads, posting, sums, jobs, client, ckpt, snap, history, replayed, crashes>>

\* The end of the log; the index is up when the splits that the replay caused are done.
ReplayEnd ==
    /\ mode = "replay" /\ cur = NoKey
    /\ AllFinished
    /\ mode' = "up"
    /\ snap' = NoLog
    /\ UNCHANGED <<durable, index, size, jobs, client, ckpt, cur, history, replayed, crashes>>

-----------------------------------------------------------------------------
ClientStep(c) ==
    \/ Reserve(c) \/ StartDelete(c) \/ GetNewAssignmentID(c) \/ PutAssignment(c)
    \/ FinishAdd(c) \/ FailAdd(c) \/ FinishDelete(c)

Job(h) == Compact(h) \/ Split(h)

Checkpoint ==
    \/ CheckpointBegin \/ CheckpointLock \/ SaveVersionMap \/ SaveSums \/ SaveStore
    \/ DeleteRange \/ ResetSize \/ SaveHeads \/ CheckpointFails

Recover == LoadIndex \/ ReplayAdd \/ ReplayDelete \/ ReplayEnd

Next ==
    \/ \E c \in Clients : ClientStep(c)
    \/ \E h \in Heads : Job(h)
    \/ Checkpoint
    \/ Crash
    \/ Recover

Spec == Init /\ [][Next]_vars

\* The threads of the pool and the thread that loads the index keep running.
FairSpec == Spec /\ WF_vars(Recover) /\ \A h \in Heads : WF_vars(Job(h))

-----------------------------------------------------------------------------
(* Properties.                                                             *)

Versions == [rows : 0..(MaxVid + 1), deleted : SUBSET Vids]
HeadIndex == [rows : 0..(MaxHead + 1), live : SUBSET Heads]
Postings == [Heads -> SUBSET Vids]

(* The state has its type, marks and heads lie within their rows, and the  *)
(* only splits on the list are those of heads that exist.                  *)
TypeOK ==
    /\ disk \in [ver : Versions, heads : HeadIndex, posting : Postings, sums : Postings]
    /\ log \in Logs /\ snap \in Logs
    /\ mode \in {"up", "down", "replay"}
    /\ ver \in Versions /\ \A v \in ver.deleted : v < ver.rows
    /\ heads \in HeadIndex /\ \A h \in heads.live : h < heads.rows
    /\ posting \in Postings /\ sums \in Postings
    /\ size \in 0..(MaxLog + MaxCrashes + 1)
    /\ jobs \subseteq heads.live
    /\ client \in [Clients -> [pc : {"idle", "assign", "log", "apply"}, op : {"add", "del"},
                              vid : Vids, key : Keys, locked : BOOLEAN]]
    /\ ckpt \in {"idle", "lock", "wait", "sums", "store", "clear", "reset", "heads"}
    /\ cur \in Keys \cup {NoKey}
    /\ added \subseteq Vids /\ tried \subseteq added /\ removed \subseteq tried
    /\ replayed \in BOOLEAN
    /\ crashes \in 0..MaxCrashes

\* What LoadIndex would make of v: a record of a deletion counts when the row exists by then.
DurablyDeleted(v) ==
    \/ v \in disk.ver.deleted
    \/ \E d \in Keys :
          /\ log[d] = [op |-> "del", vid |-> v]
          /\ \/ v < disk.ver.rows
             \/ \E a \in Keys : log[a].op = "add" /\ log[a].vid >= v /\ Before(a, d)

DurablyLive(v) ==
    /\ ~DurablyDeleted(v)
    /\ \/ \E k \in Keys : log[k] = [op |-> "add", vid |-> v]
       \/ v < disk.ver.rows /\ \E h \in disk.heads.live : v \in disk.posting[h]

(* Whenever the process may die, or is dead, the files and the log         *)
(* together hold every acknowledged addition that nobody tried to delete,  *)
(* and every acknowledged deletion (AddIndex and DeleteIndex write the log *)
(* first, Checkpoint empties it last).                                     *)
AckedDurable ==
    (MayCrash \/ mode = "down") =>
        /\ \A v \in added \ tried : DurablyLive(v)
        /\ \A v \in removed : DurablyDeleted(v)

\* A search finds v: it has a row, no mark, and an entry in the posting of a head.
Searchable(v) ==
    /\ v < ver.rows /\ v \notin ver.deleted
    /\ \E h \in heads.live : v \in posting[h]

(* Whenever the index is up, also after LoadIndex has recovered it, an     *)
(* acknowledged addition is found and an acknowledged deletion is in       *)
(* force ("recover the previous WAL").                                     *)
AckedVisible ==
    mode = "up" =>
        /\ \A v \in added \ tried : Searchable(v)
        /\ \A v \in removed : v \in ver.deleted

(* Sizes and checksums, which Checkpoint saves in files of their own,      *)
(* describe the postings that the store brings back.                       *)
SumsMatch ==
    mode = "up" => \A h \in heads.live : sums[h] = posting[h]

(* Once ClearPreviousRecord has run, no record is left in the log ("delete *)
(* all the previous record"), also of a log that a replay has extended.    *)
LogTruncated == ckpt = "heads" => Written(log) = {}

(* Recovery comes to an end, although the replay of an addition writes the *)
(* log that is being read and may start splits.                            *)
RecoveryCompletes == mode = "down" ~> mode = "up"

=============================================================================
