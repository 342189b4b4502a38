-------------------------- MODULE Recovery_proofs --------------------------
(***************************************************************************)
(* Proofs about Recovery, for any clients, any number of vectors, heads,   *)
(* log records and crashes.  What each theorem assumes of the callers is   *)
(* its hypothesis: the runs of Recovery show what goes wrong without it.   *)
(***************************************************************************)
EXTENDS Recovery, TLAPS

(* Callers hold the lock of the checkpoint when they add a vector.         *)
AddsLocked == ~PlainAdds

(* Nobody deletes while a checkpoint runs.                                 *)
DeletesApart == ~DeletesDuringCheckpoint

(* Keys of the log differ in their lowest byte only.                       *)
OneByte == MaxLog + MaxCrashes < Base

(* What durability takes: the process also dies only between checkpoints,  *)
(* and after a replay not before the next checkpoint.                      *)
Careful == AddsLocked /\ DeletesApart /\ OneByte /\ ~CheckpointBreaks /\ ~CrashAfterReplay

-----------------------------------------------------------------------------
(* Types.  TypeOK is not inductive: the log grows by a record in every     *)
(* replay, so that the bound on its keys counts the crashes.               *)

ClientType == [pc : {"idle", "assign", "log", "apply"}, op : {"add", "del"},
               vid : Vids, key : Keys, locked : BOOLEAN]

Stopped == client = [c \in Clients |-> IdleClient] /\ ckpt = "idle"

DiskOK ==
    /\ \A v \in disk.ver.deleted : v < disk.ver.rows
    /\ \A h \in disk.heads.live : h < disk.heads.rows

ModeOK ==
    /\ mode = "down" => Stopped /\ jobs = {} /\ size = 0 /\ cur = NoKey /\ crashes >= 1
    /\ mode = "replay" => Stopped /\ crashes >= 1

CallsOK ==
    \A c \in Clients :
       /\ client[c].pc # "idle" => IF client[c].op = "del" THEN client[c].vid \in tried
                                                          ELSE client[c].vid < ver.rows
       /\ client[c].pc = "log" => client[c].key < MaxLog

KeysOK ==
    /\ size <= MaxLog + crashes
    /\ \A k \in Written(log) : k < MaxLog + crashes
    /\ mode = "down" => \A k \in Written(log) : k < MaxLog + crashes - 1
    /\ mode = "replay" =>
          /\ \A k \in Written(snap) : k < MaxLog + crashes - 1
          /\ cur # NoKey => cur \in Written(snap) /\ size = cur + 1

TInv == TypeOK /\ DiskOK /\ ModeOK /\ CallsOK /\ KeysOK

-----------------------------------------------------------------------------
(* What the lock of the checkpoint gives.                                  *)

Saving == {"sums", "store", "clear", "reset", "heads"}

AddsOut ==
    /\ \A c \in Clients :
          /\ client[c].pc # "idle" /\ client[c].op = "add" => client[c].locked
          /\ client[c].locked => ckpt \in {"idle", "lock"}
    /\ ckpt \in Saving => jobs = {}

DeletesOut ==
    \A c \in Clients : client[c].pc # "idle" /\ client[c].op = "del" => ckpt = "idle"

(* The files of the sizes and of the postings belong together.             *)
SumsInv ==
    /\ sums = posting
    /\ ckpt \notin Saving => disk.sums = disk.posting
    /\ ckpt \in Saving \ {"sums"} => disk.sums = sums
    /\ ckpt \in Saving \ {"sums", "store"} => disk.posting = posting

(* No record is at or beyond the next key.                                 *)
LogInv ==
    /\ mode = "up" =>
          /\ \A k \in Written(log) : k < size
          /\ \A c \in Clients : client[c].pc = "log" => client[c].key < size
    /\ mode = "replay" => \A k \in Written(log) : k < size \/ (k \in Written(snap) /\ cur # NoKey)
    /\ ckpt \in {"reset", "heads"} => Written(log) = {}

-----------------------------------------------------------------------------
(* Durability.                                                             *)

Adds(r, v) == r.op = "add" /\ r.vid = v
Deletes(r, v) == r.op = "del" /\ r.vid = v

InFiles(v) == v < disk.ver.rows /\ \E h \in disk.heads.live : v \in disk.posting[h]
HasRow(l, v) == v < disk.ver.rows \/ \E k \in Keys : Adds(l[k], v)
RowBefore(l, v, d) ==
    v < disk.ver.rows \/ \E a \in Keys : l[a].op = "add" /\ l[a].vid >= v /\ a < d
IsDeleted(l, v) ==
    v \in disk.ver.deleted \/ \E d \in Keys : Deletes(l[d], v) /\ RowBefore(l, v, d)

(* The files together with the log l hold what was acknowledged.           *)
Backed(l) ==
    /\ disk.ver.deleted \subseteq tried
    /\ \A k \in Keys : l[k].op = "del" => l[k].vid \in tried
    /\ \A v \in added \ tried : InFiles(v) \/ \E k \in Keys : Adds(l[k], v)
    /\ \A v \in added : HasRow(l, v)
    /\ \A v \in removed : IsDeleted(l, v)

(* What the call of c has written to the log.                              *)
CallLogged(c) ==
    /\ client[c].pc = "log" =>
          /\ log[client[c].key].op = "none"
          /\ \A d \in Clients \ {c} : client[d].pc = "log" => client[d].key # client[c].key
          /\ client[c].op = "del" => RowBefore(log, client[c].vid, client[c].key)
    /\ client[c].pc = "apply" =>
          IF client[c].op = "del" THEN IsDeleted(log, client[c].vid)
                                  ELSE \E k \in Keys : Adds(log[k], client[c].vid)

CallsLogged == \A c \in Clients : CallLogged(c)

(* The index in memory shows what was acknowledged.                        *)
Visible ==
    /\ ver.deleted \subseteq tried
    /\ \A v \in added \ tried : Searchable(v)
    /\ \A v \in added : v < ver.rows
    /\ removed \subseteq ver.deleted

(* The replay has done the records that precede the iterator.              *)
Past(k) == cur = NoKey \/ k < cur

Replayed ==
    /\ ver.deleted \subseteq tried
    /\ disk.ver.deleted \subseteq ver.deleted
    /\ disk.ver.rows <= ver.rows
    /\ \A v \in Vids \ tried : InFiles(v) => Searchable(v)
    /\ \A k \in Keys : Past(k) /\ snap[k].op = "add" =>
          /\ snap[k].vid < ver.rows
          /\ snap[k].vid \notin tried => Searchable(snap[k].vid)
    /\ \A k \in Keys : Past(k) /\ snap[k].op = "del" /\ RowBefore(snap, snap[k].vid, k) =>
          snap[k].vid \in ver.deleted

DurableInv ==
    /\ ~replayed /\ ckpt \notin Saving => Backed(log)
    /\ ~replayed => CallsLogged
    /\ mode = "up" => Visible
    /\ mode = "down" => ~replayed
    /\ mode = "replay" => replayed /\ Backed(snap) /\ Replayed
    /\ ckpt \in Saving => disk.ver = ver
    /\ ckpt \in Saving \ {"sums", "store"} => disk.posting = posting

-----------------------------------------------------------------------------
(* Proofs: types.                                                          *)

LEMMA Bounds ==
    /\ MaxVid \in Nat /\ MaxHead \in Nat /\ MaxLog \in Nat /\ MaxCrashes \in Nat
    /\ Base \in Nat \ {0}
BY BoundsAssumption

USE Bounds

LEMMA EmptyLog == NoLog \in Logs /\ Written(NoLog) = {}
BY DEF NoLog, Logs, Written, Record, NoRecord

LEMMA TypesInit == Init => TInv
<1> SUFFICES ASSUME Init PROVE TInv
  OBVIOUS
<1>1. ver \in Versions /\ \A v \in ver.deleted : v < ver.rows
  BY DEF Init, Versions, Vids
<1>2. heads \in HeadIndex /\ \A h \in heads.live : h < heads.rows
  BY DEF Init, HeadIndex, Heads
<1>3. posting \in Postings /\ sums \in Postings
  BY DEF Init, Postings, Heads, Vids
<1>4. disk \in [ver : Versions, heads : HeadIndex, posting : Postings, sums : Postings]
  BY <1>1, <1>2, <1>3 DEF Init
<1>5. log \in Logs /\ snap \in Logs /\ Written(log) = {}
  BY EmptyLog DEF Init
<1>6. IdleClient \in ClientType
  BY DEF IdleClient, ClientType, Vids, Keys
<1>7. TypeOK
  <2>1. client \in [Clients -> ClientType]
    BY <1>6 DEF Init
  <2>2. size \in 0..(MaxLog + MaxCrashes + 1) /\ crashes \in 0..MaxCrashes /\ jobs \subseteq heads.live
    BY DEF Init
  <2>3. added \subseteq Vids /\ tried \subseteq added /\ removed \subseteq tried
    BY DEF Init, Vids
  <2> QED BY <1>1, <1>2, <1>3, <1>4, <1>5, <2>1, <2>2, <2>3 DEF Init, TypeOK, ClientType
<1>8. DiskOK
  BY <1>1, <1>2 DEF DiskOK, Init
<1>9. ModeOK /\ CallsOK /\ KeysOK
  BY <1>5 DEF Init, ModeOK, CallsOK, KeysOK, IdleClient
<1> QED BY <1>7, <1>8, <1>9 DEF TInv

LEMMA ReserveTypes ==
    ASSUME TInv, NEW c \in Clients, Reserve(c)
    PROVE  TInv'
<1>0. PICK locked \in BOOLEAN :
        client' = [client EXCEPT ![c] =
           [pc |-> "assign", op |-> "add", vid |-> ver.rows, key |-> 0, locked |-> locked]]
  BY DEF Reserve
<1>1. ver' \in Versions /\ \A v \in ver'.deleted : v < ver'.rows
  BY DEF Reserve, TInv, TypeOK, Versions, Vids
<1>2. ver.rows \in Vids
  BY DEF Reserve, TInv, TypeOK, Versions, Vids
<1>3. client' \in [Clients -> ClientType]
  BY <1>0, <1>2 DEF TInv, TypeOK, ClientType, Keys
<1>4. TypeOK'
  BY <1>1, <1>3
  DEF Reserve, TInv, TypeOK, ClientType, durable, scan, history
<1>5. DiskOK' /\ ModeOK' /\ KeysOK'
  BY DEF Reserve, TInv, DiskOK, ModeOK, KeysOK, durable, scan, Written, Stopped
<1>6. CallsOK'
  BY <1>0, <1>1, <1>2 DEF Reserve, TInv, TypeOK, CallsOK, history, Versions, Vids
<1> QED BY <1>4, <1>5, <1>6 DEF TInv

LEMMA StartDeleteTypes ==
    ASSUME TInv, NEW c \in Clients, StartDelete(c)
    PROVE  TInv'
<1>0. PICK v \in added \ removed :
        /\ client' = [client EXCEPT ![c] =
              [pc |-> "assign", op |-> "del", vid |-> v, key |-> 0, locked |-> FALSE]]
        /\ tried' = tried \cup {v}
  BY DEF StartDelete
<1>1. v \in Vids /\ v \in added
  BY DEF TInv, TypeOK
<1>3. client' \in [Clients -> ClientType]
  BY <1>0, <1>1 DEF TInv, TypeOK, ClientType, Keys
<1>4. TypeOK'
  BY <1>0, <1>1, <1>3
  DEF StartDelete, TInv, TypeOK, ClientType, durable, scan, index
<1>5. DiskOK' /\ ModeOK' /\ KeysOK'
  BY DEF StartDelete, TInv, DiskOK, ModeOK, KeysOK, durable, scan, Written, Stopped
<1>6. CallsOK'
  BY <1>0, <1>1 DEF StartDelete, TInv, TypeOK, CallsOK, index
<1> QED BY <1>4, <1>5, <1>6 DEF TInv

(* A call that moves to its next step.                                     *)
LEMMA Advance ==
    ASSUME client \in [Clients -> ClientType], NEW c \in Clients,
           NEW p \in {"idle", "assign", "log", "apply"}, NEW n \in Keys,
           client' = [client EXCEPT ![c].pc = p, ![c].key = n]
    PROVE  /\ client' \in [Clients -> ClientType]
           /\ client'[c] = [pc |-> p, op |-> client[c].op, vid |-> client[c].vid,
                            key |-> n, locked |-> client[c].locked]
           /\ \A d \in Clients \ {c} : client'[d] = client[d]
<1> DEFINE r == client[c]
           l == [pc |-> p, op |-> r.op, vid |-> r.vid, key |-> r.key, locked |-> r.locked]
           s == [pc |-> p, op |-> r.op, vid |-> r.vid, key |-> n, locked |-> r.locked]
<1>1. r \in ClientType
  OBVIOUS
<1> HIDE DEF r
<1>2. [r EXCEPT !.pc = p] = l
  BY <1>1 DEF ClientType
<1>3. [l EXCEPT !.key = n] = s
  OBVIOUS
<1>4. s \in ClientType
  BY <1>1 DEF ClientType
<1> HIDE DEF l, s
<1>5. [[r EXCEPT !.pc = p] EXCEPT !.key = n] = s
  BY <1>2, <1>3
<1>6. client' = [client EXCEPT ![c] = [[client[c] EXCEPT !.pc = p] EXCEPT !.key = n]]
  OBVIOUS
<1>7. client' = [client EXCEPT ![c] = s]
  BY <1>5, <1>6 DEF r
<1> QED BY <1>4, <1>7 DEF r, s

LEMMA GetKeyTypes ==
    ASSUME TInv, NEW c \in Clients, GetNewAssignmentID(c)
    PROVE  TInv'
<1>1. size \in Keys /\ size < MaxLog /\ crashes \in Nat /\ mode = "up"
  BY DEF GetNewAssignmentID, TInv, TypeOK, Keys
<1>2. client \in [Clients -> ClientType]
  BY DEF TInv, TypeOK, ClientType
<1>3. client' = [client EXCEPT ![c].pc = "log", ![c].key = size]
  BY DEF GetNewAssignmentID
<1>4. /\ client' \in [Clients -> ClientType]
      /\ client'[c] = [pc |-> "log", op |-> client[c].op, vid |-> client[c].vid,
                       key |-> size, locked |-> client[c].locked]
      /\ \A d \in Clients \ {c} : client'[d] = client[d]
  BY <1>1, <1>2, <1>3, Advance
<1>5. TypeOK'
  BY <1>1, <1>4
  DEF GetNewAssignmentID, TInv, TypeOK, ClientType, durable, scan, history, index
<1>6. DiskOK' /\ ModeOK' /\ KeysOK'
  BY <1>1 DEF GetNewAssignmentID, TInv, DiskOK, ModeOK, KeysOK, durable, scan, Written, Stopped, Keys
<1>7. CallsOK'
  BY <1>1, <1>4 DEF GetNewAssignmentID, TInv, CallsOK, history, index
<1> QED BY <1>5, <1>6, <1>7 DEF TInv

(* A record is written under the key n.                                    *)
LEMMA WriteRecord ==
    ASSUME log \in Logs, NEW n \in Keys, NEW r \in Record, log' = [log EXCEPT ![n] = r]
    PROVE  /\ log' \in Logs
           /\ log'[n] = r
           /\ \A k \in Keys \ {n} : log'[k] = log[k]
           /\ Written(log') = Written(log) \cup {n}
<1>1. r # NoRecord
  BY DEF Record, NoRecord
<1> QED BY <1>1 DEF Logs, Written

LEMMA RecordOf ==
    ASSUME NEW x \in ClientType
    PROVE  [op |-> x.op, vid |-> x.vid] \in Record
BY DEF ClientType, Record

LEMMA PutTypes ==
    ASSUME TInv, NEW c \in Clients, PutAssignment(c)
    PROVE  TInv'
<1>1. client[c] \in ClientType /\ client[c].key \in Keys /\ client[c].key < MaxLog
      /\ crashes \in Nat /\ mode = "up" /\ log \in Logs
  BY DEF PutAssignment, TInv, TypeOK, ClientType, CallsOK
<1>2. /\ log' \in Logs
      /\ Written(log') = Written(log) \cup {client[c].key}
  BY <1>1, RecordOf, WriteRecord DEF PutAssignment
<1>3. client \in [Clients -> ClientType] /\ 0 \in Keys
  BY DEF TInv, TypeOK, ClientType, Keys
<1>4. /\ client' \in [Clients -> ClientType]
      /\ client'[c] = [pc |-> "apply", op |-> client[c].op, vid |-> client[c].vid,
                       key |-> 0, locked |-> client[c].locked]
      /\ \A d \in Clients \ {c} : client'[d] = client[d]
  BY <1>3, Advance DEF PutAssignment
<1>5. TypeOK'
  BY <1>1, <1>2, <1>4
  DEF PutAssignment, TInv, TypeOK, ClientType, durable, scan, history, index
<1>6. DiskOK' /\ ModeOK'
  BY <1>1 DEF PutAssignment, TInv, DiskOK, ModeOK, durable, scan, Stopped
<1>7. CallsOK'
  BY <1>1, <1>4 DEF PutAssignment, TInv, CallsOK, history, index
<1>8. KeysOK'
  <2>1. \A k \in Written(log') : k < MaxLog + crashes'
    <3>1. crashes' = crashes /\ \A k \in Written(log) : k < MaxLog + crashes
      BY DEF PutAssignment, TInv, KeysOK
    <3>2. client[c].key < MaxLog + crashes
      BY <1>1 DEF Keys
    <3> QED BY <1>2, <3>1, <3>2
  <2> QED BY <1>1, <2>1 DEF PutAssignment, TInv, KeysOK
<1> QED BY <1>5, <1>6, <1>7, <1>8 DEF TInv

LEMMA IdleType == IdleClient \in ClientType /\ IdleClient.pc = "idle" /\ ~IdleClient.locked
BY DEF IdleClient, ClientType, Vids, Keys

LEMMA AppendTypes ==
    ASSUME NEW h \in heads.live, heads \in HeadIndex, NEW v \in Vids,
           posting \in Postings, sums \in Postings, jobs \subseteq heads.live, AppendTo(h, v)
    PROVE  posting' \in Postings /\ sums' \in Postings /\ jobs' \subseteq heads.live
BY DEF AppendTo, Postings, HeadIndex

LEMMA FinishTypes ==
    ASSUME TInv, NEW c \in Clients, FinishAdd(c) \/ FailAdd(c) \/ FinishDelete(c)
    PROVE  TInv'
<1>1. client[c] \in ClientType /\ client[c].vid \in Vids /\ mode = "up" /\ client[c].pc = "apply"
  BY DEF FinishAdd, FailAdd, FinishDelete, TInv, TypeOK, ClientType
<1>2. /\ client' \in [Clients -> ClientType] /\ client'[c] = IdleClient
      /\ \A d \in Clients \ {c} : client'[d] = client[d]
  BY IdleType DEF FinishAdd, FailAdd, FinishDelete, TInv, TypeOK, ClientType
<1>3. DiskOK' /\ ModeOK' /\ KeysOK'
  BY <1>1 DEF FinishAdd, FailAdd, FinishDelete, TInv, DiskOK, ModeOK, KeysOK, durable, scan, Written
<1>4. tried' = tried
  BY DEF FinishAdd, FailAdd, FinishDelete, history
<1>5. CASE FinishAdd(c)
  <2>1. posting' \in Postings /\ sums' \in Postings /\ jobs' \subseteq heads.live
    BY <1>1, <1>5, AppendTypes DEF FinishAdd, TInv, TypeOK
  <2>2. added' \subseteq Vids /\ tried \subseteq added'
    BY <1>1, <1>5 DEF FinishAdd, TInv, TypeOK
  <2>3. TypeOK'
    BY <1>2, <1>4, <1>5, <2>1, <2>2 DEF FinishAdd, TInv, TypeOK, ClientType, durable, scan
  <2>4. CallsOK'
    BY <1>2, <1>4, <1>5, IdleType DEF FinishAdd, TInv, CallsOK
  <2> QED BY <1>3, <2>3, <2>4 DEF TInv
<1>6. CASE FailAdd(c)
  <2>3. TypeOK'
    BY <1>2, <1>6 DEF FailAdd, TInv, TypeOK, ClientType, durable, scan, index, history
  <2>4. CallsOK'
    BY <1>2, <1>4, <1>6, IdleType DEF FailAdd, TInv, CallsOK, index
  <2> QED BY <1>3, <2>3, <2>4 DEF TInv
<1>7. CASE FinishDelete(c)
  <2>1. ver' \in Versions /\ ver'.rows = ver.rows /\ \A v \in ver'.deleted : v < ver'.rows
    BY <1>1, <1>7 DEF FinishDelete, TInv, TypeOK, Marked, Versions
  <2>2. client[c].vid \in tried
    BY <1>1, <1>7 DEF FinishDelete, TInv, CallsOK
  <2>3. TypeOK'
    BY <1>2, <1>4, <1>7, <2>1, <2>2 DEF FinishDelete, TInv, TypeOK, ClientType, durable, scan
  <2>4. CallsOK'
    BY <1>2, <1>4, <1>7, <2>1, IdleType DEF FinishDelete, TInv, CallsOK
  <2> QED BY <1>3, <2>3, <2>4 DEF TInv
<1> QED BY <1>5, <1>6, <1>7

(* The two outcomes of a split.                                            *)
LEMMA SplitCases ==
    ASSUME TInv, NEW h \in Heads, Split(h)
    PROVE  /\ mode # "down" /\ h \in jobs /\ jobs' = jobs \ {h} /\ h < heads.rows
           /\ \E S \in SUBSET (posting[h] \ ver.deleted),
                 T \in SUBSET (posting[h] \ ver.deleted) :
                 /\ S \cup T = posting[h] \ ver.deleted
                 /\ \/ /\ heads.rows \in Heads
                       /\ posting' = [posting EXCEPT ![h] = T, ![heads.rows] = S]
                       /\ sums' = [sums EXCEPT ![h] = T, ![heads.rows] = S]
                       /\ heads' = [rows |-> heads.rows + 1, live |-> heads.live \cup {heads.rows}]
                    \/ /\ heads.rows \in Heads /\ heads.rows + 1 \in Heads
                       /\ posting' = [posting EXCEPT ![h] = {}, ![heads.rows] = S, ![heads.rows + 1] = T]
                       /\ sums' = [sums EXCEPT ![h] = {}, ![heads.rows] = S, ![heads.rows + 1] = T]
                       /\ heads' = [rows |-> heads.rows + 2,
                                    live |-> (heads.live \ {h}) \cup {heads.rows, heads.rows + 1}]
<1>1. h \in heads.live /\ h < heads.rows /\ heads.rows \in 0..(MaxHead + 1)
  BY DEF Split, TInv, TypeOK, HeadIndex
<1>2. mode # "down" /\ h \in jobs /\ jobs' = jobs \ {h}
  BY DEF Split
<1> DEFINE P == posting[h] \ ver.deleted
           T(S) == P \ S
           g == heads.rows
<1>3. PICK S \in SUBSET P :
         \/ /\ g <= MaxHead
            /\ posting' = [posting EXCEPT ![h] = T(S), ![g] = S]
            /\ sums' = [sums EXCEPT ![h] = T(S), ![g] = S]
            /\ heads' = [rows |-> g + 1, live |-> heads.live \cup {g}]
         \/ /\ g + 1 <= MaxHead
            /\ posting' = [posting EXCEPT ![h] = {}, ![g] = S, ![g + 1] = T(S)]
            /\ sums' = [sums EXCEPT ![h] = {}, ![g] = S, ![g + 1] = T(S)]
            /\ heads' = [rows |-> g + 2, live |-> (heads.live \ {h}) \cup {g, g + 1}]
  BY DEF Split
<1>4. T(S) \in SUBSET P /\ S \cup T(S) = P
  OBVIOUS
<1>5. (g <= MaxHead => g \in Heads) /\ (g + 1 <= MaxHead => g \in Heads /\ g + 1 \in Heads)
  BY <1>1 DEF Heads
<1> QED BY <1>1, <1>2, <1>3, <1>4, <1>5

(* Jobs leave everything alone but the postings and the head index.        *)
LEMMA JobFrame ==
    ASSUME NEW h \in Heads, Job(h)
    PROVE  UNCHANGED <<disk, log, mode, ver, size, client, ckpt, snap, cur,
                       added, tried, removed, replayed, crashes>>
BY DEF Job, Compact, Split, durable, scan, history

LEMMA JobTypes ==
    ASSUME TInv, NEW h \in Heads, Job(h)
    PROVE  TInv'
<1>1. UNCHANGED <<disk, log, mode, ver, size, client, ckpt, snap, cur,
                  added, tried, removed, replayed, crashes>>
  BY JobFrame
<1>2. mode # "down"
  BY DEF Job, Compact, Split
<1>3. DiskOK' /\ ModeOK' /\ KeysOK' /\ CallsOK'
  BY <1>1, <1>2 DEF TInv, DiskOK, ModeOK, KeysOK, CallsOK, Stopped, Written
<1>4. /\ posting' \in Postings /\ sums' \in Postings
      /\ heads' \in HeadIndex /\ \A g \in heads'.live : g < heads'.rows
      /\ jobs' \subseteq heads'.live
  <2>1. CASE Compact(h)
    BY <2>1 DEF Compact, TInv, TypeOK, Postings
  <2>2. CASE Split(h)
    <3>1. /\ posting[h] \ ver.deleted \in SUBSET Vids /\ heads.rows \in Nat
          /\ heads.live \subseteq Heads
          /\ \A g \in heads.live : g < heads.rows
          /\ jobs \subseteq heads.live
          /\ \A g \in Heads : g \in Nat
      BY DEF TInv, TypeOK, Postings, HeadIndex, Heads
    <3>2. PICK S \in SUBSET Vids, T \in SUBSET Vids :
             \/ /\ heads.rows \in Heads
                /\ posting' = [posting EXCEPT ![h] = T, ![heads.rows] = S]
                /\ sums' = [sums EXCEPT ![h] = T, ![heads.rows] = S]
                /\ heads' = [rows |-> heads.rows + 1, live |-> heads.live \cup {heads.rows}]
             \/ /\ heads.rows \in Heads /\ heads.rows + 1 \in Heads
                /\ posting' = [posting EXCEPT ![h] = {}, ![heads.rows] = S, ![heads.rows + 1] = T]
                /\ sums' = [sums EXCEPT ![h] = {}, ![heads.rows] = S, ![heads.rows + 1] = T]
                /\ heads' = [rows |-> heads.rows + 2,
                             live |-> (heads.live \ {h}) \cup {heads.rows, heads.rows + 1}]
      BY <2>2, <3>1, SplitCases
    <3>3. posting' \in Postings /\ sums' \in Postings
      BY <3>2 DEF TInv, TypeOK, Postings
    <3>4. heads' \in HeadIndex
      BY <3>1, <3>2 DEF HeadIndex, Heads
    <3>5. \A g \in heads'.live : g < heads'.rows
      BY <3>1, <3>2
    <3>6. jobs' \subseteq heads'.live
      <4>1. jobs' = jobs \ {h}
        BY <2>2 DEF Split
      <4>2. heads.live \ {h} \subseteq heads'.live
        BY <3>2
      <4>3. jobs \subseteq heads.live
        BY <3>1
      <4> QED BY ONLY <4>1, <4>2, <4>3
    <3> QED BY <3>3, <3>4, <3>5, <3>6
  <2> QED BY <2>1, <2>2 DEF Job
<1>5. TypeOK'
  BY <1>1, <1>4 DEF TInv, TypeOK
<1> QED BY <1>3, <1>5 DEF TInv

(* What a step of Checkpoint may change.                                   *)
LEMMA CheckpointFrame ==
    ASSUME Checkpoint
    PROVE  /\ UNCHANGED <<mode, ver, heads, posting, sums, jobs, client, snap, cur,
                          added, tried, removed, crashes>>
           /\ mode = "up"
BY DEF Checkpoint, CheckpointBegin, CheckpointLock, SaveVersionMap, SaveSums, SaveStore,
       DeleteRange, ResetSize, SaveHeads, CheckpointFails, index, scan, history, durable

LEMMA CheckpointTypes ==
    ASSUME TInv, Checkpoint
    PROVE  TInv'
<1>1. /\ UNCHANGED <<mode, ver, heads, posting, sums, jobs, client, snap, cur,
                     added, tried, removed, crashes>>
      /\ mode = "up"
  BY CheckpointFrame
<1> DEFINE Disks == [ver : Versions, heads : HeadIndex, posting : Postings, sums : Postings]
<1>2. disk \in Disks /\ ver \in Versions /\ heads \in HeadIndex /\ posting \in Postings
      /\ sums \in Postings /\ crashes \in Nat /\ log \in Logs
  BY DEF TInv, TypeOK
<1>3. disk' \in {disk, [disk EXCEPT !.ver = ver], [disk EXCEPT !.sums = sums],
                 [disk EXCEPT !.posting = posting], [disk EXCEPT !.heads = heads]}
  BY DEF Checkpoint, CheckpointBegin, CheckpointLock, SaveVersionMap, SaveSums, SaveStore,
         DeleteRange, ResetSize, SaveHeads, CheckpointFails, durable
<1>4. disk' \in Disks
  BY <1>2, <1>3
<1>5. DiskOK'
  BY <1>2, <1>3 DEF TInv, TypeOK, DiskOK
<1>6. log' \in Logs /\ Written(log') \subseteq Written(log)
  BY <1>2 DEF Checkpoint, CheckpointBegin, CheckpointLock, SaveVersionMap, SaveSums, SaveStore,
         DeleteRange, ResetSize, SaveHeads, CheckpointFails, durable, Logs, Written
<1>7. size' \in {size, 0} /\ replayed' \in {replayed, FALSE}
  BY DEF Checkpoint, CheckpointBegin, CheckpointLock, SaveVersionMap, SaveSums, SaveStore,
         DeleteRange, ResetSize, SaveHeads, CheckpointFails
<1>8. ckpt' \in {"idle", "lock", "wait", "sums", "store", "clear", "reset", "heads"}
  BY DEF Checkpoint, CheckpointBegin, CheckpointLock, SaveVersionMap, SaveSums, SaveStore,
         DeleteRange, ResetSize, SaveHeads, CheckpointFails
<1>9. TypeOK'
  <2>1. replayed' \in BOOLEAN
    BY <1>7, Zenon DEF TInv, TypeOK
  <2>2. size' \in 0..(MaxLog + MaxCrashes + 1)
    BY <1>7 DEF TInv, TypeOK
  <2> QED BY <1>1, <1>4, <1>6, <1>8, <2>1, <2>2 DEF TInv, TypeOK
<1>10. ModeOK' /\ CallsOK'
  BY <1>1 DEF TInv, ModeOK, CallsOK
<1>11. KeysOK'
  BY <1>1, <1>2, <1>6, <1>7 DEF TInv, KeysOK
<1> QED BY <1>5, <1>9, <1>10, <1>11 DEF TInv

LEMMA CrashTypes ==
    ASSUME TInv, Crash
    PROVE  TInv'
<1>1. /\ ver' \in Versions /\ ver'.deleted = {}
      /\ heads' \in HeadIndex /\ heads'.live = {}
      /\ posting' \in Postings /\ sums' \in Postings
  BY DEF Crash, Versions, HeadIndex, Postings
<1>2. client' \in [Clients -> ClientType] /\ Stopped'
  BY IdleType DEF Crash, Stopped
<1>3. snap' \in Logs /\ crashes' = crashes + 1 /\ crashes' \in 0..MaxCrashes /\ crashes \in Nat
  BY EmptyLog DEF Crash, TInv, TypeOK
<1>4. TypeOK'
  BY <1>1, <1>2, <1>3 DEF Crash, TInv, TypeOK, ClientType, durable, history
<1>5. DiskOK' /\ ModeOK'
  BY <1>2, <1>3 DEF Crash, TInv, DiskOK, ModeOK, durable
<1>6. CallsOK'
  BY IdleType DEF Crash, CallsOK
<1>7. KeysOK'
  <2>1. \A k \in Written(log) : k \in Nat
    BY DEF Written, Keys
  <2> QED BY <1>3, <2>1 DEF Crash, TInv, KeysOK, durable
<1> QED BY <1>4, <1>5, <1>6, <1>7 DEF TInv

LEMMA LoadTypes ==
    ASSUME TInv, LoadIndex
    PROVE  TInv'
<1>1. /\ ver' \in Versions /\ \A v \in ver'.deleted : v < ver'.rows
      /\ heads' \in HeadIndex /\ \A h \in heads'.live : h < heads'.rows
      /\ posting' \in Postings /\ sums' \in Postings
  BY DEF LoadIndex, TInv, TypeOK, DiskOK
<1>2. /\ mode = "down" /\ jobs = {} /\ Stopped /\ crashes >= 1 /\ crashes \in 0..MaxCrashes
      /\ snap' = log /\ log \in Logs
      /\ UNCHANGED <<disk, log, jobs, client, ckpt, added, tried, removed, crashes>>
      /\ \A k \in Written(log) : k < MaxLog + crashes - 1
  BY DEF LoadIndex, TInv, TypeOK, ModeOK, KeysOK, durable, history
<1>3. replayed' \in BOOLEAN
  BY DEF LoadIndex, TInv, TypeOK
<1>4. \/ mode' = "up" /\ size' = 0 /\ cur' = NoKey
      \/ mode' = "replay" /\ cur' \in Written(log) /\ cur' \in Keys /\ size' = cur' + 1
  BY <1>2 DEF LoadIndex, TInv, ModeOK, IsFirst
<1>5. size' \in 0..(MaxLog + MaxCrashes + 1) /\ size' <= MaxLog + crashes /\ cur' \in Keys \cup {NoKey}
  BY <1>2, <1>4 DEF Keys
<1>6. client \in [Clients -> ClientType]
  BY DEF TInv, TypeOK, ClientType
<1>7. TypeOK'
  BY <1>1, <1>2, <1>3, <1>4, <1>5, <1>6 DEF TInv, TypeOK, ClientType
<1>8. DiskOK' /\ ModeOK'
  BY <1>2, <1>4 DEF TInv, DiskOK, ModeOK, Stopped
<1>9. CallsOK'
  BY <1>2, IdleType DEF Stopped, CallsOK
<1>10. KeysOK'
  <2>1. \A k \in Written(log) : k < MaxLog + crashes
    BY <1>2 DEF Written, Keys
  <2> QED BY <1>2, <1>4, <1>5, <2>1 DEF KeysOK, NoKey
<1> QED BY <1>7, <1>8, <1>9, <1>10 DEF TInv

(* NextToScan moves to another record of the snapshot or to its end.       *)
LEMMA ScanTypes ==
    ASSUME NEW n, NextToScan(n)
    PROVE  \/ cur' = NoKey /\ size' = n
           \/ cur' \in Written(snap) /\ cur' \in Keys /\ size' = cur' + 1
BY DEF NextToScan, IsNext, Written

LEMMA NextKey ==
    ASSUME NEW k \in 0..(MaxLog + MaxCrashes), NEW n \in 0..MaxCrashes, k < MaxLog + n - 1
    PROVE  k + 1 \in 0..(MaxLog + MaxCrashes + 1) /\ k + 1 <= MaxLog + n
OBVIOUS

LEMMA ReplayKeys ==
    ASSUME TInv, mode = "replay", cur # NoKey, NEW n, NextToScan(n), n \in {size, size + 1},
           UNCHANGED <<snap, mode, crashes>>,
           Written(log') \subseteq Written(log) \cup {size}
    PROVE  /\ KeysOK' /\ size \in Keys
           /\ size' \in 0..(MaxLog + MaxCrashes + 1) /\ cur' \in Keys \cup {NoKey}
<1>1. /\ cur \in Written(snap) /\ size = cur + 1 /\ cur \in Keys
      /\ \A k \in Written(snap) : k < MaxLog + crashes - 1 /\ k \in Keys
      /\ \A k \in Written(log) : k < MaxLog + crashes
      /\ crashes \in 0..MaxCrashes
  BY DEF TInv, TypeOK, KeysOK, Written
<1>2. cur < MaxLog + crashes - 1
  BY <1>1
<1>3. size \in Keys /\ size < MaxLog + crashes /\ size + 1 <= MaxLog + crashes
  BY <1>1, <1>2 DEF Keys
<1>4. \/ cur' = NoKey /\ size' = n
      \/ cur' \in Written(snap) /\ cur' \in Keys /\ size' = cur' + 1
  BY ScanTypes
<1>5. size' \in 0..(MaxLog + MaxCrashes + 1) /\ size' <= MaxLog + crashes
  <2>1. CASE cur' = NoKey /\ size' = n
    BY <1>1, <1>3, <2>1 DEF Keys
  <2>2. CASE cur' \in Written(snap) /\ cur' \in Keys /\ size' = cur' + 1
    <3>1. cur' < MaxLog + crashes - 1
      BY <1>1, <2>2
    <3>2. cur' \in 0..(MaxLog + MaxCrashes) /\ size' = cur' + 1 /\ crashes \in 0..MaxCrashes
      BY <1>1, <2>2 DEF Keys
    <3>3. cur' + 1 \in 0..(MaxLog + MaxCrashes + 1) /\ cur' + 1 <= MaxLog + crashes
      BY <3>1, <3>2, NextKey
    <3> QED BY <3>2, <3>3
  <2> QED BY <1>4, <2>1, <2>2
<1>6. \A k \in Written(log') : k < MaxLog + crashes
  BY <1>1, <1>3
<1>7. KeysOK'
  BY <1>1, <1>4, <1>5, <1>6 DEF KeysOK, NoKey
<1> QED BY <1>3, <1>4, <1>5, <1>7

LEMMA ReplayAddTypes ==
    ASSUME TInv, ReplayAdd
    PROVE  TInv'
<1>1. /\ mode = "replay" /\ cur # NoKey /\ cur \in Keys /\ snap \in Logs /\ log \in Logs
      /\ UNCHANGED <<disk, mode, heads, client, ckpt, snap, added, tried, removed, replayed, crashes>>
      /\ NextToScan(size + 1)
  BY DEF ReplayAdd, TInv, TypeOK, history
<1>2. snap[cur] \in Record /\ snap[cur].vid \in Vids
  BY <1>1 DEF ReplayAdd, Logs, Record, NoRecord
<1>3. size \in Keys
  <2>1. cur \in Written(snap) /\ size = cur + 1 /\ cur < MaxLog + crashes - 1 /\ crashes \in 0..MaxCrashes
    BY <1>1 DEF TInv, TypeOK, KeysOK
  <2> QED BY <1>1, <2>1 DEF Keys
<1>4. log' \in Logs /\ Written(log') = Written(log) \cup {size}
  BY <1>1, <1>2, <1>3, WriteRecord DEF ReplayAdd
<1>5. /\ KeysOK' /\ size' \in 0..(MaxLog + MaxCrashes + 1) /\ cur' \in Keys \cup {NoKey}
  BY <1>1, <1>4, ReplayKeys
<1>6. ver' \in Versions /\ ver.rows <= ver'.rows /\ \A v \in ver'.deleted : v < ver'.rows
  <2>1. ver \in Versions /\ \A v \in ver.deleted : v < ver.rows
    BY DEF TInv, TypeOK
  <2>2. ver' = [ver EXCEPT !.rows = IF snap[cur].vid >= ver.rows THEN snap[cur].vid + 1 ELSE ver.rows]
    BY DEF ReplayAdd
  <2> QED BY <1>2, <2>1, <2>2 DEF Versions, Vids
<1>7. posting' \in Postings /\ sums' \in Postings /\ jobs' \subseteq heads.live
  BY <1>2, AppendTypes DEF ReplayAdd, TInv, TypeOK
<1>8. TypeOK'
  BY <1>1, <1>4, <1>5, <1>6, <1>7 DEF TInv, TypeOK
<1>9. DiskOK' /\ ModeOK'
  BY <1>1 DEF TInv, DiskOK, ModeOK, Stopped
<1>10. CallsOK'
  BY <1>1, IdleType DEF TInv, ModeOK, Stopped, CallsOK
<1> QED BY <1>5, <1>8, <1>9, <1>10 DEF TInv

LEMMA ReplayDeleteTypes ==
    ASSUME TInv, ReplayDelete
    PROVE  TInv'
<1>1. /\ mode = "replay" /\ cur # NoKey /\ cur \in Keys /\ snap \in Logs
      /\ UNCHANGED <<disk, log, mode, heads, posting, sums, jobs, client, ckpt, snap,
                     added, tried, removed, replayed, crashes>>
      /\ NextToScan(size)
  BY DEF ReplayDelete, TInv, TypeOK, history, durable
<1>2. snap[cur].vid \in Vids
  BY <1>1 DEF ReplayDelete, Logs, Record, NoRecord
<1>4. /\ KeysOK' /\ size' \in 0..(MaxLog + MaxCrashes + 1) /\ cur' \in Keys \cup {NoKey}
  BY <1>1, ReplayKeys
<1>5. ver' \in Versions /\ ver.rows = ver'.rows /\ \A v \in ver'.deleted : v < ver'.rows
  BY <1>2 DEF ReplayDelete, TInv, TypeOK, Marked, Versions
<1>6. TypeOK'
  BY <1>1, <1>4, <1>5 DEF TInv, TypeOK
<1>7. DiskOK' /\ ModeOK'
  BY <1>1 DEF TInv, DiskOK, ModeOK, Stopped
<1>8. CallsOK'
  BY <1>1, IdleType DEF TInv, ModeOK, Stopped, CallsOK
<1> QED BY <1>4, <1>6, <1>7, <1>8 DEF TInv

LEMMA ReplayEndTypes ==
    ASSUME TInv, ReplayEnd
    PROVE  TInv'
<1>1. /\ mode = "replay" /\ mode' = "up" /\ snap' = NoLog
      /\ UNCHANGED <<disk, log, ver, heads, posting, sums, size, jobs, client, ckpt, cur,
                     added, tried, removed, replayed, crashes>>
  BY DEF ReplayEnd, durable, index, history
<1>2. TypeOK'
  BY <1>1, EmptyLog DEF TInv, TypeOK
<1>3. DiskOK' /\ ModeOK' /\ CallsOK' /\ KeysOK'
  BY <1>1 DEF TInv, DiskOK, ModeOK, CallsOK, KeysOK
<1> QED BY <1>2, <1>3 DEF TInv

LEMMA TypesNext == TInv /\ [Next]_vars => TInv'
<1> SUFFICES ASSUME TInv, [Next]_vars PROVE TInv'
  OBVIOUS
<1>1. ASSUME NEW c \in Clients, ClientStep(c) PROVE TInv'
  BY <1>1, ReserveTypes, StartDeleteTypes, GetKeyTypes, PutTypes, FinishTypes DEF ClientStep
<1>2. ASSUME NEW h \in Heads, Job(h) PROVE TInv'
  BY <1>2, JobTypes
<1>3. CASE Checkpoint
  BY <1>3, CheckpointTypes
<1>4. CASE Crash
  BY <1>4, CrashTypes
<1>5. CASE Recover
  BY <1>5, LoadTypes, ReplayAddTypes, ReplayDeleteTypes, ReplayEndTypes DEF Recover
<1>6. CASE UNCHANGED vars
  BY <1>6 DEF vars, TInv, TypeOK, DiskOK, ModeOK, CallsOK, KeysOK, Stopped, Written
<1> QED BY <1>1, <1>2, <1>3, <1>4, <1>5, <1>6 DEF Next

LEMMA TypesHold == Spec => []TInv
<1>1. TInv /\ [Next]_vars => TInv'
  BY TypesNext
<1> QED BY <1>1, TypesInit, PTL DEF Spec

(* Recovery keeps its types, for any constants and any behaviour of the    *)
(* callers: also a log that every replay extends (LoadIndex) stays within  *)
(* a bound that counts the crashes, marks lie within the version map, and  *)
(* only heads that exist have a split in m_splitThreadPool.                *)
THEOREM TypesInvariant == Spec => []TypeOK
<1>1. TInv => TypeOK
  BY DEF TInv
<1> QED BY <1>1, TypesHold, PTL

-----------------------------------------------------------------------------
(* Proofs: the lock of the checkpoint, and the sizes and checksums.        *)

LEMMA ClientFrame ==
    ASSUME NEW c \in Clients, ClientStep(c)
    PROVE  UNCHANGED <<disk, mode, heads, ckpt, snap, cur, replayed, crashes>> /\ mode = "up"
BY DEF ClientStep, Reserve, StartDelete, GetNewAssignmentID, PutAssignment, FinishAdd, FailAdd,
       FinishDelete, durable, index, scan, history

(* What a step of a client does to the record of the client.               *)
LEMMA ClientMoves ==
    ASSUME TInv, NEW c \in Clients, ClientStep(c)
    PROVE  /\ \A d \in Clients \ {c} : client'[d] = client[d]
           /\ \/ Reserve(c) /\ client'[c].op = "add" /\ client'[c].pc = "assign"
              \/ StartDelete(c) /\ client'[c].op = "del" /\ client'[c].pc = "assign"
                                /\ client'[c].locked = FALSE
              \/ /\ client[c].pc # "idle"
                 /\ client'[c].op = client[c].op /\ client'[c].locked = client[c].locked
              \/ client'[c] = IdleClient
<1>0. client \in [Clients -> ClientType] /\ client[c] \in ClientType
  BY DEF TInv, TypeOK, ClientType
<1>1. CASE Reserve(c)
  <2>1. PICK locked \in BOOLEAN :
          client' = [client EXCEPT ![c] =
             [pc |-> "assign", op |-> "add", vid |-> ver.rows, key |-> 0, locked |-> locked]]
    BY <1>1 DEF Reserve
  <2>2. /\ \A d \in Clients \ {c} : client'[d] = client[d]
        /\ client'[c].op = "add" /\ client'[c].pc = "assign"
    BY <1>0, <2>1
  <2> QED BY <1>1, <2>2
<1>2. CASE StartDelete(c)
  <2>1. PICK v \in added \ removed :
          client' = [client EXCEPT ![c] =
             [pc |-> "assign", op |-> "del", vid |-> v, key |-> 0, locked |-> FALSE]]
    BY <1>2 DEF StartDelete
  <2>2. \A d \in Clients \ {c} : client'[d] = client[d]
    BY <1>0, <2>1
  <2>3. client'[c] = [pc |-> "assign", op |-> "del", vid |-> v, key |-> 0, locked |-> FALSE]
    BY <1>0, <2>1
  <2>4. client'[c].op = "del" /\ client'[c].pc = "assign" /\ client'[c].locked = FALSE
    BY <2>3
  <2> QED BY <1>2, <2>2, <2>4
<1>3. CASE GetNewAssignmentID(c)
  <2>1. size \in Keys
    BY <1>3 DEF GetNewAssignmentID, TInv, TypeOK, Keys
  <2>2. /\ client' \in [Clients -> ClientType]
        /\ client'[c] = [pc |-> "log", op |-> client[c].op, vid |-> client[c].vid,
                         key |-> size, locked |-> client[c].locked]
        /\ \A d \in Clients \ {c} : client'[d] = client[d]
    BY <1>0, <1>3, <2>1, Advance DEF GetNewAssignmentID
  <2>3. client'[c].op = client[c].op /\ client'[c].locked = client[c].locked /\ client[c].pc # "idle"
    BY <1>3, <2>2 DEF GetNewAssignmentID
  <2> QED BY <2>2, <2>3
<1>4. CASE PutAssignment(c)
  <2>1. 0 \in Keys
    BY DEF Keys
  <2>2. /\ client' \in [Clients -> ClientType]
        /\ client'[c] = [pc |-> "apply", op |-> client[c].op, vid |-> client[c].vid,
                         key |-> 0, locked |-> client[c].locked]
        /\ \A d \in Clients \ {c} : client'[d] = client[d]
    BY <1>0, <1>4, <2>1, Advance DEF PutAssignment
  <2>3. client'[c].op = client[c].op /\ client'[c].locked = client[c].locked /\ client[c].pc # "idle"
    BY <1>4, <2>2 DEF PutAssignment
  <2> QED BY <2>2, <2>3
<1>5. CASE FinishAdd(c) \/ FailAdd(c) \/ FinishDelete(c)
  BY <1>0, <1>5 DEF FinishAdd, FailAdd, FinishDelete
<1> QED BY <1>1, <1>2, <1>3, <1>4, <1>5 DEF ClientStep

LEMMA AddsInit == Init => AddsOut /\ DeletesOut
BY IdleType DEF Init, AddsOut, DeletesOut, Saving

LEMMA AddsStep ==
    ASSUME AddsLocked, TInv, AddsOut, [Next]_vars
    PROVE  AddsOut'
<1>1. ASSUME NEW c \in Clients, ClientStep(c) PROVE AddsOut'
  <2>1. ckpt' = ckpt
    BY <1>1, ClientFrame
  <2>2. /\ \A d \in Clients \ {c} : client'[d] = client[d]
        /\ \/ Reserve(c) /\ client'[c].op = "add" /\ client'[c].pc = "assign"
           \/ StartDelete(c) /\ client'[c].op = "del" /\ client'[c].pc = "assign"
                             /\ client'[c].locked = FALSE
           \/ /\ client[c].pc # "idle"
              /\ client'[c].op = client[c].op /\ client'[c].locked = client[c].locked
           \/ client'[c] = IdleClient
    BY <1>1, ClientMoves
  <2>3. ASSUME Reserve(c) PROVE client'[c].locked /\ ckpt \in {"idle", "lock"}
    <3>1. PICK locked \in {TRUE} :
             /\ locked => ckpt \in {"idle", "lock"}
             /\ client' = [client EXCEPT ![c] =
                   [pc |-> "assign", op |-> "add", vid |-> ver.rows, key |-> 0, locked |-> locked]]
      BY <2>3 DEF Reserve, AddsLocked
    <3> QED BY <3>1 DEF TInv, TypeOK
  <2>4. /\ client'[c].pc # "idle" /\ client'[c].op = "add" => client'[c].locked
        /\ client'[c].locked => ckpt \in {"idle", "lock"}
    BY <2>2, <2>3, IdleType DEF AddsOut
  <2>5. ckpt \in Saving => jobs' = {}
    <3>1. ASSUME ckpt \in Saving, FinishAdd(c) PROVE FALSE
      <4>1. client[c].locked
        BY <3>1 DEF FinishAdd, AddsOut
      <4> QED BY <3>1, <4>1 DEF AddsOut, Saving
    <3>2. CASE FinishAdd(c)
      BY <3>1, <3>2
    <3>3. CASE ~FinishAdd(c)
      BY <1>1, <3>3 DEF ClientStep, Reserve, StartDelete, GetNewAssignmentID, PutAssignment, FailAdd,
                        FinishDelete, AddsOut
    <3> QED BY <3>2, <3>3
  <2> QED BY <2>1, <2>2, <2>4, <2>5 DEF AddsOut
<1>2. ASSUME NEW h \in Heads, Job(h) PROVE AddsOut'
  <2>1. jobs # {} /\ UNCHANGED <<client, ckpt>>
    BY <1>2, JobFrame DEF Job, Compact, Split
  <2> QED BY <2>1 DEF AddsOut
<1>3. CASE Checkpoint
  <2>1. client' = client /\ jobs' = jobs
    BY <1>3, CheckpointFrame
  <2>2. \/ ckpt' \in {"idle", "lock"}
        \/ ckpt' = "wait" /\ \A c \in Clients : ~client[c].locked
        \/ ckpt' \in Saving /\ ckpt = "wait" /\ jobs = {}
        \/ ckpt' \in Saving /\ ckpt \in Saving
    BY <1>3 DEF Checkpoint, CheckpointBegin, CheckpointLock, SaveVersionMap, SaveSums, SaveStore,
       DeleteRange, ResetSize, SaveHeads, CheckpointFails, AllFinished, Saving
  <2> QED BY <2>1, <2>2 DEF AddsOut, Saving
<1>4. CASE Crash
  BY <1>4, IdleType DEF Crash, AddsOut, Saving
<1>5. CASE Recover
  <2>1. client' = client /\ Stopped /\ ckpt' = "idle"
    BY <1>5 DEF Recover, LoadIndex, ReplayAdd, ReplayDelete, ReplayEnd, TInv, ModeOK, Stopped
  <2> QED BY <2>1, IdleType DEF AddsOut, Stopped, Saving
<1>6. CASE UNCHANGED vars
  BY <1>6 DEF vars, AddsOut
<1> QED BY <1>1, <1>2, <1>3, <1>4, <1>5, <1>6 DEF Next

LEMMA DeletesStep ==
    ASSUME DeletesApart, TInv, DeletesOut, [Next]_vars
    PROVE  DeletesOut'
<1>1. ASSUME NEW c \in Clients, ClientStep(c) PROVE DeletesOut'
  <2>1. ckpt' = ckpt
    BY <1>1, ClientFrame
  <2>2. /\ \A d \in Clients \ {c} : client'[d] = client[d]
        /\ \/ Reserve(c) /\ client'[c].op = "add" /\ client'[c].pc = "assign"
           \/ StartDelete(c) /\ client'[c].op = "del" /\ client'[c].pc = "assign"
           \/ /\ client[c].pc # "idle"
              /\ client'[c].op = client[c].op
           \/ client'[c] = IdleClient
    BY <1>1, ClientMoves
  <2>3. StartDelete(c) => ckpt = "idle"
    BY DEF StartDelete, DeletesApart
  <2> QED BY <2>1, <2>2, <2>3, IdleType DEF DeletesOut
<1>2. ASSUME NEW h \in Heads, Job(h) PROVE DeletesOut'
  BY <1>2, JobFrame DEF DeletesOut
<1>3. CASE Checkpoint
  <2>1. client' = client
    BY <1>3, CheckpointFrame
  <2>2. ckpt' = "idle" \/ ckpt # "idle" \/ ~Busy("del")
    BY <1>3 DEF Checkpoint, CheckpointBegin, CheckpointLock, SaveVersionMap, SaveSums, SaveStore,
       DeleteRange, ResetSize, SaveHeads, CheckpointFails, DeletesApart
  <2> QED BY <2>1, <2>2 DEF DeletesOut, Busy
<1>4. CASE Crash
  BY <1>4, IdleType DEF Crash, DeletesOut
<1>5. CASE Recover
  <2>1. client' = client /\ Stopped /\ ckpt' = "idle"
    BY <1>5 DEF Recover, LoadIndex, ReplayAdd, ReplayDelete, ReplayEnd, TInv, ModeOK, Stopped
  <2> QED BY <2>1, IdleType DEF DeletesOut, Stopped
<1>6. CASE UNCHANGED vars
  BY <1>6 DEF vars, DeletesOut
<1> QED BY <1>1, <1>2, <1>3, <1>4, <1>5, <1>6 DEF Next

(* While files are saved nobody appends.                                   *)
LEMMA SavingQuiet ==
    ASSUME AddsOut, ckpt \in Saving
    PROVE  jobs = {} /\ \A c \in Clients : client[c].pc # "idle" => client[c].op # "add"
BY DEF AddsOut, Saving

LEMMA SumsInit == Init => SumsInv
BY DEF Init, SumsInv, Saving

LEMMA SumsStep ==
    ASSUME ~CheckpointBreaks, TInv, AddsOut, SumsInv, [Next]_vars
    PROVE  SumsInv'
<1>0. /\ disk \in [ver : Versions, heads : HeadIndex, posting : Postings, sums : Postings]
      /\ posting \in Postings /\ sums = posting
  BY DEF TInv, TypeOK, SumsInv
<1>1. ASSUME NEW c \in Clients, ClientStep(c) PROVE SumsInv'
  <2>1. ckpt' = ckpt /\ disk' = disk
    BY <1>1, ClientFrame
  <2>2. CASE FinishAdd(c)
    <3>1. ckpt \notin Saving
      BY <2>2, SavingQuiet DEF FinishAdd
    <3>2. sums' = posting'
      BY <1>0, <2>2 DEF FinishAdd, AppendTo
    <3> QED BY <2>1, <3>1, <3>2 DEF SumsInv
  <2>3. CASE ~FinishAdd(c)
    <3>1. sums' = sums /\ posting' = posting
      BY <1>1, <2>3 DEF ClientStep, Reserve, StartDelete, GetNewAssignmentID, PutAssignment, FailAdd,
                        FinishDelete, index
    <3> QED BY <2>1, <3>1 DEF SumsInv
  <2> QED BY <2>2, <2>3
<1>2. ASSUME NEW h \in Heads, Job(h) PROVE SumsInv'
  <2>1. jobs # {} /\ UNCHANGED <<ckpt, disk>>
    BY <1>2, JobFrame DEF Job, Compact, Split
  <2>2. ckpt \notin Saving
    BY <2>1, SavingQuiet
  <2>3. sums' = posting'
    <3>1. CASE Compact(h)
      BY <1>0, <3>1 DEF Compact
    <3>2. CASE Split(h)
      BY <1>0, <3>2, SplitCases
    <3> QED BY <1>2, <3>1, <3>2 DEF Job
  <2> QED BY <2>1, <2>2, <2>3 DEF SumsInv
<1>3. CASE Checkpoint
  <2>1. sums' = sums /\ posting' = posting
    BY <1>3, CheckpointFrame
  <2>2. CASE SaveVersionMap
    BY <2>1, <2>2, <1>0 DEF SaveVersionMap, SumsInv, Saving
  <2>3. CASE SaveSums
    BY <2>1, <2>3, <1>0 DEF SaveSums, SumsInv, Saving
  <2>4. CASE SaveStore
    BY <2>1, <2>4, <1>0 DEF SaveStore, SumsInv, Saving
  <2>5. CASE SaveHeads
    BY <2>1, <2>5, <1>0 DEF SaveHeads, SumsInv, Saving
  <2>6. CASE DeleteRange \/ ResetSize
    BY <2>1, <2>6 DEF DeleteRange, ResetSize, durable, SumsInv, Saving
  <2>7. CASE CheckpointBegin \/ CheckpointLock \/ CheckpointFails
    BY <2>1, <2>7 DEF CheckpointBegin, CheckpointLock, CheckpointFails, durable, SumsInv, Saving
  <2> QED BY <1>3, <2>2, <2>3, <2>4, <2>5, <2>6, <2>7 DEF Checkpoint
<1>4. CASE Crash
  BY <1>4 DEF Crash, MayCrash, SumsInv, Saving, durable
<1>5. CASE Recover
  <2>1. disk' = disk /\ ckpt' = ckpt /\ ckpt = "idle"
    BY <1>5 DEF Recover, LoadIndex, ReplayAdd, ReplayDelete, ReplayEnd, TInv, ModeOK, Stopped, durable
  <2>2. sums' = posting'
    <3>1. CASE LoadIndex
      BY <2>1, <3>1 DEF LoadIndex, SumsInv, Saving
    <3>2. CASE ReplayAdd
      BY <1>0, <3>2 DEF ReplayAdd, AppendTo
    <3>3. CASE ReplayDelete \/ ReplayEnd
      BY <1>0, <3>3 DEF ReplayDelete, ReplayEnd, index
    <3> QED BY <1>5, <3>1, <3>2, <3>3 DEF Recover
  <2> QED BY <2>1, <2>2 DEF SumsInv, Saving
<1>6. CASE UNCHANGED vars
  BY <1>6 DEF vars, SumsInv
<1> QED BY <1>1, <1>2, <1>3, <1>4, <1>5, <1>6 DEF Next

(* If vectors are added under m_checkPointLock and the process does not    *)
(* die within Checkpoint, sizes and checksums describe the postings        *)
(* whenever the index is up: Checkpoint saves them in a file of their own  *)
(* before the store, and nobody appends in between.                        *)
THEOREM SumsStayMatched == AddsLocked /\ ~CheckpointBreaks => (Spec => []SumsMatch)
<1> SUFFICES ASSUME AddsLocked, ~CheckpointBreaks PROVE Spec => []SumsMatch
  OBVIOUS
<1> DEFINE I == TInv /\ AddsOut /\ SumsInv
<1>1. Init => I
  BY TypesInit, AddsInit, SumsInit
<1>2. I /\ [Next]_vars => I'
  BY TypesNext, AddsStep, SumsStep
<1>3. I => SumsMatch
  BY DEF SumsInv, SumsMatch
<1> QED BY <1>1, <1>2, <1>3, PTL DEF Spec

-----------------------------------------------------------------------------
(* Proofs: the log.                                                        *)

LEMMA SmallKey ==
    ASSUME NEW a \in Nat, a < Base
    PROVE  a % Base = a /\ a \div Base = 0
OBVIOUS

(* Keys of one byte are in the order of the integers.                      *)
LEMMA ByteOrder ==
    ASSUME OneByte
    PROVE  \A a \in Keys, b \in Keys : Before(a, b) <=> a < b
<1> SUFFICES ASSUME NEW a \in Keys, NEW b \in Keys PROVE Before(a, b) <=> a < b
  OBVIOUS
<1>1. a \in Nat /\ b \in Nat /\ a < Base /\ b < Base
  BY DEF Keys, OneByte
<1>2. a % Base = a /\ a \div Base = 0 /\ b % Base = b /\ b \div Base = 0
  BY <1>1, SmallKey
<1> QED BY <1>1, <1>2 DEF Before

LEMMA LogInit == Init => LogInv
BY EmptyLog, IdleType DEF Init, LogInv

(* A client is busy only before the checkpoint has its lock.               *)
LEMMA BusyEarly ==
    ASSUME TInv, AddsOut, DeletesOut, NEW c \in Clients, client[c].pc # "idle"
    PROVE  ckpt \in {"idle", "lock"}
<1>1. client[c].op \in {"add", "del"}
  BY DEF TInv, TypeOK
<1> QED BY <1>1 DEF AddsOut, DeletesOut

LEMMA WrittenKeys == \A l : Written(l) \subseteq Keys
BY DEF Written

LEMMA KeyNat == \A k \in Keys : k \in Nat
BY DEF Keys

(* The next position of the iterator, for keys of one byte.                *)
LEMMA ScanStep ==
    ASSUME OneByte, TInv, mode = "replay", cur # NoKey, NEW n, NextToScan(n)
    PROVE  /\ cur \in Written(snap) /\ cur \in Keys /\ size = cur + 1
           /\ \/ cur' = NoKey /\ size' = n /\ \A k \in Written(snap) : k <= cur
              \/ /\ cur' \in Written(snap) /\ size' = cur' + 1 /\ cur < cur'
                 /\ \A k \in Written(snap) : k <= cur \/ cur' <= k
<1>1. cur \in Written(snap) /\ cur \in Keys /\ size = cur + 1
  BY WrittenKeys DEF TInv, KeysOK
<1>2. \A k \in Written(snap) : k \in Keys /\ k \in Nat
  BY WrittenKeys, KeyNat
<1>3. CASE LastKey(snap, cur) /\ cur' = NoKey /\ size' = n
  <2>1. \A k \in Written(snap) : ~(cur < k)
    BY <1>1, <1>2, <1>3, ByteOrder DEF LastKey
  <2> QED BY <1>1, <1>2, <1>3, <2>1, KeyNat
<1>4. ASSUME NEW k \in Keys, IsNext(snap, cur, k), cur' = k, size' = k + 1
      PROVE  /\ cur' \in Written(snap) /\ size' = cur' + 1 /\ cur < cur'
             /\ \A j \in Written(snap) : j <= cur \/ cur' <= j
  <2>1. k \in Written(snap) /\ cur < k
    BY <1>1, <1>4, ByteOrder DEF IsNext
  <2>2. \A j \in Written(snap) : cur < j => ~(j < k)
    BY <1>1, <1>2, <1>4, ByteOrder DEF IsNext
  <2>3. \A j \in Written(snap) : j <= cur \/ k <= j
    BY <1>1, <1>2, <2>2, KeyNat
  <2> QED BY <1>4, <2>1, <2>3
<1> QED BY <1>1, <1>3, <1>4 DEF NextToScan

LEMMA LogStep ==
    ASSUME OneByte, TInv, TInv', AddsOut, DeletesOut, LogInv, [Next]_vars
    PROVE  LogInv'
<1>0. size \in Nat /\ \A k \in Written(log) : k \in Nat
  BY WrittenKeys, KeyNat DEF TInv, TypeOK
<1>1. ASSUME NEW c \in Clients, ClientStep(c) PROVE LogInv'
  <2>1. UNCHANGED <<mode, ckpt>> /\ mode = "up"
    BY <1>1, ClientFrame
  <2>2. client \in [Clients -> ClientType] /\ client[c] \in ClientType
    BY DEF TInv, TypeOK, ClientType
  <2>3. /\ \A k \in Written(log) : k < size
        /\ \A d \in Clients : client[d].pc = "log" => client[d].key < size
    BY <2>1 DEF LogInv
  <2>4. CASE GetNewAssignmentID(c)
    <3>1. size \in Keys
      BY <2>4 DEF GetNewAssignmentID, TInv, TypeOK, Keys
    <3>2. /\ client' \in [Clients -> ClientType]
          /\ client'[c] = [pc |-> "log", op |-> client[c].op, vid |-> client[c].vid,
                           key |-> size, locked |-> client[c].locked]
          /\ \A d \in Clients \ {c} : client'[d] = client[d]
      BY <2>2, <2>4, <3>1, Advance DEF GetNewAssignmentID
    <3>3. size' = size + 1 /\ log' = log /\ client'[c].key = size
      BY <2>4, <3>2 DEF GetNewAssignmentID, durable
    <3>4. \A k \in Written(log) : k < size + 1
      BY <1>0, <2>3
    <3>5. ASSUME NEW d \in Clients, client'[d].pc = "log" PROVE client'[d].key < size + 1
      <4>1. CASE d = c
        BY <1>0, <3>3, <4>1
      <4>2. CASE d # c
        <5>1. client[d].key < size /\ client'[d].key = client[d].key /\ client[d].key \in Keys
          BY <2>2, <2>3, <3>2, <3>5, <4>2 DEF ClientType
        <5> QED BY <1>0, <5>1, KeyNat
      <4> QED BY <4>1, <4>2
    <3> QED BY <2>1, <3>3, <3>4, <3>5 DEF LogInv
  <2>5. CASE PutAssignment(c)
    <3>1. ckpt \in {"idle", "lock"}
      BY <2>5, BusyEarly DEF PutAssignment
    <3>2. /\ client' \in [Clients -> ClientType]
          /\ client'[c] = [pc |-> "apply", op |-> client[c].op, vid |-> client[c].vid,
                           key |-> 0, locked |-> client[c].locked]
          /\ \A d \in Clients \ {c} : client'[d] = client[d]
      <4>1. 0 \in Keys
        BY DEF Keys
      <4> QED BY <2>2, <2>5, <4>1, Advance DEF PutAssignment
    <3>3. client[c].key \in Keys /\ log \in Logs
      BY <2>2 DEF ClientType, TInv, TypeOK
    <3>4. Written(log') = Written(log) \cup {client[c].key}
      BY <2>2, <2>5, <3>3, RecordOf, WriteRecord DEF PutAssignment
    <3>5. size' = size /\ client[c].key < size
      BY <2>3, <2>5 DEF PutAssignment
    <3>6. \A d \in Clients : client'[d].pc = "log" => client'[d].key < size
      BY <2>3, <3>2
    <3> QED BY <2>1, <2>3, <3>1, <3>4, <3>5, <3>6 DEF LogInv
  <2>6. CASE ~GetNewAssignmentID(c) /\ ~PutAssignment(c)
    <3>1. log' = log /\ size' = size
      BY <1>1, <2>6 DEF ClientStep, Reserve, StartDelete, FinishAdd, FailAdd, FinishDelete, durable
    <3>2. client'[c].pc # "log"
      <4>1. client'[c].pc = "assign" \/ client'[c] = IdleClient
        BY <1>1, <2>2, <2>6, ClientMoves
        DEF ClientStep, Reserve, StartDelete, FinishAdd, FailAdd, FinishDelete
      <4> QED BY <4>1, IdleType
    <3>3. \A d \in Clients \ {c} : client'[d] = client[d]
      BY <1>1, ClientMoves
    <3> QED BY <2>1, <3>1, <3>2, <3>3 DEF LogInv
  <2> QED BY <2>4, <2>5, <2>6
<1>2. ASSUME NEW h \in Heads, Job(h) PROVE LogInv'
  BY <1>2, JobFrame DEF LogInv
<1>3. CASE Checkpoint
  <2>1. /\ mode' = mode /\ mode = "up" /\ client' = client
        /\ \A k \in Written(log) : k < size
        /\ \A d \in Clients : client[d].pc = "log" => client[d].key < size
    BY <1>3, CheckpointFrame DEF LogInv
  <2>2. CASE DeleteRange
    <3>1. size \in Keys
      BY DEF TInv, TypeOK, KeysOK, Keys
    <3>2. log' = [k \in Keys |-> IF Before(k, size) THEN NoRecord ELSE log[k]] /\ size' = size
      BY <2>2 DEF DeleteRange
    <3>3. Written(log') = {}
      BY <2>1, <3>1, <3>2, ByteOrder DEF Written
    <3> QED BY <2>1, <3>2, <3>3 DEF LogInv
  <2>3. CASE ResetSize
    <3>1. Written(log) = {} /\ log' = log
      BY <2>3 DEF ResetSize, LogInv, durable
    <3>2. \A d \in Clients : client[d].pc = "idle"
      BY <2>3, BusyEarly DEF ResetSize
    <3> QED BY <2>1, <3>1, <3>2 DEF LogInv
  <2>4. CASE ~DeleteRange /\ ~ResetSize
    <3>1. size' = size /\ log' = log
      BY <1>3, <2>4 DEF Checkpoint, CheckpointBegin, CheckpointLock, SaveVersionMap, SaveSums, SaveStore,
             SaveHeads, CheckpointFails, durable
    <3>2. ckpt' \notin {"reset", "heads"}
      BY <1>3, <2>4 DEF Checkpoint, CheckpointBegin, CheckpointLock, SaveVersionMap, SaveSums, SaveStore,
             SaveHeads, CheckpointFails
    <3> QED BY <2>1, <3>1, <3>2 DEF LogInv
  <2> QED BY <2>2, <2>3, <2>4
<1>4. CASE Crash
  BY <1>4 DEF Crash, LogInv
<1>5. CASE LoadIndex
  <2>1. /\ log' = log /\ snap' = log /\ client' = client /\ ckpt' = "idle" /\ Stopped
    BY <1>5 DEF LoadIndex, TInv, ModeOK, Stopped, durable
  <2>2. \/ mode' = "up" /\ Written(log) = {}
        \/ mode' = "replay" /\ cur' # NoKey
    BY <1>5, KeyNat DEF LoadIndex, NoKey
  <2>3. \A d \in Clients : client'[d].pc = "idle"
    BY <2>1, IdleType DEF Stopped
  <2> QED BY <2>1, <2>2, <2>3 DEF LogInv
<1>6. CASE ReplayAdd \/ ReplayDelete
  <2>1. /\ mode = "replay" /\ mode' = mode /\ cur # NoKey /\ snap' = snap /\ ckpt' = ckpt /\ ckpt = "idle"
    BY <1>6 DEF ReplayAdd, ReplayDelete, TInv, ModeOK, Stopped
  <2>2. PICK n \in {size, size + 1} :
           /\ NextToScan(n)
           /\ \/ log' = log
              \/ n = size + 1 /\ log' = [log EXCEPT ![size] = snap[cur]] /\ snap[cur].op = "add"
    BY <1>6 DEF ReplayAdd, ReplayDelete, durable
  <2>3. /\ cur \in Written(snap) /\ cur \in Keys /\ size = cur + 1
        /\ \/ cur' = NoKey /\ size' = n /\ \A k \in Written(snap) : k <= cur
           \/ /\ cur' \in Written(snap) /\ size' = cur' + 1 /\ cur < cur'
              /\ \A k \in Written(snap) : k <= cur \/ cur' <= k
    BY <2>1, <2>2, ScanStep
  <2>4. \A k \in Written(log') : k \in Written(log) \/ (k = size /\ n = size + 1)
    BY <2>2 DEF Written, TInv, TypeOK, Logs
  <2>5. cur \in Nat /\ \A k \in Written(log') \cup Written(snap) : k \in Nat
    BY <2>3, WrittenKeys, KeyNat
  <2>6. ASSUME NEW k \in Written(log') PROVE k < size' \/ (k \in Written(snap) /\ cur' # NoKey)
    <3>1. k < size \/ k \in Written(snap) \/ (k = size /\ n = size + 1)
      BY <2>1, <2>4, <2>6 DEF LogInv
    <3>2. CASE cur' = NoKey /\ size' = n /\ \A j \in Written(snap) : j <= cur
      <4>1. k <= cur \/ k < size \/ (k = size /\ n = size + 1)
        BY <3>1, <3>2
      <4>2. k < n
        <5>1. cur \in Nat /\ k \in Nat /\ size = cur + 1
          BY <2>3, <2>5, <2>6
        <5>2. n \in {size, size + 1}
          OBVIOUS
        <5> QED BY ONLY <4>1, <5>1, <5>2
      <4> QED BY <3>2, <4>2
    <3>3. CASE cur' \in Written(snap) /\ size' = cur' + 1 /\ cur < cur'
      <4>1. PICK m \in Nat : m = cur'
        BY <2>5, <3>3
      <4>2. k \in Written(snap) \/ k < m + 1
        <5>1. cur \in Nat /\ k \in Nat /\ m \in Nat /\ size = cur + 1 /\ cur < m
          BY <2>3, <2>5, <2>6, <3>3, <4>1
        <5>2. k < size \/ k \in Written(snap) \/ k = size
          BY <3>1
        <5> QED BY ONLY <5>1, <5>2
      <4>3. m # NoKey
        BY <4>1 DEF NoKey
      <4> QED BY <3>3, <4>1, <4>2, <4>3
    <3> QED BY <2>3, <3>2, <3>3
  <2> QED BY <2>1, <2>6 DEF LogInv
<1>7. CASE ReplayEnd
  <2>1. /\ mode = "replay" /\ mode' = "up" /\ cur = NoKey /\ ckpt' = "idle" /\ Stopped
        /\ log' = log /\ size' = size /\ client' = client
    BY <1>7 DEF ReplayEnd, TInv, ModeOK, Stopped, durable
  <2>2. \A d \in Clients : client'[d].pc = "idle"
    BY <2>1, IdleType DEF Stopped
  <2> QED BY <2>1, <2>2 DEF LogInv
<1>8. CASE UNCHANGED vars
  BY <1>8 DEF vars, LogInv
<1> QED BY <1>1, <1>2, <1>3, <1>4, <1>5, <1>6, <1>7, <1>8 DEF Next, Recover

(* If nobody adds without the lock or deletes during a checkpoint, and     *)
(* keys differ in one byte only, no record is left once ClearPreviousRecord*)
(* has deleted the range and reset its counter, whatever replays and       *)
(* crashes, within a checkpoint too, came before.                          *)
THEOREM LogStaysTruncated == AddsLocked /\ DeletesApart /\ OneByte => (Spec => []LogTruncated)
<1> SUFFICES ASSUME AddsLocked, DeletesApart, OneByte PROVE Spec => []LogTruncated
  OBVIOUS
<1> DEFINE I == TInv /\ AddsOut /\ DeletesOut /\ LogInv
<1>1. Init => I
  BY TypesInit, AddsInit, LogInit
<1>2. I /\ [Next]_vars => I'
  BY TypesNext, AddsStep, DeletesStep, LogStep
<1>3. I => LogTruncated
  BY DEF LogInv, LogTruncated
<1> QED BY <1>1, <1>2, <1>3, PTL DEF Spec

-----------------------------------------------------------------------------
(* Proofs: durability.                                                     *)

(* A split or a compaction hides no vector.                                *)
LEMMA JobKeeps ==
    ASSUME TInv, NEW h \in Heads, Job(h), NEW v \in Vids, Searchable(v)
    PROVE  Searchable(v)'
<1>1. ver' = ver
  BY JobFrame
<1>2. PICK g \in heads.live : v \in posting[g]
  BY DEF Searchable
<1>3. v \notin ver.deleted /\ v < ver.rows
  BY DEF Searchable
<1>4. posting \in [Heads -> SUBSET Vids] /\ g \in Heads
  BY DEF TInv, TypeOK, Postings, HeadIndex
<1>5. CASE Compact(h)
  <2>1. heads' = heads /\ v \in posting'[g]
    BY <1>2, <1>3, <1>4, <1>5 DEF Compact
  <2> QED BY <1>1, <1>3, <2>1 DEF Searchable
<1>6. CASE Split(h)
  <2>1. h < heads.rows /\ g < heads.rows /\ h \in Nat /\ g \in Nat /\ heads.rows \in Nat
    BY <1>2, <1>4, <1>6, SplitCases DEF TInv, TypeOK, HeadIndex, Heads
  <2>2. PICK S \in SUBSET (posting[h] \ ver.deleted), T \in SUBSET (posting[h] \ ver.deleted) :
                 /\ S \cup T = posting[h] \ ver.deleted
                 /\ \/ /\ heads.rows \in Heads
                       /\ posting' = [posting EXCEPT ![h] = T, ![heads.rows] = S]
                       /\ heads' = [rows |-> heads.rows + 1, live |-> heads.live \cup {heads.rows}]
                    \/ /\ heads.rows \in Heads /\ heads.rows + 1 \in Heads
                       /\ posting' = [posting EXCEPT ![h] = {}, ![heads.rows] = S, ![heads.rows + 1] = T]
                       /\ heads' = [rows |-> heads.rows + 2,
                                    live |-> (heads.live \ {h}) \cup {heads.rows, heads.rows + 1}]
    BY <1>6, SplitCases
  <2>3. \E f \in heads'.live : v \in posting'[f]
    <3>0. heads.rows # h /\ heads.rows + 1 # h /\ heads.rows # g /\ heads.rows + 1 # g
          /\ heads.rows # heads.rows + 1
      BY <2>1
    <3>1. CASE g # h
      <4>1. posting'[g] = posting[g] /\ g \in heads'.live
        BY <1>4, <2>2, <3>0, <3>1
      <4> QED BY <1>2, <4>1
    <3>2. CASE g = h
      <4>1. v \in S \/ v \in T
        BY <1>2, <1>3, <2>2, <3>2
      <4>2. CASE /\ heads.rows \in Heads
                 /\ posting' = [posting EXCEPT ![h] = T, ![heads.rows] = S]
                 /\ heads' = [rows |-> heads.rows + 1, live |-> heads.live \cup {heads.rows}]
        <5>1. posting'[h] = T /\ posting'[heads.rows] = S /\ h \in heads'.live /\ heads.rows \in heads'.live
          BY <1>4, <3>0, <3>2, <4>2
        <5> QED BY <4>1, <5>1
      <4>3. CASE /\ heads.rows \in Heads /\ heads.rows + 1 \in Heads
                 /\ posting' = [posting EXCEPT ![h] = {}, ![heads.rows] = S, ![heads.rows + 1] = T]
                 /\ heads' = [rows |-> heads.rows + 2,
                              live |-> (heads.live \ {h}) \cup {heads.rows, heads.rows + 1}]
        <5>1. posting'[heads.rows + 1] = T /\ posting'[heads.rows] = S
              /\ heads.rows \in heads'.live /\ heads.rows + 1 \in heads'.live
          BY <1>4, <3>0, <4>3
        <5> QED BY <4>1, <5>1
      <4> QED BY <2>2, <4>2, <4>3
    <3> QED BY <3>1, <3>2
  <2> QED BY <1>1, <1>3, <2>3 DEF Searchable
<1> QED BY <1>5, <1>6 DEF Job

(* An append hides no vector, and shows the new one.                       *)
LEMMA AppendKeeps ==
    ASSUME TInv, NEW h \in heads.live, NEW w \in Vids, AppendTo(h, w), heads' = heads,
           NEW v \in Vids, v < ver'.rows, v \notin ver'.deleted, v = w \/ Searchable(v)
    PROVE  Searchable(v)'
<1>1. posting \in [Heads -> SUBSET Vids] /\ h \in Heads /\ heads.live \subseteq Heads
  BY DEF TInv, TypeOK, Postings, HeadIndex
<1>2. posting' = [posting EXCEPT ![h] = posting[h] \cup {w}]
  BY DEF AppendTo
<1>3. \E g \in heads.live : v \in posting'[g]
  <2>1. CASE v = w
    BY <1>1, <1>2, <2>1
  <2>2. CASE Searchable(v)
    <3>1. PICK g \in heads.live : v \in posting[g]
      BY <2>2 DEF Searchable
    <3>2. v \in posting'[g]
      BY <1>1, <1>2, <3>1
    <3> QED BY <3>2
  <2> QED BY <2>1, <2>2
<1> QED BY <1>3 DEF Searchable

(* A record that is written to a free key takes nothing from the log.      *)
LEMMA LogGrows ==
    ASSUME disk' = disk, log \in Logs, NEW n \in Keys, NEW r \in Record, log[n].op = "none",
           log' = [log EXCEPT ![n] = r]
    PROVE  /\ \A v : (\E k \in Keys : Adds(log[k], v)) => \E k \in Keys : Adds(log'[k], v)
           /\ \A v, d : RowBefore(log, v, d) => RowBefore(log, v, d)'
           /\ \A v : IsDeleted(log, v) => IsDeleted(log, v)'
<1>1. /\ log'[n] = r
      /\ \A k \in Keys \ {n} : log'[k] = log[k]
  BY WriteRecord
<1>2. \A k \in Keys : log[k].op # "none" => log'[k] = log[k]
  BY <1>1
<1>3. \A v : (\E k \in Keys : Adds(log[k], v)) => \E k \in Keys : Adds(log'[k], v)
  BY <1>2 DEF Adds
<1>4. ASSUME NEW v, NEW d, RowBefore(log, v, d) PROVE RowBefore(log, v, d)'
  BY <1>2, <1>4 DEF RowBefore
<1>5. ASSUME NEW v, IsDeleted(log, v) PROVE IsDeleted(log, v)'
  BY <1>2, <1>4, <1>5 DEF IsDeleted, Deletes
<1> QED BY <1>3, <1>4, <1>5

LEMMA RecordOp ==
    ASSUME NEW l \in Logs, NEW k \in Keys
    PROVE  /\ k \in Written(l) <=> l[k].op # "none"
           /\ l[k].op \in {"add", "del", "none"} /\ l[k].vid \in Vids
BY DEF Logs, Written, Record, NoRecord, Vids

LEMMA DurableInit == Init => DurableInv
<1> SUFFICES ASSUME Init PROVE DurableInv
  OBVIOUS
<1>1. /\ ver = [rows |-> 1, deleted |-> {}] /\ heads = [rows |-> 1, live |-> {0}] /\ 0 \in posting[0]
      /\ disk.ver = ver /\ disk.heads = heads /\ disk.posting = posting
      /\ added = {0} /\ tried = {} /\ removed = {} /\ ckpt = "idle" /\ mode = "up"
  BY DEF Init, Heads
<1>2. \A k \in Keys : log[k].op = "none"
  BY DEF Init, NoLog, NoRecord
<1>3. Backed(log)
  BY <1>1, <1>2 DEF Backed, InFiles, HasRow
<1>4. CallsLogged
  BY IdleType DEF Init, CallsLogged, CallLogged
<1>5. Visible
  BY <1>1 DEF Visible, Searchable
<1> QED BY <1>1, <1>3, <1>4, <1>5 DEF DurableInv, Saving

(* Clients move only before the checkpoint has its lock.                   *)
LEMMA ClientEarly ==
    ASSUME Careful, TInv, AddsOut, DeletesOut, NEW c \in Clients, ClientStep(c)
    PROVE  ckpt \in {"idle", "lock"}
<1>1. CASE Reserve(c)
  <2>1. PICK locked \in {TRUE} : locked => ckpt \in {"idle", "lock"}
    BY <1>1 DEF Reserve, Careful, AddsLocked
  <2> QED BY <2>1
<1>2. CASE StartDelete(c)
  BY <1>2 DEF StartDelete, Careful, DeletesApart
<1>3. CASE ~Reserve(c) /\ ~StartDelete(c)
  <2>1. client[c].pc # "idle"
    BY <1>3 DEF ClientStep, GetNewAssignmentID, PutAssignment, FinishAdd, FailAdd, FinishDelete
  <2> QED BY <2>1, BusyEarly
<1> QED BY <1>1, <1>2, <1>3

(* The facts about a call that has not moved, while files and log stay.    *)
LEMMA OthersLogged ==
    ASSUME NEW c \in Clients, CallsLogged, UNCHANGED <<disk, log>>,
           \A d \in Clients \ {c} : client'[d] = client[d],
           client'[c].pc # "log", client'[c].pc # "apply"
    PROVE  CallsLogged'
<1> SUFFICES ASSUME NEW d \in Clients PROVE CallLogged(d)'
  BY DEF CallsLogged
<1>1. CASE d = c
  BY <1>1 DEF CallLogged
<1>2. CASE d # c
  <2>1. CallLogged(d) /\ client'[d] = client[d]
    BY <1>2 DEF CallsLogged
  <2>2. \A e \in Clients \ {d} : client'[e].pc = "log" => client[e].pc = "log" /\ client'[e].key = client[e].key
    OBVIOUS
  <2>3. /\ RowBefore(log, client[d].vid, client[d].key)' <=> RowBefore(log, client[d].vid, client[d].key)
        /\ IsDeleted(log, client[d].vid)' <=> IsDeleted(log, client[d].vid)
    BY <2>1 DEF RowBefore, IsDeleted
  <2> QED BY <2>1, <2>2, <2>3 DEF CallLogged
<1> QED BY <1>1, <1>2

(* What DurableInv says while a client moves.                              *)
LEMMA ClientGoal ==
    ASSUME Careful, TInv, AddsOut, DeletesOut, DurableInv, NEW c \in Clients, ClientStep(c),
           ~replayed => Backed(log)' /\ CallsLogged',
           Visible'
    PROVE  DurableInv'
<1>1. ckpt' = ckpt /\ ckpt \in {"idle", "lock"} /\ mode' = mode /\ mode = "up" /\ replayed' = replayed
  BY ClientEarly, ClientFrame
<1> QED BY <1>1 DEF DurableInv, Saving

LEMMA ReserveDurable ==
    ASSUME Careful, TInv, AddsOut, DeletesOut, DurableInv, NEW c \in Clients, Reserve(c)
    PROVE  DurableInv'
<1>1. ClientStep(c)
  BY DEF ClientStep
<1>2. ckpt \in {"idle", "lock"} /\ mode = "up"
  BY <1>1, ClientEarly, ClientFrame
<1>3. UNCHANGED <<disk, log, heads, posting, added, tried, removed>>
  BY DEF Reserve, durable, history
<1>4. \A d \in Clients \ {c} : client'[d] = client[d]
  BY <1>1, ClientMoves
<1>5. client'[c].pc = "assign"
  <2>1. PICK locked \in BOOLEAN :
          client' = [client EXCEPT ![c] =
             [pc |-> "assign", op |-> "add", vid |-> ver.rows, key |-> 0, locked |-> locked]]
    BY DEF Reserve
  <2> QED BY <2>1 DEF TInv, TypeOK
<1>6. ASSUME ~replayed PROVE Backed(log)' /\ CallsLogged'
  <2>1. Backed(log) /\ CallsLogged
    BY <1>2, <1>6 DEF DurableInv, Saving
  <2>2. CallsLogged'
    BY <1>3, <1>4, <1>5, <2>1, OthersLogged
  <2>3. Backed(log)'
    BY <1>3, <2>1 DEF Backed, InFiles, HasRow, IsDeleted, RowBefore
  <2> QED BY <2>2, <2>3
<1>7. Visible'
  <2>1. ver'.rows = ver.rows + 1 /\ ver'.deleted = ver.deleted /\ ver.rows \in Nat /\ added \subseteq Nat
    BY DEF Reserve, TInv, TypeOK, Versions, Vids
  <2> QED BY <1>2, <1>3, <2>1 DEF DurableInv, Visible, Searchable
<1> QED BY <1>1, <1>6, <1>7, ClientGoal

LEMMA StartDeleteDurable ==
    ASSUME Careful, TInv, AddsOut, DeletesOut, DurableInv, NEW c \in Clients, StartDelete(c)
    PROVE  DurableInv'
<1>1. ClientStep(c)
  BY DEF ClientStep
<1>2. ckpt \in {"idle", "lock"} /\ mode = "up"
  BY <1>1, ClientEarly, ClientFrame
<1>3. UNCHANGED <<disk, log, ver, heads, posting, added, removed>> /\ tried \subseteq tried'
  BY DEF StartDelete, durable, index
<1>4. \A d \in Clients \ {c} : client'[d] = client[d]
  BY <1>1, ClientMoves
<1>5. client'[c].pc = "assign"
  BY DEF StartDelete, TInv, TypeOK
<1>6. ASSUME ~replayed PROVE Backed(log)' /\ CallsLogged'
  <2>1. Backed(log) /\ CallsLogged
    BY <1>2, <1>6 DEF DurableInv, Saving
  <2>2. CallsLogged'
    BY <1>3, <1>4, <1>5, <2>1, OthersLogged
  <2>3. Backed(log)'
    BY <1>3, <2>1 DEF Backed, InFiles, HasRow, IsDeleted, RowBefore
  <2> QED BY <2>2, <2>3
<1>7. Visible'
  BY <1>2, <1>3 DEF DurableInv, Visible, Searchable
<1> QED BY <1>1, <1>6, <1>7, ClientGoal

LEMMA FailAddDurable ==
    ASSUME Careful, TInv, AddsOut, DeletesOut, DurableInv, NEW c \in Clients, FailAdd(c)
    PROVE  DurableInv'
<1>1. ClientStep(c)
  BY DEF ClientStep
<1>2. ckpt \in {"idle", "lock"} /\ mode = "up"
  BY <1>1, ClientEarly, ClientFrame
<1>3. UNCHANGED <<disk, log, ver, heads, posting, added, removed, tried>>
  BY DEF FailAdd, durable, index, history
<1>4. \A d \in Clients \ {c} : client'[d] = client[d]
  BY <1>1, ClientMoves
<1>5. client'[c].pc = "idle"
  BY IdleType DEF FailAdd, TInv, TypeOK
<1>6. ASSUME ~replayed PROVE Backed(log)' /\ CallsLogged'
  <2>1. Backed(log) /\ CallsLogged
    BY <1>2, <1>6 DEF DurableInv, Saving
  <2>2. CallsLogged'
    BY <1>3, <1>4, <1>5, <2>1, OthersLogged
  <2>3. Backed(log)'
    BY <1>3, <2>1 DEF Backed, InFiles, HasRow, IsDeleted, RowBefore
  <2> QED BY <2>2, <2>3
<1>7. Visible'
  BY <1>2, <1>3 DEF DurableInv, Visible, Searchable
<1> QED BY <1>1, <1>6, <1>7, ClientGoal

LEMMA FinishAddDurable ==
    ASSUME Careful, TInv, AddsOut, DeletesOut, DurableInv, NEW c \in Clients, FinishAdd(c)
    PROVE  DurableInv'
<1>1. ClientStep(c)
  BY DEF ClientStep
<1>2. ckpt \in {"idle", "lock"} /\ mode = "up"
  BY <1>1, ClientEarly, ClientFrame
<1>3. /\ UNCHANGED <<disk, log, ver, heads, removed, tried>> /\ added' = added \cup {client[c].vid}
      /\ client[c].pc = "apply" /\ client[c].op = "add"
  BY DEF FinishAdd, durable
<1>4. \A d \in Clients \ {c} : client'[d] = client[d]
  BY <1>1, ClientMoves
<1>5. client'[c].pc = "idle"
  BY IdleType DEF FinishAdd, TInv, TypeOK
<1>6. ASSUME ~replayed PROVE Backed(log)' /\ CallsLogged'
  <2>1. Backed(log) /\ CallsLogged
    BY <1>2, <1>6 DEF DurableInv, Saving
  <2>2. CallsLogged'
    BY <1>3, <1>4, <1>5, <2>1, OthersLogged
  <2>3. \E k \in Keys : Adds(log[k], client[c].vid)
    BY <1>3, <2>1 DEF CallsLogged, CallLogged
  <2>4. Backed(log)'
    BY <1>3, <2>1, <2>3 DEF Backed, InFiles, HasRow, IsDeleted, RowBefore
  <2> QED BY <2>2, <2>4
<1>7. Visible'
  <2>1. client[c].vid \in Vids /\ client[c].vid < ver.rows /\ added \subseteq Vids
    BY <1>3 DEF TInv, TypeOK, CallsOK
  <2>2. PICK h \in heads.live : AppendTo(h, client[c].vid)
    BY DEF FinishAdd
  <2>3. Visible
    BY <1>2 DEF DurableInv
  <2>4. \A v \in added' : v < ver'.rows
    BY <1>3, <2>1, <2>3 DEF Visible
  <2>5. ASSUME NEW v \in added' \ tried' PROVE Searchable(v)'
    <3>1. v \in Vids /\ v < ver'.rows /\ v \notin ver'.deleted
      BY <1>3, <2>1, <2>3, <2>4 DEF Visible
    <3>2. v = client[c].vid \/ Searchable(v)
      BY <1>3, <2>3 DEF Visible
    <3> QED BY <1>3, <2>1, <2>2, <3>1, <3>2, AppendKeeps
  <2> QED BY <1>3, <2>3, <2>4, <2>5 DEF Visible
<1> QED BY <1>1, <1>6, <1>7, ClientGoal

LEMMA FinishDeleteDurable ==
    ASSUME Careful, TInv, AddsOut, DeletesOut, DurableInv, NEW c \in Clients, FinishDelete(c)
    PROVE  DurableInv'
<1>1. ClientStep(c)
  BY DEF ClientStep
<1>2. ckpt \in {"idle", "lock"} /\ mode = "up"
  BY <1>1, ClientEarly, ClientFrame
<1>3. /\ UNCHANGED <<disk, log, heads, posting, added, tried>> /\ removed' = removed \cup {client[c].vid}
      /\ client[c].pc = "apply" /\ client[c].op = "del"
      /\ ver' = [ver EXCEPT !.deleted = Marked(client[c].vid)]
  BY DEF FinishDelete, durable
<1>4. \A d \in Clients \ {c} : client'[d] = client[d]
  BY <1>1, ClientMoves
<1>5. client'[c].pc = "idle"
  BY IdleType DEF FinishDelete, TInv, TypeOK
<1>6. ASSUME ~replayed PROVE Backed(log)' /\ CallsLogged'
  <2>1. Backed(log) /\ CallsLogged
    BY <1>2, <1>6 DEF DurableInv, Saving
  <2>2. CallsLogged'
    BY <1>3, <1>4, <1>5, <2>1, OthersLogged
  <2>3. IsDeleted(log, client[c].vid)
    BY <1>3, <2>1 DEF CallsLogged, CallLogged
  <2>4. Backed(log)'
    BY <1>3, <2>1, <2>3 DEF Backed, InFiles, HasRow, IsDeleted, RowBefore
  <2> QED BY <2>2, <2>4
<1>7. Visible'
  <2>1. Visible
    BY <1>2 DEF DurableInv
  <2>2. client[c].vid \in tried /\ client[c].vid \in added
    BY <1>3 DEF TInv, TypeOK, CallsOK
  <2>3. client[c].vid < ver.rows
    BY <2>1, <2>2 DEF Visible
  <2>4. ver'.rows = ver.rows /\ ver'.deleted = ver.deleted \cup {client[c].vid}
    BY <1>3, <2>3 DEF Marked, TInv, TypeOK, Versions
  <2> QED BY <1>3, <2>1, <2>2, <2>4 DEF Visible, Searchable
<1> QED BY <1>1, <1>6, <1>7, ClientGoal

LEMMA GetKeyDurable ==
    ASSUME Careful, TInv, AddsOut, DeletesOut, LogInv, DurableInv,
           NEW c \in Clients, GetNewAssignmentID(c)
    PROVE  DurableInv'
<1>1. ClientStep(c)
  BY DEF ClientStep
<1>2. ckpt \in {"idle", "lock"} /\ mode = "up"
  BY <1>1, ClientEarly, ClientFrame
<1>3. UNCHANGED <<disk, log, ver, heads, posting, added, removed, tried>>
  BY DEF GetNewAssignmentID, durable, index, history
<1>4. size \in Keys /\ size \in Nat
  BY DEF GetNewAssignmentID, TInv, TypeOK, Keys
<1>5. client \in [Clients -> ClientType] /\ client[c].pc = "assign"
  BY DEF GetNewAssignmentID, TInv, TypeOK, ClientType
<1>6. /\ client' \in [Clients -> ClientType]
      /\ client'[c] = [pc |-> "log", op |-> client[c].op, vid |-> client[c].vid,
                       key |-> size, locked |-> client[c].locked]
      /\ \A d \in Clients \ {c} : client'[d] = client[d]
  BY <1>4, <1>5, Advance DEF GetNewAssignmentID
<1>7. client'[c].pc = "log" /\ client'[c].op = client[c].op /\ client'[c].vid = client[c].vid
      /\ client'[c].key = size
  BY <1>6
<1>8. log \in Logs /\ \A k \in Written(log) : k < size
  BY <1>2 DEF LogInv, TInv, TypeOK
<1>9. \A d \in Clients \ {c} : client[d].pc = "log" => client[d].key # size
  <2>1. \A d \in Clients : client[d].pc = "log" => client[d].key < size
    BY <1>2 DEF LogInv
  <2> QED BY <1>4, <2>1
<1>10. ASSUME ~replayed PROVE Backed(log)' /\ CallsLogged'
  <2>1. Backed(log) /\ CallsLogged
    BY <1>2, <1>10 DEF DurableInv, Saving
  <2>2. Backed(log)'
    BY <1>3, <2>1 DEF Backed, InFiles, HasRow, IsDeleted, RowBefore
  <2>3. log[size].op = "none"
    BY <1>4, <1>8, RecordOp
  <2>4. ASSUME client[c].op = "del" PROVE RowBefore(log, client[c].vid, size)
    <3>1. client[c].vid \in added
      BY <1>5, <2>4 DEF TInv, TypeOK, CallsOK
    <3>2. HasRow(log, client[c].vid)
      BY <2>1, <3>1 DEF Backed
    <3>3. ASSUME NEW k \in Keys, Adds(log[k], client[c].vid)
          PROVE  log[k].op = "add" /\ log[k].vid >= client[c].vid /\ k < size
      <4>1. log[k].op = "add" /\ log[k].vid = client[c].vid /\ client[c].vid \in Nat
        BY <1>5, <3>3 DEF Adds, ClientType, Vids
      <4>2. k < size
        BY <1>8, <4>1, RecordOp
      <4> QED BY <4>1, <4>2
    <3> QED BY <3>2, <3>3 DEF HasRow, RowBefore
  <2>5. ASSUME NEW d \in Clients PROVE CallLogged(d)'
    <3>1. CASE d = c
      <4>1. (client[d].op = "del" => RowBefore(log, client[d].vid, client[d].key))'
        BY <1>3, <1>7, <2>4, <3>1 DEF RowBefore
      <4>2. \A e \in Clients \ {d} : client'[e].pc = "log" => client'[e].key # client'[d].key
        BY <1>6, <1>7, <1>9, <3>1
      <4>3. log'[client'[d].key].op = "none" /\ client'[d].pc = "log"
        BY <1>3, <1>7, <2>3, <3>1
      <4> QED BY <4>1, <4>2, <4>3 DEF CallLogged
    <3>2. CASE d # c
      <4>1. CallLogged(d) /\ client'[d] = client[d]
        BY <1>6, <2>1, <3>2 DEF CallsLogged
      <4>2. client[d].pc = "log" =>
               \A e \in Clients \ {d} : client'[e].pc = "log" => client'[e].key # client'[d].key
        BY <1>6, <1>7, <1>9, <3>2, <4>1 DEF CallLogged
      <4>3. /\ RowBefore(log, client[d].vid, client[d].key)' <=> RowBefore(log, client[d].vid, client[d].key)
            /\ IsDeleted(log, client[d].vid)' <=> IsDeleted(log, client[d].vid)
        BY <1>3, <4>1 DEF RowBefore, IsDeleted
      <4> QED BY <1>3, <4>1, <4>2, <4>3 DEF CallLogged
    <3> QED BY <3>1, <3>2
  <2> QED BY <2>2, <2>5 DEF CallsLogged
<1>11. Visible'
  BY <1>2, <1>3 DEF DurableInv, Visible, Searchable
<1> QED BY <1>1, <1>10, <1>11, ClientGoal

LEMMA PutDurable ==
    ASSUME Careful, TInv, AddsOut, DeletesOut, LogInv, DurableInv,
           NEW c \in Clients, PutAssignment(c)
    PROVE  DurableInv'
<1>1. ClientStep(c)
  BY DEF ClientStep
<1>2. ckpt \in {"idle", "lock"} /\ mode = "up"
  BY <1>1, ClientEarly, ClientFrame
<1>3. /\ UNCHANGED <<disk, ver, heads, posting, added, removed, tried>> /\ client[c].pc = "log"
      /\ log' = [log EXCEPT ![client[c].key] = [op |-> client[c].op, vid |-> client[c].vid]]
  BY DEF PutAssignment, index, history
<1>4. /\ client \in [Clients -> ClientType] /\ client[c] \in ClientType /\ log \in Logs
      /\ client[c].key \in Keys /\ 0 \in Keys /\ client[c].op \in {"add", "del"}
  BY DEF TInv, TypeOK, ClientType, Keys
<1>5. [op |-> client[c].op, vid |-> client[c].vid] \in Record
  BY <1>4, RecordOf
<1>6. /\ client' \in [Clients -> ClientType]
      /\ client'[c] = [pc |-> "apply", op |-> client[c].op, vid |-> client[c].vid,
                       key |-> 0, locked |-> client[c].locked]
      /\ \A d \in Clients \ {c} : client'[d] = client[d]
  BY <1>4, Advance DEF PutAssignment
<1>7. client'[c].pc = "apply" /\ client'[c].op = client[c].op /\ client'[c].vid = client[c].vid
  BY <1>6
<1>8. /\ log'[client[c].key].op = client[c].op /\ log'[client[c].key].vid = client[c].vid
      /\ \A k \in Keys \ {client[c].key} : log'[k] = log[k]
  <2>1. /\ log'[client[c].key] = [op |-> client[c].op, vid |-> client[c].vid]
        /\ \A k \in Keys \ {client[c].key} : log'[k] = log[k]
    BY <1>3, <1>4 DEF Logs
  <2> QED BY <2>1
<1>9. ASSUME ~replayed PROVE Backed(log)' /\ CallsLogged'
  <2>1. Backed(log) /\ CallsLogged /\ CallLogged(c)
    BY <1>2, <1>9 DEF DurableInv, Saving, CallsLogged
  <2>2. log[client[c].key].op = "none"
    BY <1>3, <2>1 DEF CallLogged
  <2>3. /\ \A v : (\E k \in Keys : Adds(log[k], v)) => \E k \in Keys : Adds(log'[k], v)
        /\ \A v, d : RowBefore(log, v, d) => RowBefore(log, v, d)'
        /\ \A v : IsDeleted(log, v) => IsDeleted(log, v)'
    BY <1>3, <1>4, <1>5, <2>2, LogGrows
  <2>4. Backed(log)'
    <3>1. \A k \in Keys : log'[k].op = "del" => log'[k].vid \in tried
      <4>1. client[c].op = "del" => client[c].vid \in tried
        BY <1>3 DEF TInv, CallsOK
      <4> QED BY <1>8, <2>1, <4>1 DEF Backed
    <3>2. \A v \in added \ tried : InFiles(v)' \/ \E k \in Keys : Adds(log'[k], v)
      BY <1>3, <2>1, <2>3 DEF Backed, InFiles
    <3>3. \A v \in added : HasRow(log, v)'
      BY <1>3, <2>1, <2>3 DEF Backed, HasRow
    <3>4. \A v \in removed : IsDeleted(log, v)'
      BY <2>1, <2>3 DEF Backed
    <3> QED BY <1>3, <2>1, <3>1, <3>2, <3>3, <3>4 DEF Backed
  <2>5. ASSUME NEW d \in Clients PROVE CallLogged(d)'
    <3>1. CASE d = c
      <4>1. CASE client[c].op = "add"
        <5>1. Adds(log'[client[c].key], client'[c].vid)
          BY <1>7, <1>8, <4>1 DEF Adds
        <5> QED BY <1>4, <1>7, <3>1, <4>1, <5>1 DEF CallLogged
      <4>2. CASE client[c].op = "del"
        <5>1. RowBefore(log, client[c].vid, client[c].key)
          BY <1>3, <2>1, <4>2 DEF CallLogged
        <5>2. \A v, k : v = client[c].vid /\ k = client[c].key => RowBefore(log, v, k)'
          BY <2>3, <5>1
        <5>3. \A v, k : v = client[c].vid /\ k = client[c].key => Deletes(log'[k], v)
          BY <1>8, <4>2 DEF Deletes
        <5>4. \A v : v = client[c].vid => IsDeleted(log, v)'
          BY <1>4, <5>2, <5>3 DEF IsDeleted
        <5>5. IsDeleted(log, client[c].vid)'
          BY <1>7, <5>4 DEF IsDeleted, RowBefore
        <5> QED BY <1>7, <3>1, <4>2, <5>5 DEF CallLogged
      <4> QED BY <1>4, <4>1, <4>2
    <3>2. CASE d # c
      <4>1. CallLogged(d) /\ client'[d] = client[d]
        BY <1>6, <2>1, <3>2 DEF CallsLogged
      <4>2. ASSUME client[d].pc = "log"
            PROVE  /\ log'[client[d].key].op = "none"
                   /\ \A e \in Clients \ {d} : client'[e].pc = "log" => client'[e].key # client'[d].key
        <5>1. client[d].key # client[c].key /\ client[d].key \in Keys
          BY <1>3, <1>4, <2>1, <3>2, <4>2 DEF CallLogged, ClientType
        <5>2. log'[client[d].key].op = "none"
          BY <1>8, <4>1, <4>2, <5>1 DEF CallLogged
        <5>3. \A e \in Clients \ {d} : client'[e].pc = "log" => client'[e].key # client'[d].key
          BY <1>6, <1>7, <4>1, <4>2 DEF CallLogged
        <5> QED BY <5>2, <5>3
      <4>3. /\ RowBefore(log, client[d].vid, client[d].key) => RowBefore(log, client[d].vid, client[d].key)'
            /\ IsDeleted(log, client[d].vid) => IsDeleted(log, client[d].vid)'
        <5>1. \A v, k : v = client[d].vid /\ k = client[d].key /\ RowBefore(log, v, k) => RowBefore(log, v, k)'
          BY <2>3
        <5>2. \A v : v = client[d].vid /\ IsDeleted(log, v) => IsDeleted(log, v)'
          BY <2>3
        <5> QED BY <4>1, <5>1, <5>2 DEF RowBefore, IsDeleted
      <4>4. (\E k \in Keys : Adds(log[k], client[d].vid)) => \E k \in Keys : Adds(log'[k], client[d].vid)
        BY <2>3
      <4> QED BY <4>1, <4>2, <4>3, <4>4 DEF CallLogged
    <3> QED BY <3>1, <3>2
  <2> QED BY <2>4, <2>5 DEF CallsLogged
<1>10. Visible'
  BY <1>2, <1>3 DEF DurableInv, Visible, Searchable
<1> QED BY <1>1, <1>9, <1>10, ClientGoal

LEMMA JobDurable ==
    ASSUME TInv, AddsOut, DurableInv, NEW h \in Heads, Job(h)
    PROVE  DurableInv'
<1>1. UNCHANGED <<disk, log, mode, ver, client, ckpt, snap, cur, added, tried, removed, replayed>>
  BY JobFrame
<1>2. ckpt \notin Saving
  <2>1. jobs # {}
    BY DEF Job, Compact, Split
  <2> QED BY <2>1, SavingQuiet
<1>3. \A v \in Vids : Searchable(v) => Searchable(v)'
  BY JobKeeps
<1>4. added \subseteq Vids /\ snap \in Logs
  BY DEF TInv, TypeOK
<1>5. ~replayed => Backed(log)' /\ CallsLogged'
  BY <1>1, <1>2 DEF DurableInv, Backed, InFiles, HasRow, IsDeleted, RowBefore, CallsLogged, CallLogged
<1>6. mode = "up" => Visible'
  BY <1>1, <1>3, <1>4 DEF DurableInv, Visible
<1>7. ASSUME mode = "replay" PROVE Backed(snap)' /\ Replayed'
  <2>1. Backed(snap) /\ Replayed
    BY <1>7 DEF DurableInv
  <2>2. Backed(snap)'
    BY <1>1, <2>1 DEF Backed, InFiles, HasRow, IsDeleted, RowBefore
  <2>3. \A v \in Vids \ tried : InFiles(v)' => Searchable(v)'
    BY <1>1, <1>3, <2>1 DEF Replayed, InFiles
  <2>4. ASSUME NEW k \in Keys, Past(k)', snap[k].op = "add"
        PROVE  snap[k].vid < ver.rows /\ (snap[k].vid \notin tried => Searchable(snap[k].vid)')
    <3>1. snap[k].vid \in Vids
      BY <1>4, RecordOp
    <3>2. snap[k].vid < ver.rows /\ (snap[k].vid \notin tried => Searchable(snap[k].vid))
      BY <1>1, <2>1, <2>4 DEF Replayed, Past
    <3>3. \A v \in Vids : v = snap[k].vid /\ v \notin tried => Searchable(v)'
      BY <1>3, <3>2
    <3> QED BY <1>1, <3>1, <3>2, <3>3 DEF Searchable
  <2>5. \A k \in Keys : Past(k)' /\ snap[k].op = "del" /\ RowBefore(snap, snap[k].vid, k)' =>
          snap[k].vid \in ver.deleted
    BY <1>1, <2>1 DEF Replayed, Past, RowBefore
  <2> QED BY <1>1, <2>1, <2>2, <2>3, <2>4, <2>5 DEF Replayed
<1> QED BY <1>1, <1>2, <1>5, <1>6, <1>7 DEF DurableInv

LEMMA CheckpointDurable ==
    ASSUME Careful, TInv, AddsOut, DeletesOut, SumsInv, LogInv, DurableInv, Checkpoint
    PROVE  DurableInv'
<1>1. /\ UNCHANGED <<mode, ver, heads, posting, client, snap, cur, added, tried, removed>>
      /\ mode = "up"
  BY CheckpointFrame
<1>2. Visible'
  BY <1>1 DEF DurableInv, Visible, Searchable
<1>3. CASE CheckpointBegin \/ CheckpointLock \/ CheckpointFails
  <2>1. UNCHANGED <<disk, log, replayed>> /\ ckpt \notin Saving /\ ckpt' \notin Saving
    BY <1>3 DEF CheckpointBegin, CheckpointLock, CheckpointFails, durable, Careful, Saving
  <2>2. ~replayed => Backed(log)' /\ CallsLogged'
    BY <1>1, <2>1 DEF DurableInv, Backed, InFiles, HasRow, IsDeleted, RowBefore, CallsLogged, CallLogged
  <2> QED BY <1>1, <1>2, <2>1, <2>2 DEF DurableInv
<1>4. CASE ~(CheckpointBegin \/ CheckpointLock \/ CheckpointFails)
  <2>0. disk \in [ver : Versions, heads : HeadIndex, posting : Postings, sums : Postings]
    BY DEF TInv, TypeOK
  <2>1. ckpt \notin {"idle", "lock"}
    BY <1>4 DEF Checkpoint, SaveVersionMap, SaveSums, SaveStore, DeleteRange, ResetSize, SaveHeads
  <2>2. \A c \in Clients : client[c].pc = "idle"
    BY <2>1, BusyEarly
  <2>3. CallsLogged'
    BY <1>1, <2>2 DEF CallsLogged, CallLogged
  <2>4. CASE SaveVersionMap
    <3>1. disk'.ver = ver /\ ckpt' = "sums"
      BY <2>0, <2>4 DEF SaveVersionMap
    <3> QED BY <1>1, <1>2, <2>3, <3>1 DEF DurableInv, Saving
  <2>5. CASE SaveSums
    <3>1. disk'.ver = disk.ver /\ ckpt' = "store" /\ ckpt = "sums"
      BY <2>0, <2>5 DEF SaveSums
    <3> QED BY <1>1, <1>2, <2>3, <3>1 DEF DurableInv, Saving
  <2>6. CASE SaveStore
    <3>1. disk'.ver = disk.ver /\ disk'.posting = posting /\ ckpt' = "clear" /\ ckpt = "store"
      BY <2>0, <2>6 DEF SaveStore
    <3> QED BY <1>1, <1>2, <2>3, <3>1 DEF DurableInv, Saving
  <2>7. CASE DeleteRange \/ ResetSize
    <3>1. disk' = disk /\ ckpt' \in {"reset", "heads"} /\ ckpt \in {"clear", "reset"}
      BY <2>7 DEF DeleteRange, ResetSize, durable
    <3> QED BY <1>1, <1>2, <2>3, <3>1 DEF DurableInv, Saving
  <2>8. CASE SaveHeads
    <3>1. /\ disk'.ver = disk.ver /\ disk'.posting = disk.posting /\ disk'.heads = heads
          /\ ckpt' = "idle" /\ ckpt = "heads" /\ log' = log
      BY <2>0, <2>8 DEF SaveHeads
    <3>2. disk'.ver = ver /\ disk'.posting = posting /\ Written(log) = {} /\ log \in Logs
      BY <3>1 DEF DurableInv, LogInv, Saving, TInv, TypeOK
    <3>3. \A k \in Keys : log[k].op = "none"
      BY <3>2, RecordOp
    <3>4. Visible
      BY <1>1 DEF DurableInv
    <3>5. \A v \in added \ tried : InFiles(v)'
      BY <3>1, <3>2, <3>4 DEF Visible, Searchable, InFiles
    <3>6. \A v \in added : HasRow(log, v)'
      BY <3>2, <3>4 DEF Visible, HasRow
    <3>7. \A v \in removed : IsDeleted(log, v)'
      BY <3>2, <3>4 DEF Visible, IsDeleted
    <3>8. Backed(log)'
      BY <1>1, <3>1, <3>2, <3>3, <3>4, <3>5, <3>6, <3>7 DEF Backed, Visible
    <3> QED BY <1>1, <1>2, <2>3, <3>1, <3>8 DEF DurableInv, Saving
  <2> QED BY <1>4, <2>4, <2>5, <2>6, <2>7, <2>8 DEF Checkpoint
<1> QED BY <1>3, <1>4

LEMMA CrashDurable ==
    ASSUME Careful, TInv, DurableInv, Crash
    PROVE  DurableInv'
<1>1. ~replayed /\ ckpt \notin Saving
  BY DEF Crash, MayCrash, Careful, Saving
<1>2. UNCHANGED <<disk, log, added, tried, removed, replayed>> /\ mode' = "down" /\ ckpt' = "idle"
  BY DEF Crash, durable, history
<1>3. Backed(log)'
  BY <1>1, <1>2 DEF DurableInv, Backed, InFiles, HasRow, IsDeleted, RowBefore
<1>4. CallsLogged'
  BY IdleType DEF Crash, CallsLogged, CallLogged
<1> QED BY <1>1, <1>2, <1>3, <1>4 DEF DurableInv, Saving

LEMMA LoadDurable ==
    ASSUME Careful, TInv, DurableInv, LoadIndex
    PROVE  DurableInv'
<1>1. /\ UNCHANGED <<disk, log, client, ckpt, added, tried, removed>> /\ snap' = log
      /\ ver' = disk.ver /\ heads' = disk.heads /\ posting' = disk.posting
      /\ mode = "down" /\ ckpt = "idle" /\ ~replayed
  BY DEF LoadIndex, TInv, ModeOK, Stopped, DurableInv, durable, history
<1>2. Backed(log) /\ CallsLogged
  BY <1>1 DEF DurableInv, Saving
<1>3. Backed(log)' /\ Backed(snap)'
  BY <1>1, <1>2 DEF Backed, InFiles, HasRow, IsDeleted, RowBefore
<1>4. \A v : v \notin tried /\ InFiles(v) => Searchable(v)'
  BY <1>1, <1>2 DEF Backed, InFiles, Searchable
<1>5. log \in Logs /\ added \subseteq Vids
  BY DEF TInv, TypeOK
<1>6. CASE Written(log) = {} /\ mode' = "up" /\ UNCHANGED replayed
  <2>1. \A k \in Keys : log[k].op = "none"
    BY <1>5, <1>6, RecordOp
  <2>2. ver'.deleted \subseteq tried'
    BY <1>1, <1>2 DEF Backed
  <2>3. \A v \in added' \ tried' : Searchable(v)'
    BY <1>1, <1>2, <1>4, <2>1 DEF Backed, Adds
  <2>4. \A v \in added' : v < ver'.rows
    BY <1>1, <1>2, <2>1 DEF Backed, HasRow, Adds
  <2>5. removed' \subseteq ver'.deleted
    BY <1>1, <1>2, <2>1 DEF Backed, IsDeleted, Deletes
  <2>6. Visible'
    BY <2>2, <2>3, <2>4, <2>5 DEF Visible
  <2>7. CallsLogged'
    BY <1>1, <1>2 DEF CallsLogged, CallLogged, RowBefore, IsDeleted
  <2> QED BY <1>1, <1>3, <1>6, <2>6, <2>7 DEF DurableInv, Saving
<1>7. ASSUME NEW k \in Keys, IsFirst(log, k), cur' = k, mode' = "replay", replayed' = TRUE
      PROVE  DurableInv'
  <2>1. \A j \in Keys : log[j].op # "none" => ~(j < k)
    BY <1>5, <1>7, RecordOp, ByteOrder DEF IsFirst, Careful
  <2>2. \A j \in Keys : Past(j)' => snap'[j].op = "none"
    <3>1. k # NoKey
      BY KeyNat DEF NoKey
    <3> QED BY <1>1, <1>7, <2>1, <3>1 DEF Past
  <2>3. ver'.rows \in Nat
    BY <1>1 DEF TInv, TypeOK, Versions
  <2>4. \A v \in Vids \ tried' : InFiles(v)' => Searchable(v)'
    BY <1>1, <1>4 DEF InFiles
  <2>5. Replayed'
    BY <1>1, <1>2, <2>2, <2>3, <2>4 DEF Replayed, Backed
  <2> QED BY <1>1, <1>3, <1>7, <2>5 DEF DurableInv, Saving
<1> QED BY <1>6, <1>7 DEF LoadIndex

(* The iterator moves on: the records before it are those that were before *)
(* it and the one that it has left.                                        *)
LEMMA PastStep ==
    ASSUME OneByte, TInv, mode = "replay", cur # NoKey, NEW n, NextToScan(n), snap' = snap
    PROVE  \A k \in Keys : Past(k)' /\ snap[k].op # "none" => Past(k) \/ k = cur
<1> SUFFICES ASSUME NEW k \in Keys, Past(k)', snap[k].op # "none" PROVE k < cur \/ k = cur
  BY DEF Past
<1>1. snap \in Logs
  BY DEF TInv, TypeOK
<1>2. k \in Written(snap) /\ k \in Nat
  BY <1>1, RecordOp, KeyNat
<1>3. /\ cur \in Keys
      /\ \/ cur' = NoKey /\ \A j \in Written(snap) : j <= cur
         \/ /\ cur' \in Written(snap)
            /\ \A j \in Written(snap) : j <= cur \/ cur' <= j
  BY ScanStep
<1>4. k <= cur
  <2>1. CASE \A j \in Written(snap) : j <= cur
    BY <1>2, <2>1
  <2>2. CASE /\ cur' \in Written(snap)
             /\ \A j \in Written(snap) : j <= cur \/ cur' <= j
    <3>1. PICK m \in Nat : m = cur'
      BY <2>2, WrittenKeys, KeyNat
    <3>2. m # NoKey
      BY <3>1 DEF NoKey
    <3>3. k < m
      BY <3>1, <3>2 DEF Past
    <3>4. k <= cur \/ m <= k
      BY <1>2, <2>2, <3>1
    <3> QED BY <1>2, <3>1, <3>3, <3>4
  <2> QED BY <1>3, <2>1, <2>2
<1> QED BY <1>2, <1>3, <1>4, KeyNat

LEMMA ReplayAddDurable ==
    ASSUME Careful, TInv, DurableInv, ReplayAdd
    PROVE  DurableInv'
<1>1. /\ UNCHANGED <<disk, mode, heads, ckpt, snap, added, tried, removed, replayed>>
      /\ mode = "replay" /\ cur # NoKey /\ cur \in Keys /\ ckpt = "idle"
      /\ snap \in Logs /\ snap[cur].op = "add" /\ NextToScan(size + 1)
  BY DEF ReplayAdd, TInv, TypeOK, ModeOK, Stopped, history
<1>2. replayed /\ Backed(snap) /\ Replayed
  BY <1>1 DEF DurableInv
<1>3. Backed(snap)'
  BY <1>1, <1>2 DEF Backed, InFiles, HasRow, IsDeleted, RowBefore
<1>4. snap[cur].vid \in Vids
  BY <1>1, RecordOp
<1>5. ver'.deleted = ver.deleted /\ ver.rows <= ver'.rows /\ snap[cur].vid < ver'.rows
      /\ ver.rows \in Nat /\ ver'.rows \in Nat
  <2>1. ver' = [ver EXCEPT !.rows = IF snap[cur].vid >= ver.rows THEN snap[cur].vid + 1 ELSE ver.rows]
    BY DEF ReplayAdd
  <2>2. ver \in Versions
    BY DEF TInv, TypeOK
  <2> QED BY <1>4, <2>1, <2>2 DEF Versions, Vids
<1>6. PICK h \in heads.live : AppendTo(h, snap[cur].vid)
  BY DEF ReplayAdd
<1>7. \A k \in Keys : Past(k)' /\ snap[k].op # "none" => Past(k) \/ k = cur
  BY <1>1, PastStep DEF Careful
<1>8. ASSUME NEW v \in Vids, v \notin tried, v = snap[cur].vid \/ Searchable(v) PROVE Searchable(v)'
  <2>1. v < ver'.rows
    BY <1>5, <1>8 DEF Searchable, Vids
  <2>2. v \notin ver'.deleted
    BY <1>2, <1>5, <1>8 DEF Replayed
  <2> QED BY <1>1, <1>4, <1>6, <1>8, <2>1, <2>2, AppendKeeps
<1>9. \A v \in Vids \ tried : InFiles(v)' => Searchable(v)'
  BY <1>1, <1>2, <1>8 DEF Replayed, InFiles
<1>10. ASSUME NEW k \in Keys, Past(k)', snap[k].op = "add"
       PROVE  snap[k].vid < ver'.rows /\ (snap[k].vid \notin tried => Searchable(snap[k].vid)')
  <2>0. snap[k].vid \in Vids /\ snap[k].vid \in Nat
    BY <1>1, RecordOp DEF Vids
  <2>1. Past(k) \/ k = cur
    BY <1>7, <1>10
  <2>2. snap[k].vid < ver'.rows
    BY <1>2, <1>5, <1>10, <2>0, <2>1 DEF Replayed
  <2>3. snap[k].vid \notin tried => snap[k].vid = snap[cur].vid \/ Searchable(snap[k].vid)
    BY <1>2, <1>10, <2>1 DEF Replayed
  <2>4. \A v \in Vids : v = snap[k].vid /\ v \notin tried => Searchable(v)'
    BY <1>8, <2>3
  <2> QED BY <1>1, <2>0, <2>2, <2>4 DEF Searchable
<1>11. \A k \in Keys : Past(k)' /\ snap[k].op = "del" /\ RowBefore(snap, snap[k].vid, k)' =>
          snap[k].vid \in ver'.deleted
  BY <1>1, <1>2, <1>5, <1>7 DEF Replayed, RowBefore
<1>12. disk.ver.rows <= ver'.rows /\ disk.ver.deleted \subseteq ver'.deleted /\ ver'.deleted \subseteq tried
  <2>1. disk.ver.rows \in Nat /\ disk.ver.rows <= ver.rows
    BY <1>2 DEF Replayed, TInv, TypeOK, Versions
  <2> QED BY <1>2, <1>5, <2>1 DEF Replayed
<1>13. Replayed'
  BY <1>1, <1>9, <1>10, <1>11, <1>12 DEF Replayed
<1> QED BY <1>1, <1>2, <1>3, <1>13 DEF DurableInv, Saving

LEMMA ReplayDeleteDurable ==
    ASSUME Careful, TInv, DurableInv, ReplayDelete
    PROVE  DurableInv'
<1>1. /\ UNCHANGED <<disk, mode, heads, posting, ckpt, snap, added, tried, removed, replayed>>
      /\ mode = "replay" /\ cur # NoKey /\ cur \in Keys /\ ckpt = "idle"
      /\ snap \in Logs /\ snap[cur].op = "del" /\ NextToScan(size)
      /\ ver' = [ver EXCEPT !.deleted = Marked(snap[cur].vid)] /\ ver \in Versions
  BY DEF ReplayDelete, TInv, TypeOK, ModeOK, Stopped, history, durable
<1>2. replayed /\ Backed(snap) /\ Replayed
  BY <1>1 DEF DurableInv
<1>3. Backed(snap)'
  BY <1>1, <1>2 DEF Backed, InFiles, HasRow, IsDeleted, RowBefore
<1>4. snap[cur].vid \in Vids /\ snap[cur].vid \in tried
  BY <1>1, <1>2, RecordOp DEF Backed
<1>5. /\ ver'.rows = ver.rows /\ ver.deleted \subseteq ver'.deleted /\ ver'.deleted \subseteq tried
      /\ snap[cur].vid < ver.rows => snap[cur].vid \in ver'.deleted
  <2>1. ver'.rows = ver.rows /\ ver'.deleted = Marked(snap[cur].vid)
    BY <1>1 DEF Versions
  <2> QED BY <1>2, <1>4, <2>1 DEF Marked, Replayed
<1>6. \A v : v \notin tried /\ Searchable(v) => Searchable(v)'
  BY <1>1, <1>5 DEF Searchable
<1>7. \A k \in Keys : Past(k)' /\ snap[k].op # "none" => Past(k) \/ k = cur
  BY <1>1, PastStep DEF Careful
<1>8. \A v \in Vids \ tried : InFiles(v)' => Searchable(v)'
  BY <1>1, <1>2, <1>6 DEF Replayed, InFiles
<1>9. ASSUME NEW k \in Keys, Past(k)', snap[k].op = "add"
      PROVE  snap[k].vid < ver'.rows /\ (snap[k].vid \notin tried => Searchable(snap[k].vid)')
  <2>1. Past(k)
    BY <1>1, <1>7, <1>9
  <2>2. snap[k].vid < ver'.rows /\ (snap[k].vid \notin tried => Searchable(snap[k].vid))
    BY <1>2, <1>5, <1>9, <2>1 DEF Replayed
  <2>3. \A v : v = snap[k].vid /\ v \notin tried => Searchable(v)'
    BY <1>6, <2>2
  <2> QED BY <1>1, <2>2, <2>3 DEF Searchable
<1>10. ASSUME NEW k \in Keys, Past(k)', snap[k].op = "del", RowBefore(snap, snap[k].vid, k)'
       PROVE  snap[k].vid \in ver'.deleted
  <2>1. RowBefore(snap, snap[k].vid, k)
    BY <1>1, <1>10 DEF RowBefore
  <2>2. CASE Past(k)
    BY <1>2, <1>5, <1>10, <2>1, <2>2 DEF Replayed
  <2>3. CASE k = cur
    <3>1. disk.ver.rows \in Nat /\ ver.rows \in Nat /\ disk.ver.rows <= ver.rows /\ snap[cur].vid \in Nat
      BY <1>2, <1>4 DEF Replayed, TInv, TypeOK, Versions, Vids
    <3>2. CASE snap[cur].vid < disk.ver.rows
      <4>1. snap[cur].vid < ver.rows
        BY <3>1, <3>2
      <4> QED BY <1>5, <2>3, <4>1
    <3>3. ASSUME NEW a \in Keys, snap[a].op = "add", snap[a].vid >= snap[cur].vid, a < cur
          PROVE  snap[cur].vid \in ver'.deleted
      <4>1. snap[a].vid < ver.rows
        BY <1>2, <3>3 DEF Replayed, Past
      <4>2. snap[a].vid \in Nat
        BY <1>1, RecordOp DEF Vids
      <4> QED BY <1>5, <3>1, <3>3, <4>1, <4>2
    <3> QED BY <2>1, <2>3, <3>2, <3>3 DEF RowBefore
  <2> QED BY <1>7, <1>10, <2>2, <2>3
<1>11. Replayed'
  BY <1>1, <1>2, <1>5, <1>8, <1>9, <1>10 DEF Replayed
<1> QED BY <1>1, <1>2, <1>3, <1>11 DEF DurableInv, Saving

LEMMA ReplayEndDurable ==
    ASSUME TInv, DurableInv, ReplayEnd
    PROVE  DurableInv'
<1>1. /\ UNCHANGED <<disk, ver, heads, posting, ckpt, added, tried, removed, replayed>>
      /\ mode = "replay" /\ mode' = "up" /\ cur = NoKey /\ ckpt = "idle"
  BY DEF ReplayEnd, TInv, ModeOK, Stopped, durable, index, history
<1>2. replayed /\ Backed(snap) /\ Replayed /\ added \subseteq Vids
  BY <1>1 DEF DurableInv, TInv, TypeOK
<1>3. \A k \in Keys : Past(k)
  BY <1>1 DEF Past
<1>4. \A v \in added \ tried : Searchable(v)
  BY <1>2, <1>3 DEF Backed, Replayed, Adds
<1>5. \A v \in added : v < ver.rows
  <2>1. disk.ver.rows \in Nat /\ ver.rows \in Nat /\ disk.ver.rows <= ver.rows /\ added \subseteq Nat
    BY <1>2 DEF Replayed, TInv, TypeOK, Versions, Vids
  <2>2. ASSUME NEW v \in added PROVE v < ver.rows
    <3>1. v < disk.ver.rows \/ \E k \in Keys : Adds(snap[k], v)
      BY <1>2 DEF Backed, HasRow
    <3>2. (\E k \in Keys : Adds(snap[k], v)) => v < ver.rows
      BY <1>2, <1>3 DEF Replayed, Adds
    <3>3. v < disk.ver.rows => v < ver.rows
      BY <2>1
    <3> QED BY <3>1, <3>2, <3>3
  <2> QED BY <2>2
<1>6. removed \subseteq ver.deleted
  BY <1>2, <1>3 DEF Backed, IsDeleted, Deletes, Replayed
<1>7. Visible'
  BY <1>1, <1>2, <1>4, <1>5, <1>6 DEF Visible, Searchable, Replayed
<1> QED BY <1>1, <1>2, <1>7 DEF DurableInv, Saving

LEMMA DurableStep ==
    ASSUME Careful, TInv, AddsOut, DeletesOut, SumsInv, LogInv, DurableInv, [Next]_vars
    PROVE  DurableInv'
<1>1. ASSUME NEW c \in Clients, ClientStep(c) PROVE DurableInv'
  BY <1>1, ReserveDurable, StartDeleteDurable, GetKeyDurable, PutDurable, FinishAddDurable,
     FailAddDurable, FinishDeleteDurable DEF ClientStep
<1>2. ASSUME NEW h \in Heads, Job(h) PROVE DurableInv'
  BY <1>2, JobDurable
<1>3. CASE Checkpoint
  BY <1>3, CheckpointDurable
<1>4. CASE Crash
  BY <1>4, CrashDurable
<1>5. CASE Recover
  BY <1>5, LoadDurable, ReplayAddDurable, ReplayDeleteDurable, ReplayEndDurable DEF Recover
<1>6. CASE UNCHANGED vars
  BY <1>6 DEF vars, DurableInv, Backed, InFiles, HasRow, IsDeleted, RowBefore, CallsLogged, CallLogged,
              Visible, Searchable, Replayed, Past
<1> QED BY <1>1, <1>2, <1>3, <1>4, <1>5, <1>6 DEF Next

DInv == TInv /\ AddsOut /\ DeletesOut /\ SumsInv /\ LogInv /\ DurableInv

LEMMA DurableHolds == Careful => (Spec => []DInv)
<1> SUFFICES ASSUME Careful PROVE Spec => []DInv
  OBVIOUS
<1>1. Init => DInv
  BY TypesInit, AddsInit, SumsInit, LogInit, DurableInit DEF DInv
<1>2. DInv /\ [Next]_vars => DInv'
  <2> SUFFICES ASSUME DInv, [Next]_vars PROVE DInv'
    OBVIOUS
  <2>1. AddsLocked /\ DeletesApart /\ OneByte /\ ~CheckpointBreaks
    BY DEF Careful
  <2>2. TInv' /\ AddsOut' /\ DeletesOut' /\ SumsInv'
    BY <2>1, TypesNext, AddsStep, DeletesStep, SumsStep DEF DInv
  <2>3. LogInv' /\ DurableInv'
    BY <2>1, <2>2, LogStep, DurableStep DEF DInv
  <2> QED BY <2>2, <2>3 DEF DInv
<1> QED BY <1>1, <1>2, PTL DEF Spec

(* A record is what its fields say.                                        *)
LEMMA RecordFields ==
    ASSUME NEW l \in Logs, NEW k \in Keys, NEW v \in Vids
    PROVE  /\ Adds(l[k], v) <=> l[k] = [op |-> "add", vid |-> v]
           /\ Deletes(l[k], v) <=> l[k] = [op |-> "del", vid |-> v]
BY DEF Logs, Record, NoRecord, Adds, Deletes

(* Callers that keep deletions and checkpoints apart, add under the lock   *)
(* and write fewer records between two checkpoints than a byte has values  *)
(* lose nothing to a crash: whenever the process may die, the files of the *)
(* last checkpoint and the log of PersistentBuffer hold every acknowledged *)
(* addition that nobody tried to delete, and every acknowledged deletion,  *)
(* if a replay is followed by a checkpoint before the next crash.          *)
THEOREM AckedStaysDurable == Careful => (Spec => []AckedDurable)
<1> SUFFICES ASSUME Careful PROVE Spec => []AckedDurable
  OBVIOUS
<1>1. ASSUME DInv PROVE AckedDurable
  <2> SUFFICES ASSUME MayCrash \/ mode = "down"
               PROVE  /\ \A v \in added \ tried : DurablyLive(v)
                      /\ \A v \in removed : DurablyDeleted(v)
    BY DEF AckedDurable
  <2>1. ~replayed /\ ckpt \notin Saving
    BY <1>1 DEF MayCrash, Careful, DInv, TInv, ModeOK, Stopped, DurableInv, Saving
  <2>2. Backed(log)
    BY <1>1, <2>1 DEF DInv, DurableInv
  <2>3. log \in Logs /\ added \subseteq Vids /\ removed \subseteq tried /\ tried \subseteq added
    BY <1>1 DEF DInv, TInv, TypeOK
  <2>4. ASSUME NEW v \in added \ tried PROVE DurablyLive(v)
    <3>1. v \in Vids
      BY <2>3
    <3>2. ~DurablyDeleted(v)
      <4>1. \A d \in Keys : log[d] # [op |-> "del", vid |-> v]
        BY <2>2, <2>3, <3>1, RecordFields DEF Backed, Deletes
      <4>2. v \notin disk.ver.deleted
        BY <2>2 DEF Backed
      <4> QED BY <4>1, <4>2 DEF DurablyDeleted
    <3>3. InFiles(v) \/ \E k \in Keys : log[k] = [op |-> "add", vid |-> v]
      <4>1. InFiles(v) \/ \E k \in Keys : Adds(log[k], v)
        BY <2>2 DEF Backed
      <4>2. \A k \in Keys : Adds(log[k], v) <=> log[k] = [op |-> "add", vid |-> v]
        BY <2>3, <3>1, RecordFields
      <4> QED BY <4>1, <4>2
    <3> QED BY <3>2, <3>3 DEF DurablyLive, InFiles
  <2>5. ASSUME NEW v \in removed PROVE DurablyDeleted(v)
    <3>1. v \in Vids /\ IsDeleted(log, v)
      BY <2>2, <2>3 DEF Backed
    <3>2. CASE v \in disk.ver.deleted
      BY <3>2 DEF DurablyDeleted
    <3>3. ASSUME NEW d \in Keys, Deletes(log[d], v), RowBefore(log, v, d) PROVE DurablyDeleted(v)
      <4>1. log[d] = [op |-> "del", vid |-> v]
        BY <2>3, <3>1, <3>3, RecordFields
      <4>2. v < disk.ver.rows \/ \E a \in Keys : log[a].op = "add" /\ log[a].vid >= v /\ Before(a, d)
        BY <3>3, ByteOrder DEF RowBefore, Careful
      <4> QED BY <4>1, <4>2 DEF DurablyDeleted
    <3> QED BY <3>1, <3>2, <3>3 DEF IsDeleted
  <2> QED BY <2>4, <2>5
<1> QED BY <1>1, DurableHolds, PTL

(* Under the same conditions the index shows, whenever it is up and also   *)
(* after LoadIndex has replayed the log, every acknowledged addition that  *)
(* nobody tried to delete, and no vector whose deletion was acknowledged.  *)
THEOREM AckedStaysVisible == Careful => (Spec => []AckedVisible)
<1> SUFFICES ASSUME Careful PROVE Spec => []AckedVisible
  OBVIOUS
<1>1. DInv => AckedVisible
  BY DEF DInv, DurableInv, Visible, AckedVisible
<1> QED BY <1>1, DurableHolds, PTL
=============================================================================
