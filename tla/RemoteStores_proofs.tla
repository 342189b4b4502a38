------------------------- MODULE RemoteStores_proofs -------------------------
(***************************************************************************)
(* Proof that both clients of remote posting stores implement PostingStore *)
(* when no request outlives the call that sent it, for every set of        *)
(* threads, keys and entries and every number of calls, faults and moves;  *)
(* and that two threads of TiKVIO outlast a move of a region.              *)
(***************************************************************************)
EXTENDS RemoteStores, SequenceTheorems, FiniteSetTheorems, TLAPS

Value == Seq(Entries \cup {FirstEntry})
RegionT == [ctx : Nat, addr : Nat]
CallT == [op : Ops, key : Keys \cup {FirstKey}, arg : Entries \cup {FirstEntry},
          pc : {"idle", "send", "stub", "ctx", "pdstub", "pdctx", "gotstub", "gotctx", "wait"},
          attempt : Nat, ret : {"none", "ok", "fail"}, res : Value]
RpcT == [kind : {"get", "put", "append", "delete"}, val : Value, pd : RegionT, region : RegionT,
         st : {"none", "sent", "ok", "absent", "region", "error", "broken"}]
DoneT == [did : BOOLEAN, res : Value]
LateT == [thread : Threads, waits : BOOLEAN, kind : {"get", "put", "append", "delete"},
          key : Keys \cup {FirstKey}, val : Value]

Types ==
    /\ store \in [Keys -> Value]
    /\ call \in [Threads -> CallT] /\ rpc \in [Threads -> RpcT] /\ done \in [Threads -> DoneT]
    /\ late \subseteq LateT
    /\ epoch \in [Keys -> Nat] /\ cache \in [Keys -> RegionT]

\* A thread with a call under way.
Active(t) == call[t].pc # "idle"

\* Which requests a call makes, and what they carry.
KindOK(tikv, c, p) ==
    /\ c.op = "get" => p.kind = "get"
    /\ c.op = "put" => p.kind = "put" /\ p.val = <<c.arg>>
    /\ c.op = "delete" => p.kind = "delete"
    /\ c.op = "merge" => p.kind \in IF tikv THEN {"get", "put"} ELSE {"append", "put"}
    /\ p.kind = "append" => p.val = <<c.arg>>

\* A write that has not happened will be one that the call may do; one that has
\* happened, may be repeated, and can only be a Put with the value that is there.
WriteOK(tikv, c, p, d, s) ==
    /\ c.op = "merge" /\ p.kind = "put" /\ ~d.did => p.val = Append(s, c.arg) \/ (tikv /\ p.val = <<c.arg>>)
    /\ c.op = "merge" /\ p.kind = "get" => ~d.did /\ (p.st = "ok" => p.val = s)
    /\ p.kind = "append" /\ p.st = "absent" => s = <<>>
    /\ p.kind = "put" /\ d.did => s = p.val
    /\ p.kind \in {"append", "delete"} /\ d.did => p.st \in {"ok", "broken"}

\* A success that is reported has happened, with the result that is reported.
AnswerOK(c, p, d) ==
    /\ c.op = "get" /\ p.st = "ok" => d.did /\ d.res = p.val
    /\ c.op # "get" => d.res = <<>>
    /\ c.op # "get" /\ p.kind # "get" /\ p.st = "ok" => d.did

ThreadOK(t) ==
    IF Active(t)
    THEN /\ call[t].key \in Keys /\ call[t].arg \in Entries
         /\ KindOK(storage = "TIKVIO", call[t], rpc[t])
         /\ WriteOK(storage = "TIKVIO", call[t], rpc[t], done[t], store[call[t].key])
         /\ AnswerOK(call[t], rpc[t], done[t])
         /\ call[t].pc # "wait" => rpc[t].st = "none"
    ELSE rpc[t] = NoRpc /\ done[t] = NotDone

\* A request that is late belongs to a call under way and is like its present one.
LateOK(r) ==
    /\ r.waits /\ Active(r.thread)
    /\ r.key = call[r.thread].key /\ r.kind = rpc[r.thread].kind /\ r.val = rpc[r.thread].val
    /\ r.kind # "get"
    /\ r.kind \in {"append", "delete"} => rpc[r.thread].st = "broken" /\ ~done[r.thread].did

\* The posting locks.
OneWriter ==
    \A t, u \in Threads :
        Active(t) /\ Active(u) /\ call[t].op # "get" /\ call[u].op # "get" /\ call[t].key = call[u].key => t = u

Inv ==
    /\ Types
    /\ \A t \in Threads : ThreadOK(t)
    /\ \A r \in late : LateOK(r)
    /\ OneWriter

-----------------------------------------------------------------------------
LEMMA ConstantTypes ==
    /\ NoCall \in CallT /\ NoRpc \in RpcT /\ NotDone \in DoneT /\ Unknown \in RegionT
    /\ <<>> \in Value /\ \A e \in Entries \cup {FirstEntry} : <<e>> \in Value
<1>1. <<>> \in Value /\ \A e \in Entries \cup {FirstEntry} : <<e>> \in Value
  BY DEF Value
<1>2. Unknown \in RegionT
  BY DEF Unknown, RegionT, NoRegion
<1>3. NoCall \in CallT
  BY <1>1 DEF NoCall, CallT, Ops
<1>4. NoRpc \in RpcT /\ NotDone \in DoneT
  BY <1>1, <1>2 DEF NoRpc, RpcT, NotDone, DoneT
<1> QED BY <1>1, <1>2, <1>3, <1>4

LEMMA InitInv == Init => Inv
<1> SUFFICES ASSUME Init PROVE Inv
  OBVIOUS
<1>1. Types
  <2>1. store \in [Keys -> Value]
    BY ConstantTypes DEF Init
  <2>2. call \in [Threads -> CallT] /\ rpc \in [Threads -> RpcT] /\ done \in [Threads -> DoneT]
    BY ConstantTypes DEF Init
  <2>3. late \subseteq LateT /\ epoch \in [Keys -> Nat] /\ cache \in [Keys -> RegionT]
    BY ConstantTypes DEF Init
  <2> QED BY <2>1, <2>2, <2>3 DEF Types
<1>2. \A t \in Threads : call[t].pc = "idle" /\ rpc[t] = NoRpc /\ done[t] = NotDone
  BY DEF Init, NoCall
<1> QED BY <1>1, <1>2 DEF Init, Inv, ThreadOK, Active, OneWriter

\* A thread keeps its invariant and its abstract call when another one acts.
LEMMA OtherThread ==
    ASSUME NEW u \in Threads, ThreadOK(u), call'[u] = call[u], rpc'[u] = rpc[u], done'[u] = done[u],
           storage' = storage,
           Active(u) => call[u].op = "get" \/ store'[call[u].key] = store[call[u].key]
    PROVE  ThreadOK(u)' /\ AbstractCall(u)' = AbstractCall(u)
<1>1. AbstractCall(u)' = AbstractCall(u)
  BY DEF AbstractCall
<1>2. CASE ~Active(u)
  BY <1>1, <1>2 DEF ThreadOK, Active
<1>3. CASE Active(u)
  <2>1. Active(u)'
    BY <1>3 DEF Active
  <2>2. /\ call[u].key \in Keys /\ call[u].arg \in Entries
        /\ KindOK(storage = "TIKVIO", call[u], rpc[u])
        /\ WriteOK(storage = "TIKVIO", call[u], rpc[u], done[u], store[call[u].key])
        /\ AnswerOK(call[u], rpc[u], done[u])
        /\ call[u].pc # "wait" => rpc[u].st = "none"
    BY <1>3 DEF ThreadOK
  <2>3. CASE call[u].op = "get"
    <3>1. rpc[u].kind = "get"
      BY <2>2, <2>3 DEF KindOK
    <3>2. WriteOK(storage = "TIKVIO", call[u], rpc[u], done[u], store'[call[u].key])
      BY <2>3, <3>1 DEF WriteOK
    <3> QED BY <1>1, <2>1, <2>2, <3>2 DEF ThreadOK
  <2>4. CASE call[u].op # "get"
    BY <1>1, <1>3, <2>1, <2>2, <2>4 DEF ThreadOK
  <2> QED BY <2>3, <2>4
<1> QED BY <1>2, <1>3

\* The abstract state does not change when no call does for the abstract specification.
LEMMA Stutter ==
    ASSUME \A u \in Threads : AbstractCall(u)' = AbstractCall(u), UNCHANGED <<store, storage>>
    PROVE  UNCHANGED Promised!vars
  BY DEF Promised!vars

\* A step of one thread that gets nowhere: it looks for the region, sends the request, is
\* refused, hears nothing or tries again.
LEMMA QuietStep ==
    ASSUME Inv, NEW t \in Threads, NEW c \in CallT, NEW p \in RpcT,
           call' = [call EXCEPT ![t] = c], rpc' = [rpc EXCEPT ![t] = p],
           UNCHANGED <<storage, store, done>>,
           late' \subseteq LateT, epoch' \in [Keys -> Nat], cache' \in [Keys -> RegionT],
           Active(t), c.pc # "idle", c.pc # "wait" => p.st = "none",
           c.op = call[t].op, c.key = call[t].key, c.arg = call[t].arg, c.ret = call[t].ret,
           p.kind = rpc[t].kind, p.val = rpc[t].val, p.st \notin {"ok", "absent"},
           \/ p.st = "broken"
           \/ p.kind \notin {"append", "delete"}
           \/ ~done[t].did /\ rpc[t].st # "broken",
           \A r \in late' :
              \/ r \in late
              \/ /\ r.thread = t /\ r.waits /\ r.key = call[t].key
                 /\ r.kind = rpc[t].kind /\ r.val = rpc[t].val /\ r.kind # "get"
                 /\ r.kind \in {"append", "delete"} => p.st = "broken" /\ ~done[t].did
    PROVE  Inv' /\ UNCHANGED Promised!vars
<1>1. Types /\ ThreadOK(t) /\ (\A u \in Threads : ThreadOK(u)) /\ (\A r \in late : LateOK(r)) /\ OneWriter
  BY DEF Inv
<1>2. \A u \in Threads : /\ call'[u] = IF u = t THEN c ELSE call[u]
                         /\ rpc'[u] = IF u = t THEN p ELSE rpc[u]
  BY <1>1 DEF Types
<1>3. call'[t] = c /\ rpc'[t] = p /\ done'[t] = done[t]
  BY <1>2
<1>4. /\ call[t].key \in Keys /\ call[t].arg \in Entries
      /\ KindOK(storage = "TIKVIO", call[t], rpc[t])
      /\ WriteOK(storage = "TIKVIO", call[t], rpc[t], done[t], store[call[t].key])
      /\ AnswerOK(call[t], rpc[t], done[t])
  BY <1>1 DEF ThreadOK
<1>5. ThreadOK(t)'
  <2>1. KindOK(storage = "TIKVIO", c, p)
    BY <1>4 DEF KindOK
  <2>2. WriteOK(storage = "TIKVIO", c, p, done[t], store[c.key])
    BY <1>4 DEF WriteOK
  <2>3. AnswerOK(c, p, done[t])
    BY <1>4 DEF AnswerOK
  <2>4. Active(t)'
    BY <1>3 DEF Active
  <2> QED BY <1>3, <1>4, <2>1, <2>2, <2>3, <2>4 DEF ThreadOK
<1>6. AbstractCall(t)' = AbstractCall(t)
  BY <1>3 DEF AbstractCall, Active
<1>7. ASSUME NEW u \in Threads, u # t PROVE ThreadOK(u)' /\ AbstractCall(u)' = AbstractCall(u)
  BY <1>1, <1>2, <1>7, OtherThread
<1>8. Types'
  BY <1>1 DEF Types
<1>9. ASSUME NEW r \in late' PROVE LateOK(r)'
  <2>1. r.thread \in Threads
    BY DEF LateT
  <2>2. CASE r.thread = t
    <3>1. CASE r \in late
      <4>1. LateOK(r)
        BY <1>1, <3>1
      <4> QED BY <1>3, <2>2, <4>1 DEF LateOK, Active
    <3>2. CASE r \notin late
      BY <1>3, <1>9, <2>2, <3>2 DEF LateOK, Active
    <3> QED BY <3>1, <3>2
  <2>3. CASE r.thread # t
    <3>1. LateOK(r)
      BY <1>1, <1>9, <2>3
    <3> QED BY <1>2, <2>1, <2>3, <3>1 DEF LateOK, Active
  <2> QED BY <2>2, <2>3
<1>10. OneWriter'
  BY <1>1, <1>2 DEF OneWriter, Active
<1> QED BY <1>5, <1>6, <1>7, <1>8, <1>9, <1>10, Stutter DEF Inv

\* What is known of a call under way.
LEMMA CallAt ==
    ASSUME Inv, NEW t \in Threads
    PROVE  /\ call[t] \in CallT /\ rpc[t] \in RpcT /\ done[t] \in DoneT
           /\ store \in [Keys -> Value] /\ late \subseteq LateT
           /\ epoch \in [Keys -> Nat] /\ cache \in [Keys -> RegionT]
           /\ Active(t) =>
                /\ call[t].key \in Keys /\ call[t].arg \in Entries
                /\ KindOK(storage = "TIKVIO", call[t], rpc[t])
                /\ WriteOK(storage = "TIKVIO", call[t], rpc[t], done[t], store[call[t].key])
                /\ AnswerOK(call[t], rpc[t], done[t])
                /\ call[t].pc # "wait" => rpc[t].st = "none"
                /\ store[call[t].key] \in Value /\ epoch[call[t].key] \in Nat /\ cache[call[t].key] \in RegionT
           /\ rpc[t].st # "none" => Active(t)
<1>1. Types /\ ThreadOK(t)
  BY DEF Inv
<1>2. ~Active(t) => rpc[t].st = "none"
  BY <1>1 DEF ThreadOK, NoRpc
<1>3. Active(t) =>
        /\ call[t].key \in Keys /\ call[t].arg \in Entries
        /\ KindOK(storage = "TIKVIO", call[t], rpc[t])
        /\ WriteOK(storage = "TIKVIO", call[t], rpc[t], done[t], store[call[t].key])
        /\ AnswerOK(call[t], rpc[t], done[t])
        /\ call[t].pc # "wait" => rpc[t].st = "none"
  BY <1>1 DEF ThreadOK
<1> QED BY <1>1, <1>2, <1>3 DEF Types

\* Before an answer and before the deadline, an append or a delete has not happened.
LEMMA NotYet ==
    ASSUME Inv, NEW t \in Threads, Active(t), rpc[t].st \in {"none", "sent"}
    PROVE  rpc[t].kind \in {"append", "delete"} => ~done[t].did /\ rpc[t].st # "broken"
  BY CallAt DEF WriteOK

\* The region is known: the request gets its stub, or its context and is sent.
LEMMA FoundQuiet ==
    ASSUME Inv, NEW t \in Threads, NEW region \in RegionT, Active(t), call[t].pc # "wait", Found(t, region),
           UNCHANGED <<storage, store, done, late, epoch>>, cache' \in [Keys -> RegionT]
    PROVE  Inv' /\ UNCHANGED Promised!vars
<1>1. /\ call[t] \in CallT /\ rpc[t] \in RpcT /\ rpc[t].st = "none" /\ epoch[call[t].key] \in Nat
      /\ late' \subseteq LateT /\ epoch' \in [Keys -> Nat]
  BY CallAt
<1>2. rpc[t].kind \in {"append", "delete"} => ~done[t].did /\ rpc[t].st # "broken"
  BY <1>1, NotYet
<1>3. CASE GetStubForKey(t, region)
  <2>1. PICK a \in {NoRegion, epoch[call[t].key], region.addr} :
          rpc' = [rpc EXCEPT ![t].region = [ctx |-> NoRegion, addr |-> a], ![t].pd = Unknown]
    BY <1>3 DEF GetStubForKey
  <2> DEFINE c == [call[t] EXCEPT !.pc = "ctx"]
             p == [rpc[t] EXCEPT !.region = [ctx |-> NoRegion, addr |-> a], !.pd = Unknown]
  <2>2. [ctx |-> NoRegion, addr |-> a] \in RegionT
    BY <1>1 DEF NoRegion, RegionT
  <2>3. call' = [call EXCEPT ![t] = c] /\ rpc' = [rpc EXCEPT ![t] = p]
    BY <1>3, <2>1 DEF GetStubForKey
  <2>4. /\ c \in CallT /\ c.pc = "ctx" /\ c.op = call[t].op /\ c.key = call[t].key /\ c.arg = call[t].arg
        /\ c.ret = call[t].ret
    BY <1>1 DEF CallT
  <2>5. p \in RpcT /\ p.kind = rpc[t].kind /\ p.val = rpc[t].val /\ p.st = "none"
    BY <1>1, <2>2, ConstantTypes DEF RpcT
  <2> HIDE DEF c, p
  <2> QED BY <1>1, <1>2, <2>3, <2>4, <2>5, QuietStep
<1>4. CASE SetContext(t, region)
  <2> DEFINE c == [call[t] EXCEPT !.pc = "wait"]
             p == [rpc[t] EXCEPT !.region.ctx = region.ctx, !.pd = Unknown, !.st = "sent"]
  <2>3. call' = [call EXCEPT ![t] = c] /\ rpc' = [rpc EXCEPT ![t] = p]
    BY <1>4 DEF SetContext
  <2>4. /\ c \in CallT /\ c.pc = "wait" /\ c.op = call[t].op /\ c.key = call[t].key /\ c.arg = call[t].arg
        /\ c.ret = call[t].ret
    BY <1>1 DEF CallT
  <2>5. p \in RpcT /\ p.kind = rpc[t].kind /\ p.val = rpc[t].val /\ p.st = "sent"
    BY <1>1, ConstantTypes DEF RpcT, RegionT
  <2> HIDE DEF c, p
  <2> QED BY <1>1, <1>2, <2>3, <2>4, <2>5, QuietStep
<1> QED BY <1>3, <1>4 DEF Found

\* FindRegionForKey and what it does when the region is not cached.
LEMMA RegionSteps ==
    ASSUME Inv, NEW t \in Threads,
           FindRegionForKey(t) \/ AskPD(t) \/ GetRegionFromPD(t) \/ CacheRegion(t) \/ PDFails(t)
    PROVE  Inv' /\ UNCHANGED Promised!vars
<1>1. Active(t) /\ call[t].pc # "wait"
  BY DEF FindRegionForKey, AskPD, GetRegionFromPD, CacheRegion, PDFails, Active
<1>2. /\ call[t] \in CallT /\ rpc[t] \in RpcT /\ rpc[t].st = "none" /\ epoch[call[t].key] \in Nat
      /\ late \subseteq LateT /\ epoch \in [Keys -> Nat] /\ cache \in [Keys -> RegionT]
      /\ cache[call[t].key] \in RegionT /\ call[t].key \in Keys /\ rpc[t].pd \in RegionT
  BY <1>1, CallAt DEF RpcT
<1>3. rpc[t].kind \in {"append", "delete"} => ~done[t].did /\ rpc[t].st # "broken"
  BY <1>1, <1>2, NotYet
<1>4. CASE FindRegionForKey(t)
  BY <1>1, <1>2, <1>4, FoundQuiet DEF FindRegionForKey, server
<1>5. CASE PDFails(t)
  BY <1>1, <1>2, <1>5, FoundQuiet, ConstantTypes DEF PDFails, server
<1>6. CASE CacheRegion(t)
  <2>1. cache' \in [Keys -> RegionT]
    BY <1>2, <1>6 DEF CacheRegion
  <2> QED BY <1>1, <1>2, <1>6, <2>1, FoundQuiet DEF CacheRegion, server
<1>7. CASE AskPD(t)
  <2> DEFINE c == [call[t] EXCEPT !.pc = IF @ = "stub" THEN "pdstub" ELSE "pdctx"]
  <2>1. call' = [call EXCEPT ![t] = c] /\ UNCHANGED <<storage, store, done, late, epoch, cache, rpc>>
    BY <1>7 DEF AskPD, server
  <2>2. /\ c \in CallT /\ c.pc \in {"pdstub", "pdctx"} /\ c.op = call[t].op /\ c.key = call[t].key
        /\ c.arg = call[t].arg /\ c.ret = call[t].ret
    BY <1>2 DEF CallT
  <2> HIDE DEF c
  <2>3. rpc' = [rpc EXCEPT ![t] = rpc[t]]
    BY <2>1 DEF Inv, Types
  <2> QED BY <1>1, <1>2, <1>3, <2>1, <2>2, <2>3, QuietStep
<1>8. CASE GetRegionFromPD(t)
  <2>1. PICK a \in {epoch[call[t].key], NoRegion} :
          rpc' = [rpc EXCEPT ![t].pd = [ctx |-> epoch[call[t].key], addr |-> a]]
    BY <1>8 DEF GetRegionFromPD
  <2> DEFINE c == [call[t] EXCEPT !.pc = IF @ = "pdstub" THEN "gotstub" ELSE "gotctx"]
             p == [rpc[t] EXCEPT !.pd = [ctx |-> epoch[call[t].key], addr |-> a]]
  <2>2. [ctx |-> epoch[call[t].key], addr |-> a] \in RegionT
    BY <1>2 DEF RegionT, NoRegion
  <2>3. /\ call' = [call EXCEPT ![t] = c] /\ rpc' = [rpc EXCEPT ![t] = p]
        /\ UNCHANGED <<storage, store, done, late, epoch, cache>>
    BY <1>8, <2>1 DEF GetRegionFromPD, server
  <2>4. /\ c \in CallT /\ c.pc \in {"gotstub", "gotctx"} /\ c.op = call[t].op /\ c.key = call[t].key
        /\ c.arg = call[t].arg /\ c.ret = call[t].ret
    BY <1>2 DEF CallT
  <2>5. p \in RpcT /\ p.kind = rpc[t].kind /\ p.val = rpc[t].val /\ p.st = "none"
    BY <1>2, <2>2 DEF RpcT
  <2> HIDE DEF c, p
  <2> QED BY <1>1, <1>2, <1>3, <2>3, <2>4, <2>5, QuietStep
<1> QED BY <1>4, <1>5, <1>6, <1>7, <1>8

\* AerospikeKeyValueIO sends its request.
LEMMA StartStep ==
    ASSUME Inv, NEW t \in Threads, AerospikeStart(t)
    PROVE  Inv' /\ UNCHANGED Promised!vars
<1>1. Active(t) /\ call[t].pc = "send"
  BY DEF AerospikeStart, Active
<1>2. /\ call[t] \in CallT /\ rpc[t] \in RpcT /\ rpc[t].st = "none" /\ late \subseteq LateT
      /\ epoch \in [Keys -> Nat] /\ cache \in [Keys -> RegionT]
  BY <1>1, CallAt
<1>3. rpc[t].kind \in {"append", "delete"} => ~done[t].did /\ rpc[t].st # "broken"
  BY <1>1, <1>2, NotYet
<1> DEFINE c == [call[t] EXCEPT !.pc = "wait"]
           p == [rpc[t] EXCEPT !.kind = rpc[t].kind, !.st = "sent"]
<1>4. /\ call' = [call EXCEPT ![t] = c] /\ rpc' = [rpc EXCEPT ![t] = p]
      /\ UNCHANGED <<storage, store, done, late, epoch, cache>>
  BY DEF AerospikeStart, Send, server
<1>5. /\ c \in CallT /\ c.pc = "wait" /\ c.op = call[t].op /\ c.key = call[t].key
      /\ c.arg = call[t].arg /\ c.ret = call[t].ret
  BY <1>2 DEF CallT
<1>6. p \in RpcT /\ p.kind = rpc[t].kind /\ p.val = rpc[t].val /\ p.st = "sent"
  BY <1>2 DEF RpcT
<1> HIDE DEF c, p
<1> QED BY <1>1, <1>2, <1>3, <1>4, <1>5, <1>6, QuietStep

\* The request is refused or not answered; a late one is kept.
LEMMA FaultSteps ==
    ASSUME Inv, NEW t \in Threads, Refuse(t) \/ ServerError(t) \/ Break(t)
    PROVE  Inv' /\ UNCHANGED Promised!vars
<1>1. rpc[t].st # "none" /\ UNCHANGED <<storage, store, done, epoch, cache, call>>
  BY DEF Refuse, ServerError, Break, server
<1>2. Active(t)
  BY <1>1, CallAt
<1>3. /\ call[t] \in CallT /\ rpc[t] \in RpcT /\ late \subseteq LateT /\ call[t].key \in Keys
      /\ epoch \in [Keys -> Nat] /\ cache \in [Keys -> RegionT] /\ call[t].pc = "wait"
  BY <1>1, <1>2, CallAt
<1>4. call' = [call EXCEPT ![t] = call[t]]
  BY <1>1 DEF Inv, Types
<1>5. CASE Refuse(t) \/ ServerError(t)
  <2>1. PICK st \in {"region", "error"} :
          rpc' = [rpc EXCEPT ![t].st = st] /\ rpc[t].st = "sent" /\ UNCHANGED late
    BY <1>5 DEF Refuse, ServerError, server
  <2> DEFINE p == [rpc[t] EXCEPT !.st = st]
  <2>2. rpc' = [rpc EXCEPT ![t] = p]
    BY <2>1
  <2>3. p \in RpcT /\ p.kind = rpc[t].kind /\ p.val = rpc[t].val /\ p.st = st
    BY <1>3 DEF RpcT
  <2> HIDE DEF p
  <2>4. rpc[t].kind \in {"append", "delete"} => ~done[t].did /\ rpc[t].st # "broken"
    BY <1>2, <2>1, NotYet
  <2> QED BY <1>1, <1>2, <1>3, <1>4, <2>1, <2>2, <2>3, <2>4, QuietStep DEF Active
<1>6. CASE Break(t)
  <2> DEFINE p == [rpc[t] EXCEPT !.st = "broken"]
             new == [thread |-> t, waits |-> TRUE, kind |-> rpc[t].kind, key |-> call[t].key, val |-> rpc[t].val]
  <2>1. rpc' = [rpc EXCEPT ![t] = p]
    BY <1>6 DEF Break
  <2>2. p \in RpcT /\ p.kind = rpc[t].kind /\ p.val = rpc[t].val /\ p.st = "broken"
    BY <1>3 DEF RpcT
  <2>3. new \in LateT
    BY <1>3 DEF LateT, RpcT
  <2>4. late' = late \/ (late' = late \cup {new} /\ rpc[t].st = "sent" /\ rpc[t].kind # "get")
    BY <1>6 DEF Break
  <2>5. rpc[t].st = "sent" => (rpc[t].kind \in {"append", "delete"} => ~done[t].did)
    BY <1>2, NotYet
  <2>6. /\ new.thread = t /\ new.waits /\ new.key = call[t].key /\ new.kind = rpc[t].kind /\ new.val = rpc[t].val
    OBVIOUS
  <2> HIDE DEF p, new
  <2>7. late' \subseteq LateT
    BY <1>3, <2>3, <2>4
  <2>8. \A r \in late' :
          \/ r \in late
          \/ /\ r.thread = t /\ r.waits /\ r.key = call[t].key
             /\ r.kind = rpc[t].kind /\ r.val = rpc[t].val /\ r.kind # "get"
             /\ r.kind \in {"append", "delete"} => p.st = "broken" /\ ~done[t].did
    BY <2>2, <2>4, <2>5, <2>6
  <2> QED BY <1>1, <1>2, <1>3, <1>4, <2>1, <2>2, <2>7, <2>8, QuietStep DEF Active
<1> QED BY <1>5, <1>6

LEMMA MoveStep ==
    ASSUME Inv, NEW k \in Keys, Move(k)
    PROVE  Inv' /\ UNCHANGED Promised!vars
<1>1. UNCHANGED <<storage, store, call, rpc, late, cache, done>>
  BY DEF Move
<1>2. epoch' \in [Keys -> Nat]
  BY DEF Move, Inv, Types
<1>3. ASSUME NEW u \in Threads PROVE ThreadOK(u)' /\ AbstractCall(u)' = AbstractCall(u)
  BY <1>1, OtherThread DEF Inv
<1>4. Types' /\ OneWriter' /\ \A r \in late' : LateOK(r)'
  BY <1>1, <1>2 DEF Inv, Types, OneWriter, Active, LateOK
<1> QED BY <1>1, <1>3, <1>4, Stutter DEF Inv

\* Merge goes on with a Put that nobody has been asked for yet.
LEMMA PutPhase ==
    ASSUME Inv, NEW t \in Threads, NEW c \in CallT, NEW p \in RpcT,
           call' = [call EXCEPT ![t] = c], rpc' = [rpc EXCEPT ![t] = p],
           UNCHANGED <<storage, store, done, late, epoch>>, cache' \in [Keys -> RegionT],
           Active(t), c.pc # "idle", c.pc # "wait" => p.st = "none", call[t].op = "merge",
           c.op = call[t].op, c.key = call[t].key, c.arg = call[t].arg, c.ret = call[t].ret,
           p.kind = "put", p.st \in {"none", "sent"}, ~done[t].did, \A r \in late : r.thread # t,
           \/ p.val = Append(store[call[t].key], call[t].arg)
           \/ storage = "TIKVIO" /\ p.val = <<call[t].arg>>
    PROVE  Inv' /\ UNCHANGED Promised!vars
<1>1. Types /\ (\A u \in Threads : ThreadOK(u)) /\ (\A r \in late : LateOK(r)) /\ OneWriter
  BY DEF Inv
<1>2. \A u \in Threads : /\ call'[u] = IF u = t THEN c ELSE call[u]
                         /\ rpc'[u] = IF u = t THEN p ELSE rpc[u]
  BY <1>1 DEF Types
<1>3. call'[t] = c /\ rpc'[t] = p /\ done'[t] = done[t]
  BY <1>2
<1>4. /\ call[t].key \in Keys /\ call[t].arg \in Entries
      /\ AnswerOK(call[t], rpc[t], done[t])
  BY <1>1 DEF ThreadOK
<1>5. ThreadOK(t)'
  <2>1. KindOK(storage = "TIKVIO", c, p)
    BY DEF KindOK
  <2>2. WriteOK(storage = "TIKVIO", c, p, done[t], store[c.key])
    BY DEF WriteOK
  <2>3. AnswerOK(c, p, done[t])
    BY <1>4 DEF AnswerOK
  <2>4. Active(t)'
    BY <1>3 DEF Active
  <2> QED BY <1>3, <1>4, <2>1, <2>2, <2>3, <2>4 DEF ThreadOK
<1>6. AbstractCall(t)' = AbstractCall(t)
  BY <1>3 DEF AbstractCall, Active
<1>7. ASSUME NEW u \in Threads, u # t PROVE ThreadOK(u)' /\ AbstractCall(u)' = AbstractCall(u)
  BY <1>1, <1>2, <1>7, OtherThread
<1>8. Types'
  BY <1>1 DEF Types
<1>9. ASSUME NEW r \in late' PROVE LateOK(r)'
  <2>1. r \in late /\ r.thread \in Threads /\ r.thread # t /\ LateOK(r)
    BY <1>1 DEF LateT, Types
  <2> QED BY <1>2, <2>1 DEF LateOK, Active
<1>10. OneWriter'
  BY <1>1, <1>2 DEF OneWriter, Active
<1> QED BY <1>5, <1>6, <1>7, <1>8, <1>9, <1>10, Stutter DEF Inv

-----------------------------------------------------------------------------
(* The steps that PostingStore sees.                                       *)

\* The abstract call of one thread changes.
LEMMA AbstractStep ==
    ASSUME NEW t \in Threads, NEW x, AbstractCall(t)' = x,
           \A u \in Threads : u # t => AbstractCall(u)' = AbstractCall(u)
    PROVE  [u \in Threads |-> AbstractCall(u)]' = [[u \in Threads |-> AbstractCall(u)] EXCEPT ![t] = x]
  OBVIOUS

\* What an idle thread looks like to PostingStore.
LEMMA AbstractIdle ==
    ASSUME NEW r, NEW v
    PROVE  /\ [Promised!NoCall EXCEPT !.ret = r] =
                 [op |-> "get", key |-> FirstKey, arg |-> FirstEntry, st |-> "idle", ret |-> r, res |-> <<>>]
           /\ [Promised!NoCall EXCEPT !.ret = r, !.res = v] =
                 [op |-> "get", key |-> FirstKey, arg |-> FirstEntry, st |-> "idle", ret |-> r, res |-> v]
<1> DEFINE n == Promised!NoCall
<1>1. n = [op |-> "get", key |-> FirstKey, arg |-> FirstEntry, st |-> "idle", ret |-> "none", res |-> <<>>]
  BY DEF Promised!NoCall, FirstKey, FirstEntry
<1> HIDE DEF n
<1>2. [n EXCEPT !.ret = r] =
        [op |-> "get", key |-> FirstKey, arg |-> FirstEntry, st |-> "idle", ret |-> r, res |-> <<>>]
  BY <1>1
<1>3. [[op |-> "get", key |-> FirstKey, arg |-> FirstEntry, st |-> "idle", ret |-> r, res |-> <<>>]
          EXCEPT !.res = v] =
        [op |-> "get", key |-> FirstKey, arg |-> FirstEntry, st |-> "idle", ret |-> r, res |-> v]
  OBVIOUS
<1>4. [n EXCEPT !.ret = r, !.res = v] =
        [op |-> "get", key |-> FirstKey, arg |-> FirstEntry, st |-> "idle", ret |-> r, res |-> v]
  BY <1>2, <1>3
<1> QED BY <1>2, <1>4 DEF n

\* No request is left behind by the call that sent it.
NoneLeft == ~Stragglers \/ late = {}

LEMMA ReturnStep ==
    ASSUME Inv, NoneLeft, NEW t \in Threads, Active(t), NEW r \in {"ok", "fail"}, Return(t, r),
           UNCHANGED <<storage, store, epoch>>, cache' \in [Keys -> RegionT],
           r = "ok" => \/ rpc[t].st = "ok" /\ (rpc[t].kind = "get" => call[t].op = "get")
                       \/ call[t].op = "delete"
    PROVE  Inv' /\ Promised!Next
<1> DEFINE res == IF r = "ok" /\ call[t].op = "get" THEN rpc[t].val ELSE <<>>
           c == [NoCall EXCEPT !.ret = r, !.res = res]
<1>1. /\ call' = [call EXCEPT ![t] = c] /\ rpc' = [rpc EXCEPT ![t] = NoRpc] /\ late' = LeftBehind(t)
      /\ done' = [done EXCEPT ![t] = NotDone]
  BY DEF Return
<1>2. Types /\ (\A u \in Threads : ThreadOK(u)) /\ (\A q \in late : LateOK(q)) /\ OneWriter
  BY DEF Inv
<1>3. late' = {q \in late : q.thread # t}
  BY <1>1 DEF LeftBehind, NoneLeft
<1>4. /\ call[t] \in CallT /\ rpc[t] \in RpcT /\ done[t] \in DoneT
      /\ AnswerOK(call[t], rpc[t], done[t]) /\ KindOK(storage = "TIKVIO", call[t], rpc[t])
  BY CallAt
<1>5. res \in Value
  BY <1>4, ConstantTypes DEF RpcT
<1>6. /\ c \in CallT /\ c.pc = "idle" /\ c.op = "get" /\ c.key = FirstKey /\ c.arg = FirstEntry
      /\ c.ret = r /\ c.res = res
  BY <1>5, ConstantTypes DEF NoCall, CallT
<1>7. r = "ok" => done[t].res = res /\ (call[t].op # "delete" => done[t].did)
  BY <1>4 DEF AnswerOK, KindOK
<1>8. r = "fail" => res = <<>>
  OBVIOUS
<1> HIDE DEF c, res
<1>9. \A u \in Threads : /\ call'[u] = IF u = t THEN c ELSE call[u]
                         /\ rpc'[u] = IF u = t THEN NoRpc ELSE rpc[u]
                         /\ done'[u] = IF u = t THEN NotDone ELSE done[u]
  BY <1>1, <1>2 DEF Types
<1>10. ThreadOK(t)'
  BY <1>6, <1>9 DEF ThreadOK, Active
<1>11. ASSUME NEW u \in Threads, u # t PROVE ThreadOK(u)' /\ AbstractCall(u)' = AbstractCall(u)
  BY <1>2, <1>9, <1>11, OtherThread
<1>12. Types'
  BY <1>1, <1>2, <1>3, <1>6, ConstantTypes DEF Types
<1>13. ASSUME NEW q \in late' PROVE LateOK(q)'
  <2>1. q \in late /\ q.thread \in Threads /\ q.thread # t /\ LateOK(q)
    BY <1>2, <1>3 DEF LateT, Types
  <2> QED BY <1>9, <2>1 DEF LateOK, Active
<1>14. OneWriter'
  BY <1>2, <1>6, <1>9 DEF OneWriter, Active
<1>15. Inv'
  BY <1>10, <1>11, <1>12, <1>13, <1>14 DEF Inv
<1> DEFINE abs == [u \in Threads |-> AbstractCall(u)]
           x == [Promised!NoCall EXCEPT !.ret = r, !.res = res]
<1> DEFINE y == [op |-> "get", key |-> FirstKey, arg |-> FirstEntry, st |-> "idle", ret |-> r, res |-> res]
<1>idle. x = y
  BY AbstractIdle
<1>16. AbstractCall(t)' = x
  <2>1. AbstractCall(t)' = y
    BY <1>6, <1>9 DEF AbstractCall
  <2> QED BY <1>idle, <2>1
<1>17. abs' = [abs EXCEPT ![t] = x]
  BY <1>11, <1>16, AbstractStep
<1>18. abs[t] = AbstractCall(t)
  OBVIOUS
<1>19. /\ abs[t].st = (IF done[t].did THEN "done" ELSE "open") /\ abs[t].op = call[t].op
       /\ abs[t].res = done[t].res
  BY <1>18 DEF AbstractCall, Active
<1> HIDE DEF abs
<1>20. CASE r = "ok"
  <2>1. abs[t].st \in IF abs[t].op = "delete" THEN {"open", "done"} ELSE {"done"}
    BY <1>7, <1>19, <1>20
  <2>2. abs' = [abs EXCEPT ![t] = [Promised!NoCall EXCEPT !.ret = "ok", !.res = abs[t].res]]
    BY <1>7, <1>17, <1>19, <1>20
  <2>3. Promised!Succeed(t)
    BY <2>1, <2>2 DEF Promised!Succeed, abs
  <2> QED BY <1>15, <2>3 DEF Promised!Next
<1>21. CASE r = "fail"
  <2>1. x = [Promised!NoCall EXCEPT !.ret = "fail"]
    <3>1. y = [op |-> "get", key |-> FirstKey, arg |-> FirstEntry, st |-> "idle", ret |-> "fail", res |-> <<>>]
      BY <1>8, <1>21
    <3>2. [Promised!NoCall EXCEPT !.ret = "fail"] = y
      BY <3>1, AbstractIdle
    <3> QED BY <1>idle, <3>2
  <2>2. abs[t].st # "idle"
    BY <1>19
  <2>3. Promised!Fail(t)
    BY <1>17, <2>1, <2>2 DEF Promised!Fail, abs
  <2> QED BY <1>15, <2>3 DEF Promised!Next
<1> QED BY <1>20, <1>21

\* A call starts; the posting lock is free if it writes.
LEMMA CallStep ==
    ASSUME Inv, NEW t \in Threads, NEW op \in Ops, NEW k \in Keys, NEW e \in Entries, Call(t, op, k, e)
    PROVE  Inv' /\ Promised!Next
<1> DEFINE c == [NoCall EXCEPT !.op = op, !.key = k, !.arg = e, !.pc = FirstStep]
           val == IF op \in {"put", "merge"} THEN <<e>> ELSE <<>>
           p == [NoRpc EXCEPT !.kind = FirstKind(op), !.val = val]
<1>1. /\ call' = [call EXCEPT ![t] = c] /\ rpc' = [rpc EXCEPT ![t] = p]
      /\ done' = [done EXCEPT ![t] = NotDone] /\ UNCHANGED <<storage, store, late, epoch, cache>>
      /\ call[t].pc = "idle" /\ (op # "get" => ~Writing(k))
  BY DEF Call, server
<1>2. Types /\ (\A u \in Threads : ThreadOK(u)) /\ (\A r \in late : LateOK(r)) /\ OneWriter
  BY DEF Inv
<1>3. /\ FirstStep \in {"stub", "send"} /\ val \in Value
      /\ FirstKind(op) = IF op = "merge" THEN (IF storage = "TIKVIO" THEN "get" ELSE "append") ELSE op
  BY ConstantTypes DEF FirstStep, FirstKind
<1>4. FirstKind(op) \in {"get", "put", "append", "delete"}
  BY <1>3 DEF Ops
<1>5. /\ c \in CallT /\ c.op = op /\ c.key = k /\ c.arg = e /\ c.pc = FirstStep
      /\ c.ret = "none" /\ c.res = <<>>
  BY <1>3, ConstantTypes DEF CallT, NoCall
<1>6. p \in RpcT /\ p.kind = FirstKind(op) /\ p.val = val /\ p.st = "none"
  BY <1>3, <1>4, ConstantTypes DEF RpcT, NoRpc
<1>7. (op \in {"put", "merge"} => val = <<e>>) /\ NotDone.did = FALSE /\ NotDone.res = <<>>
  BY DEF NotDone
<1> HIDE DEF c, p, val
<1>8. \A u \in Threads : /\ call'[u] = IF u = t THEN c ELSE call[u]
                         /\ rpc'[u] = IF u = t THEN p ELSE rpc[u]
                         /\ done'[u] = IF u = t THEN NotDone ELSE done[u]
  BY <1>1, <1>2 DEF Types
<1>9. ThreadOK(t)'
  <2>1. KindOK(storage = "TIKVIO", c, p)
    BY <1>3, <1>5, <1>6, <1>7 DEF KindOK, Ops
  <2>2. WriteOK(storage = "TIKVIO", c, p, NotDone, store[k])
    BY <1>3, <1>5, <1>6, <1>7 DEF WriteOK
  <2>3. AnswerOK(c, p, NotDone)
    BY <1>6, <1>7 DEF AnswerOK
  <2>4. Active(t)' /\ call'[t] = c /\ rpc'[t] = p /\ done'[t] = NotDone
    BY <1>3, <1>5, <1>8 DEF Active
  <2> QED BY <1>1, <1>5, <1>6, <2>1, <2>2, <2>3, <2>4 DEF ThreadOK
<1>10. ASSUME NEW u \in Threads, u # t PROVE ThreadOK(u)' /\ AbstractCall(u)' = AbstractCall(u)
  BY <1>1, <1>2, <1>8, <1>10, OtherThread
<1>11. Types'
  BY <1>1, <1>2, <1>5, <1>6, ConstantTypes DEF Types
<1>12. ASSUME NEW r \in late' PROVE LateOK(r)'
  <2>1. r \in late /\ r.thread \in Threads /\ r.thread # t /\ LateOK(r)
    BY <1>1, <1>2 DEF LateT, Types, LateOK, Active
  <2> QED BY <1>8, <2>1 DEF LateOK, Active
<1>13. OneWriter'
  <2> SUFFICES ASSUME NEW u \in Threads, NEW v \in Threads, Active(u)', Active(v)', call'[u].op # "get",
                      call'[v].op # "get", call'[u].key = call'[v].key, u # v
               PROVE  FALSE
    BY DEF OneWriter
  <2>1. CASE u # t /\ v # t
    BY <1>2, <1>8, <2>1 DEF OneWriter, Active
  <2>2. CASE u = t /\ v # t
    <3>1. op # "get" /\ call[v].key = k /\ call[v].op # "get" /\ call[v].pc # "idle"
      BY <1>5, <1>8, <2>2 DEF Active
    <3> QED BY <1>1, <3>1 DEF Writing
  <2>3. CASE v = t /\ u # t
    <3>1. op # "get" /\ call[u].key = k /\ call[u].op # "get" /\ call[u].pc # "idle"
      BY <1>5, <1>8, <2>3 DEF Active
    <3> QED BY <1>1, <3>1 DEF Writing
  <2> QED BY <2>1, <2>2, <2>3
<1>14. Inv'
  BY <1>9, <1>10, <1>11, <1>12, <1>13 DEF Inv
<1> DEFINE abs == [u \in Threads |-> AbstractCall(u)]
           x == [op |-> op, key |-> k, arg |-> e, st |-> "open", ret |-> "none", res |-> <<>>]
<1>15. AbstractCall(t)' = x
  BY <1>3, <1>5, <1>7, <1>8 DEF AbstractCall
<1>16. abs' = [abs EXCEPT ![t] = x]
  BY <1>10, <1>15, AbstractStep
<1>17. \A u \in Threads : /\ abs[u].op = call[u].op /\ abs[u].key = call[u].key
                          /\ abs[u].st = "idle" <=> call[u].pc = "idle"
  BY DEF AbstractCall
<1> HIDE DEF abs
<1>18. op # "get" => {u \in Threads : abs[u].st # "idle" /\ abs[u].op # "get" /\ abs[u].key = k} = {}
  BY <1>1, <1>17 DEF Writing
<1>19. Promised!Call(t, op, k, e)
  BY <1>1, <1>16, <1>17, <1>18 DEF Promised!Call, Promised!WritersOf, abs
<1>20. op \in Promised!Ops
  BY DEF Ops, Promised!Ops
<1> QED BY <1>14, <1>19, <1>20 DEF Promised!Next

\* What a request does at the server.
LEMMA ExecutedIs ==
    ASSUME NEW old, NEW val
    PROVE  /\ Executed("get", old, val) = [store |-> old, st |-> IF old = <<>> THEN "absent" ELSE "ok"]
           /\ Executed("put", old, val) = [store |-> val, st |-> "ok"]
           /\ old = <<>> => Executed("append", old, val) = [store |-> old, st |-> "absent"]
           /\ old # <<>> => Executed("append", old, val) = [store |-> old \o val, st |-> "ok"]
           /\ Executed("delete", old, val) =
                 [store |-> <<>>, st |-> IF old = <<>> /\ storage = "AEROSPIKEIO" THEN "absent" ELSE "ok"]
  BY DEF Executed

\* A write of the call of t reaches the server for the first time.
LEMMA FirstWrite ==
    ASSUME NEW t \in Threads, Active(t), call[t].op # "get", ~done[t].did, call[t].op \in Ops,
           NEW new, store' = [store EXCEPT ![call[t].key] = new], storage' = storage,
           \/ call[t].op = "put" /\ new = <<call[t].arg>>
           \/ call[t].op = "merge" /\ (\/ new = Append(store[call[t].key], call[t].arg)
                                       \/ storage = "TIKVIO" /\ new = <<call[t].arg>>)
           \/ call[t].op = "delete" /\ new = <<>>,
           AbstractCall(t)' = [AbstractCall(t) EXCEPT !.st = "done"],
           \A u \in Threads : u # t => AbstractCall(u)' = AbstractCall(u)
    PROVE  Promised!Next
<1> DEFINE abs == [u \in Threads |-> AbstractCall(u)]
<1>1. abs' = [abs EXCEPT ![t] = [AbstractCall(t) EXCEPT !.st = "done"]]
  BY AbstractStep
<1>2. abs' = [abs EXCEPT ![t].st = "done"]
  BY <1>1
<1>3. /\ abs[t].op = call[t].op /\ abs[t].key = call[t].key /\ abs[t].arg = call[t].arg
      /\ abs[t].st = "open"
  BY DEF AbstractCall, Active
<1> HIDE DEF abs
<1>4. new \in CASE abs[t].op = "put" -> {<<abs[t].arg>>}
                [] abs[t].op = "merge" -> {Append(store[abs[t].key], abs[t].arg)}
                                            \cup IF storage = "TIKVIO" THEN {<<abs[t].arg>>} ELSE {}
                [] abs[t].op = "delete" -> {<<>>}
  BY <1>3
<1>5. new \in Promised!Written(t)
  BY <1>4 DEF Promised!Written, abs
<1>6. Promised!Write(t)
  BY <1>2, <1>3, <1>5 DEF Promised!Write, abs
<1> QED BY <1>6 DEF Promised!Next

\* A step of the server for the call of t, which touches the posting of no other writer.
LEMMA StoreStep ==
    ASSUME Inv, NEW t \in Threads, Active(t), NEW p \in RpcT, NEW d \in DoneT, NEW new \in Value,
           store' = [store EXCEPT ![call[t].key] = new], rpc' = [rpc EXCEPT ![t] = p],
           done' = [done EXCEPT ![t] = d], late' \subseteq late, UNCHANGED <<storage, call, epoch, cache>>,
           call[t].op = "get" => new = store[call[t].key], p.kind = rpc[t].kind,
           KindOK(storage = "TIKVIO", call[t], p), WriteOK(storage = "TIKVIO", call[t], p, d, new),
           AnswerOK(call[t], p, d), call[t].pc # "wait" => p.st = "none",
           \A r \in late' : r.thread = t =>
              r.val = p.val /\ (r.kind \in {"append", "delete"} => p.st = "broken" /\ ~d.did)
    PROVE  Inv' /\ \A u \in Threads : u # t => AbstractCall(u)' = AbstractCall(u)
<1>1. Types /\ (\A u \in Threads : ThreadOK(u)) /\ (\A r \in late : LateOK(r)) /\ OneWriter
  BY DEF Inv
<1>2. call[t].key \in Keys /\ call[t].arg \in Entries
  BY CallAt
<1>3. \A u \in Threads : /\ rpc'[u] = IF u = t THEN p ELSE rpc[u]
                         /\ done'[u] = IF u = t THEN d ELSE done[u]
  BY <1>1 DEF Types
<1>4. \A k \in Keys : store'[k] = IF k = call[t].key THEN new ELSE store[k]
  BY <1>1 DEF Types
<1>5. ThreadOK(t)'
  <2>1. Active(t)' /\ rpc'[t] = p /\ done'[t] = d /\ store'[call[t].key] = new
    BY <1>2, <1>3, <1>4 DEF Active
  <2> QED BY <1>2, <2>1 DEF ThreadOK
<1>6. ASSUME NEW u \in Threads, u # t PROVE ThreadOK(u)' /\ AbstractCall(u)' = AbstractCall(u)
  <2>1. ASSUME Active(u), call[u].op # "get" PROVE store'[call[u].key] = store[call[u].key]
    <3>1. call[u].key \in Keys
      BY <2>1, CallAt
    <3>2. CASE call[t].op = "get"
      BY <1>4, <3>1, <3>2
    <3>3. CASE call[t].op # "get"
      <4>1. call[u].key # call[t].key
        BY <1>1, <1>6, <2>1, <3>3 DEF OneWriter
      <4> QED BY <1>4, <3>1, <4>1
    <3> QED BY <3>2, <3>3
  <2> QED BY <1>1, <1>3, <1>6, <2>1, OtherThread
<1>7. Types'
  BY <1>1 DEF Types
<1>8. ASSUME NEW r \in late' PROVE LateOK(r)'
  <2>1. r \in late /\ r.thread \in Threads /\ LateOK(r)
    BY <1>1 DEF LateT, Types
  <2>2. CASE r.thread # t
    BY <1>3, <2>1, <2>2 DEF LateOK, Active
  <2>3. CASE r.thread = t
    BY <1>3, <1>8, <2>1, <2>3 DEF LateOK, Active
  <2> QED BY <2>2, <2>3
<1>9. OneWriter'
  BY <1>1 DEF OneWriter, Active
<1> QED BY <1>5, <1>6, <1>7, <1>8, <1>9 DEF Inv

\* How the abstract call of a thread changes with what the server has done for it.
LEMMA AbstractDone ==
    ASSUME NEW t \in Threads, Active(t), call'[t] = call[t]
    PROVE  /\ done'[t] = done[t] => AbstractCall(t)' = AbstractCall(t)
           /\ done'[t].did /\ done'[t].res = done[t].res =>
                 AbstractCall(t)' = [AbstractCall(t) EXCEPT !.st = "done"]
           /\ done'[t].did /\ done[t].did /\ done'[t].res = done[t].res => AbstractCall(t)' = AbstractCall(t)
           /\ done'[t].did =>
                 AbstractCall(t)' = [AbstractCall(t) EXCEPT !.st = "done", !.res = done'[t].res]
<1> DEFINE abs(st, res) == [op |-> call[t].op, key |-> call[t].key, arg |-> call[t].arg, st |-> st,
                            ret |-> call[t].ret, res |-> res]
<1>1. AbstractCall(t) = abs(IF done[t].did THEN "done" ELSE "open", done[t].res)
  BY DEF AbstractCall, Active
<1>2. AbstractCall(t)' = abs(IF done'[t].did THEN "done" ELSE "open", done'[t].res)
  BY DEF AbstractCall, Active
<1>3. \A st, res, st2 : [abs(st, res) EXCEPT !.st = st2] = abs(st2, res)
  OBVIOUS
<1>4. \A st, res, res2 : [abs(st, res) EXCEPT !.res = res2] = abs(st, res2)
  OBVIOUS
<1> HIDE DEF abs
<1>5. ASSUME done'[t].did
      PROVE  /\ AbstractCall(t)' = abs("done", done'[t].res)
             /\ [AbstractCall(t) EXCEPT !.st = "done"] = abs("done", done[t].res)
             /\ [AbstractCall(t) EXCEPT !.st = "done", !.res = done'[t].res] = abs("done", done'[t].res)
  <2>1. AbstractCall(t)' = abs("done", done'[t].res)
    BY <1>2, <1>5
  <2>2. [AbstractCall(t) EXCEPT !.st = "done"] = abs("done", done[t].res)
    BY <1>1, <1>3
  <2>3. [abs("done", done[t].res) EXCEPT !.res = done'[t].res] = abs("done", done'[t].res)
    BY <1>4
  <2> QED BY <2>1, <2>2, <2>3
<1> QED BY <1>1, <1>2, <1>5

\* A write that changes nothing, because the call has been executed before or finds nothing.
LEMMA StoreStutter ==
    ASSUME Inv, NEW t \in Threads, call[t].key \in Keys, UNCHANGED storage,
           store' = [store EXCEPT ![call[t].key] = store[call[t].key]],
           AbstractCall(t)' = AbstractCall(t), \A u \in Threads : u # t => AbstractCall(u)' = AbstractCall(u)
    PROVE  UNCHANGED Promised!vars
<1>1. store' = store
  BY DEF Inv, Types
<1> QED BY <1>1, Stutter

\* The server executes the request of a call.
LEMMA ServeStep ==
    ASSUME Inv, NEW t \in Threads, Serve(t)
    PROVE  Inv' /\ [Promised!Next]_Promised!vars
<1> DEFINE k == call[t].key
           s == store[k]
           x == Executed(rpc[t].kind, s, rpc[t].val)
           p == [rpc[t] EXCEPT !.st = x.st, !.val = IF rpc[t].kind = "get" THEN x.store ELSE @]
           own == rpc[t].kind # "get" \/ call[t].op = "get"
           d == IF own /\ x.st = "ok"
                THEN [did |-> TRUE, res |-> IF rpc[t].kind = "get" THEN x.store ELSE <<>>] ELSE done[t]
<1>1. rpc[t].st = "sent" /\ Active(t)
  BY CallAt DEF Serve
<1>2. /\ call[t] \in CallT /\ rpc[t] \in RpcT /\ done[t] \in DoneT /\ k \in Keys /\ s \in Value /\ call[t].arg \in Entries
      /\ KindOK(storage = "TIKVIO", call[t], rpc[t]) /\ WriteOK(storage = "TIKVIO", call[t], rpc[t], done[t], s)
      /\ AnswerOK(call[t], rpc[t], done[t]) /\ call[t].pc = "wait"
  BY <1>1, CallAt
<1>3. /\ call[t].op \in Ops /\ rpc[t].kind \in {"get", "put", "append", "delete"} /\ rpc[t].val \in Value
  BY <1>2 DEF CallT, RpcT
<1>4. /\ store' = [store EXCEPT ![k] = x.store] /\ UNCHANGED <<storage, call, late, epoch, cache>>
      /\ rpc' = [rpc EXCEPT ![t] = p]
  BY DEF Serve
<1>5. done' = [done EXCEPT ![t] = d]
  <2>1. done \in [Threads -> DoneT]
    BY DEF Inv, Types
  <2> QED BY <2>1 DEF Serve
<1>6. \A r \in late : r.thread = t => /\ r.val = rpc[t].val /\ r.kind = rpc[t].kind /\ rpc[t].kind = "put"
  BY <1>1, <1>3 DEF Inv, LateOK
<1>7. ~done[t].did \/ rpc[t].kind \in {"put", "get"}
  BY <1>1, <1>2, <1>3 DEF WriteOK
<1>8. done'[t] = d /\ call'[t] = call[t]
  BY <1>4, <1>5 DEF Inv, Types
<1> HIDE DEF x
<1>9. ASSUME x.store \in Value, x.st \in {"ok", "absent"}
      PROVE  p \in RpcT /\ p.st = x.st /\ p.kind = rpc[t].kind
             /\ (p.val = IF rpc[t].kind = "get" THEN x.store ELSE rpc[t].val) /\ d \in DoneT
  BY <1>2, <1>3, <1>9, ConstantTypes DEF RpcT, DoneT
<1> HIDE DEF p, d
<1>10. CASE rpc[t].kind = "get"
  <2>1. x.store = s /\ x.st = IF s = <<>> THEN "absent" ELSE "ok"
    BY <1>10, ExecutedIs DEF x
  <2>2. p \in RpcT /\ p.st = x.st /\ p.kind = "get" /\ p.val = s /\ d \in DoneT
    BY <1>2, <1>9, <1>10, <2>1
  <2>3. d = IF call[t].op = "get" /\ s # <<>> THEN [did |-> TRUE, res |-> s] ELSE done[t]
    BY <1>10, <2>1 DEF d
  <2>4. KindOK(storage = "TIKVIO", call[t], p)
    BY <1>2, <1>10, <2>2 DEF KindOK
  <2>5. WriteOK(storage = "TIKVIO", call[t], p, d, s) /\ AnswerOK(call[t], p, d)
    BY <1>2, <1>10, <2>1, <2>2, <2>3 DEF WriteOK, AnswerOK
  <2>6. \A r \in late' : r.thread # t
    BY <1>4, <1>6, <1>10
  <2>7. Inv' /\ \A u \in Threads : u # t => AbstractCall(u)' = AbstractCall(u)
    BY <1>1, <1>2, <1>4, <1>5, <1>10, <2>1, <2>2, <2>4, <2>5, <2>6, StoreStep
  <2>8. CASE d = done[t]
    <3>1. AbstractCall(t)' = AbstractCall(t)
      BY <1>1, <1>8, <2>8, AbstractDone
    <3> QED BY <1>2, <1>4, <2>1, <2>7, <3>1, StoreStutter
  <2>9. CASE d # done[t]
    <3> DEFINE abs == [u \in Threads |-> AbstractCall(u)]
    <3>1. call[t].op = "get" /\ s # <<>> /\ d.did /\ d.res = s
      BY <2>3, <2>9
    <3>2. AbstractCall(t)' = [AbstractCall(t) EXCEPT !.st = "done", !.res = s]
      BY <1>1, <1>8, <3>1, AbstractDone
    <3>3. abs' = [abs EXCEPT ![t] = [AbstractCall(t) EXCEPT !.st = "done", !.res = s]]
      BY <2>7, <3>2, AbstractStep
    <3>4. abs' = [abs EXCEPT ![t].st = "done", ![t].res = s]
      BY <3>3
    <3>5. abs[t].op = "get" /\ abs[t].key = k /\ abs[t].st \in {"open", "done"}
      BY <1>1, <3>1 DEF AbstractCall, Active
    <3>6. store' = store
      BY <1>2, <1>4, <2>1 DEF Inv, Types
    <3> HIDE DEF abs
    <3>7. Promised!Read(t)
      BY <1>4, <3>1, <3>4, <3>5, <3>6 DEF Promised!Read, abs
    <3> QED BY <2>7, <3>7 DEF Promised!Next
  <2> QED BY <2>8, <2>9
<1>11. CASE rpc[t].kind = "put"
  <2>1. x.store = rpc[t].val /\ x.st = "ok"
    BY <1>11, ExecutedIs DEF x
  <2>2. p \in RpcT /\ p.st = "ok" /\ p.kind = "put" /\ p.val = rpc[t].val /\ d \in DoneT
    BY <1>3, <1>9, <1>11, <2>1
  <2>3. d = [did |-> TRUE, res |-> <<>>]
    BY <1>11, <2>1 DEF d
  <2>4. KindOK(storage = "TIKVIO", call[t], p)
    BY <1>2, <1>11, <2>2 DEF KindOK
  <2>5. WriteOK(storage = "TIKVIO", call[t], p, d, rpc[t].val) /\ AnswerOK(call[t], p, d) /\ call[t].op # "get"
    BY <1>2, <1>11, <2>2, <2>3 DEF WriteOK, AnswerOK, KindOK
  <2>6. \A r \in late' : r.thread = t => r.val = p.val /\ r.kind = "put"
    BY <1>4, <1>6, <2>2
  <2>7. Inv' /\ \A u \in Threads : u # t => AbstractCall(u)' = AbstractCall(u)
    BY <1>1, <1>2, <1>3, <1>4, <1>5, <1>11, <2>1, <2>2, <2>4, <2>5, <2>6, StoreStep
  <2>8. done[t].res = <<>> /\ done'[t].did /\ done'[t].res = <<>>
    BY <1>2, <1>8, <2>3, <2>5 DEF AnswerOK
  <2>9. CASE done[t].did
    <3>1. AbstractCall(t)' = AbstractCall(t) /\ s = rpc[t].val
      BY <1>1, <1>2, <1>8, <1>11, <2>8, <2>9, AbstractDone DEF WriteOK
    <3> QED BY <1>2, <1>4, <2>1, <2>7, <3>1, StoreStutter
  <2>10. CASE ~done[t].did
    <3>1. AbstractCall(t)' = [AbstractCall(t) EXCEPT !.st = "done"]
      BY <1>1, <1>8, <2>8, AbstractDone
    <3>2. \/ call[t].op = "put" /\ rpc[t].val = <<call[t].arg>>
          \/ call[t].op = "merge" /\ (\/ rpc[t].val = Append(s, call[t].arg)
                                      \/ storage = "TIKVIO" /\ rpc[t].val = <<call[t].arg>>)
      BY <1>2, <1>3, <1>11, <2>5, <2>10 DEF KindOK, WriteOK, Ops
    <3> QED BY <1>1, <1>3, <1>4, <2>1, <2>5, <2>7, <2>10, <3>1, <3>2, FirstWrite
  <2> QED BY <2>9, <2>10
<1>12. CASE rpc[t].kind = "append"
  <2>1. /\ s = <<>> => x.store = s /\ x.st = "absent"
        /\ s # <<>> => x.store = s \o rpc[t].val /\ x.st = "ok"
    <3>1. x = Executed("append", s, rpc[t].val)
      BY <1>12 DEF x
    <3>2. ASSUME s = <<>> PROVE x.store = s /\ x.st = "absent"
      <4>1. x = [store |-> s, st |-> "absent"]
        BY <3>1, <3>2, ExecutedIs
      <4> QED BY <4>1
    <3>3. ASSUME s # <<>> PROVE x.store = s \o rpc[t].val /\ x.st = "ok"
      <4>1. x = [store |-> s \o rpc[t].val, st |-> "ok"]
        BY <3>1, <3>3, ExecutedIs
      <4> QED BY <4>1
    <3> QED BY <3>2, <3>3
  <2>2. call[t].op = "merge" /\ rpc[t].val = <<call[t].arg>> /\ ~done[t].did /\ done[t].res = <<>>
    BY <1>2, <1>3, <1>7, <1>12 DEF KindOK, AnswerOK, Ops
  <2>3. s \o rpc[t].val = Append(s, call[t].arg) /\ s \o rpc[t].val \in Value
    BY <1>2, <1>3, <2>2 DEF Value
  <2>4. p \in RpcT /\ p.st = x.st /\ p.kind = "append" /\ p.val = rpc[t].val /\ d \in DoneT /\ x.store \in Value
    BY <1>2, <1>9, <1>12, <2>1, <2>3
  <2>5. d = IF s = <<>> THEN done[t] ELSE [did |-> TRUE, res |-> <<>>]
    BY <1>12, <2>1 DEF d
  <2>6. KindOK(storage = "TIKVIO", call[t], p)
    BY <1>2, <1>12, <2>4 DEF KindOK
  <2>7. WriteOK(storage = "TIKVIO", call[t], p, d, x.store) /\ AnswerOK(call[t], p, d)
    BY <2>1, <2>2, <2>4, <2>5 DEF WriteOK, AnswerOK
  <2>8. \A r \in late' : r.thread # t
    BY <1>4, <1>6, <1>12
  <2>9. Inv' /\ \A u \in Threads : u # t => AbstractCall(u)' = AbstractCall(u)
    BY <1>1, <1>2, <1>4, <1>5, <1>12, <2>2, <2>4, <2>6, <2>7, <2>8, StoreStep
  <2>10. CASE s = <<>>
    <3>1. AbstractCall(t)' = AbstractCall(t)
      BY <1>1, <1>8, <2>5, <2>10, AbstractDone
    <3> QED BY <1>2, <1>4, <2>1, <2>9, <2>10, <3>1, StoreStutter
  <2>11. CASE s # <<>>
    <3>1. AbstractCall(t)' = [AbstractCall(t) EXCEPT !.st = "done"]
      <4>1. done'[t].did /\ done'[t].res = done[t].res
        BY <1>8, <2>2, <2>5, <2>11
      <4> QED BY <1>1, <1>8, <4>1, AbstractDone
    <3> QED BY <1>1, <1>3, <1>4, <2>1, <2>2, <2>3, <2>9, <2>11, <3>1, FirstWrite
  <2> QED BY <2>10, <2>11
<1>13. CASE rpc[t].kind = "delete"
  <2>1. x.store = <<>> /\ x.st = IF s = <<>> /\ storage = "AEROSPIKEIO" THEN "absent" ELSE "ok"
    BY <1>13, ExecutedIs DEF x
  <2>2. call[t].op = "delete" /\ ~done[t].did /\ done[t].res = <<>>
    BY <1>2, <1>3, <1>7, <1>13 DEF KindOK, AnswerOK, Ops
  <2>3. p \in RpcT /\ p.st = x.st /\ p.kind = "delete" /\ p.val = rpc[t].val /\ d \in DoneT /\ x.store \in Value
    BY <1>9, <1>13, <2>1, ConstantTypes
  <2>4. d = IF x.st = "absent" THEN done[t] ELSE [did |-> TRUE, res |-> <<>>]
    BY <1>13, <2>1 DEF d
  <2>5. KindOK(storage = "TIKVIO", call[t], p)
    BY <1>2, <1>13, <2>3 DEF KindOK
  <2>6. WriteOK(storage = "TIKVIO", call[t], p, d, x.store) /\ AnswerOK(call[t], p, d)
    BY <2>1, <2>2, <2>3, <2>4 DEF WriteOK, AnswerOK
  <2>7. \A r \in late' : r.thread # t
    BY <1>4, <1>6, <1>13
  <2>8. Inv' /\ \A u \in Threads : u # t => AbstractCall(u)' = AbstractCall(u)
    BY <1>1, <1>2, <1>4, <1>5, <1>13, <2>2, <2>3, <2>5, <2>6, <2>7, StoreStep
  <2>9. CASE x.st = "absent"
    <3>1. AbstractCall(t)' = AbstractCall(t) /\ s = <<>>
      BY <1>1, <1>8, <2>1, <2>4, <2>9, AbstractDone
    <3> QED BY <1>2, <1>4, <2>1, <2>8, <3>1, StoreStutter
  <2>10. CASE x.st # "absent"
    <3>1. AbstractCall(t)' = [AbstractCall(t) EXCEPT !.st = "done"]
      <4>1. done'[t].did /\ done'[t].res = done[t].res
        BY <1>8, <2>2, <2>4, <2>10
      <4> QED BY <1>1, <1>8, <4>1, AbstractDone
    <3> QED BY <1>1, <1>3, <1>4, <2>1, <2>2, <2>8, <3>1, FirstWrite
  <2> QED BY <2>9, <2>10
<1> QED BY <1>3, <1>10, <1>11, <1>12, <1>13

\* A call has one request that is late, because all of them are alike.
LEMMA OneLate ==
    ASSUME Inv, NEW r \in late, NEW q \in late, q.thread = r.thread
    PROVE  q = r
<1>1. LateOK(r) /\ LateOK(q) /\ r \in LateT /\ q \in LateT
  BY DEF Inv, Types
<1>2. r.waits = TRUE /\ q.waits = TRUE
  BY <1>1 DEF LateOK, LateT
<1>3. q.kind = r.kind /\ q.key = r.key /\ q.val = r.val
  BY <1>1 DEF LateOK
<1> QED BY <1>1, <1>2, <1>3 DEF LateT

\* The server executes a request whose deadline has passed, while its call is under way.
LEMMA ServeLateStep ==
    ASSUME Inv, NEW r \in late, ServeLate(r)
    PROVE  Inv' /\ [Promised!Next]_Promised!vars
<1> DEFINE t == r.thread
           k == call[t].key
           s == store[k]
           x == Executed(rpc[t].kind, s, rpc[t].val)
           d == IF x.st = "ok" THEN [did |-> TRUE, res |-> <<>>] ELSE done[t]
<1>1. LateOK(r) /\ r \in LateT /\ t \in Threads /\ Active(t) /\ r.key = k /\ r.kind = rpc[t].kind /\ r.val = rpc[t].val
  BY DEF Inv, Types, LateOK, LateT
<1>2. /\ call[t] \in CallT /\ rpc[t] \in RpcT /\ done[t] \in DoneT /\ k \in Keys /\ s \in Value /\ call[t].arg \in Entries
      /\ KindOK(storage = "TIKVIO", call[t], rpc[t]) /\ WriteOK(storage = "TIKVIO", call[t], rpc[t], done[t], s)
      /\ AnswerOK(call[t], rpc[t], done[t]) /\ (call[t].pc # "wait" => rpc[t].st = "none")
  BY <1>1, CallAt
<1>3. /\ call[t].op \in Ops /\ rpc[t].kind \in {"put", "append", "delete"} /\ rpc[t].val \in Value
      /\ rpc[t].kind \in {"append", "delete"} => rpc[t].st = "broken" /\ ~done[t].did
  BY <1>1, <1>2 DEF CallT, RpcT, LateOK
<1>4. /\ store' = [store EXCEPT ![k] = x.store] /\ UNCHANGED <<storage, call, rpc, epoch, cache>>
      /\ late' = late \ {r}
  BY <1>1 DEF ServeLate
<1>5. rpc' = [rpc EXCEPT ![t] = rpc[t]]
  BY <1>4 DEF Inv, Types
<1>6. done' = [done EXCEPT ![t] = d]
  <2>1. done \in [Threads -> DoneT]
    BY DEF Inv, Types
  <2> QED BY <1>1, <2>1 DEF ServeLate, LateOK
<1>7. \A q \in late' : q.thread # t
  BY <1>4, OneLate
<1>8. done'[t] = d /\ call'[t] = call[t] /\ done[t].res = <<>> /\ call[t].op # "get"
  BY <1>1, <1>2, <1>3, <1>4, <1>6 DEF Inv, Types, AnswerOK, KindOK
<1>9. d \in DoneT
  BY <1>2, ConstantTypes DEF DoneT
<1>10. /\ x.st = "ok" => d.did /\ d.res = <<>>
       /\ x.st # "ok" => d = done[t]
  OBVIOUS
<1> HIDE DEF x, d, t
<1>11. ASSUME x.store \in Value, WriteOK(storage = "TIKVIO", call[t], rpc[t], d, x.store),
              AnswerOK(call[t], rpc[t], d)
       PROVE  Inv' /\ \A u \in Threads : u # t => AbstractCall(u)' = AbstractCall(u)
  BY <1>1, <1>2, <1>4, <1>5, <1>6, <1>7, <1>8, <1>9, <1>11, StoreStep
<1>12. AnswerOK(call[t], rpc[t], d)
  BY <1>2, <1>8, <1>10 DEF AnswerOK
<1>13. CASE rpc[t].kind = "put"
  <2>1. x.store = rpc[t].val /\ x.st = "ok"
    BY <1>13, ExecutedIs DEF x
  <2>2. WriteOK(storage = "TIKVIO", call[t], rpc[t], d, x.store) /\ x.store \in Value
    BY <1>3, <1>10, <1>13, <2>1 DEF WriteOK
  <2>3. Inv' /\ \A u \in Threads : u # t => AbstractCall(u)' = AbstractCall(u)
    BY <1>11, <1>12, <2>2
  <2>4. done'[t].did /\ done'[t].res = done[t].res
    BY <1>8, <1>10, <2>1
  <2>5. CASE done[t].did
    <3>1. AbstractCall(t)' = AbstractCall(t) /\ s = rpc[t].val
      BY <1>1, <1>2, <1>8, <1>13, <2>4, <2>5, AbstractDone DEF WriteOK
    <3> QED BY <1>1, <1>2, <1>4, <2>1, <2>3, <3>1, StoreStutter
  <2>6. CASE ~done[t].did
    <3>1. AbstractCall(t)' = [AbstractCall(t) EXCEPT !.st = "done"]
      BY <1>1, <1>8, <2>4, AbstractDone
    <3>2. \/ call[t].op = "put" /\ rpc[t].val = <<call[t].arg>>
          \/ call[t].op = "merge" /\ (\/ rpc[t].val = Append(s, call[t].arg)
                                      \/ storage = "TIKVIO" /\ rpc[t].val = <<call[t].arg>>)
      BY <1>2, <1>3, <1>8, <1>13, <2>6 DEF KindOK, WriteOK, Ops
    <3> QED BY <1>1, <1>3, <1>4, <1>8, <2>1, <2>3, <2>6, <3>1, <3>2, FirstWrite
  <2> QED BY <2>5, <2>6
<1>14. CASE rpc[t].kind = "append"
  <2>1. x = Executed("append", s, rpc[t].val)
    BY <1>14 DEF x
  <2>2. call[t].op = "merge" /\ rpc[t].val = <<call[t].arg>> /\ ~done[t].did /\ rpc[t].st = "broken"
    BY <1>2, <1>3, <1>14 DEF KindOK, Ops
  <2>3. s \o rpc[t].val = Append(s, call[t].arg) /\ s \o rpc[t].val \in Value
    BY <1>2, <1>3, <2>2 DEF Value
  <2>4. CASE s = <<>>
    <3>1. x = [store |-> s, st |-> "absent"]
      BY <2>1, <2>4, ExecutedIs
    <3>2. x.store = s /\ d = done[t]
      BY <1>10, <3>1
    <3>3. Inv' /\ \A u \in Threads : u # t => AbstractCall(u)' = AbstractCall(u)
      BY <1>2, <1>11, <1>12, <3>2
    <3>4. AbstractCall(t)' = AbstractCall(t)
      BY <1>1, <1>8, <3>2, AbstractDone
    <3> QED BY <1>1, <1>2, <1>4, <3>2, <3>3, <3>4, StoreStutter
  <2>5. CASE s # <<>>
    <3>1. x = [store |-> s \o rpc[t].val, st |-> "ok"]
      BY <2>1, <2>5, ExecutedIs
    <3>2. x.store = s \o rpc[t].val /\ d.did /\ d.res = <<>>
      BY <1>10, <3>1
    <3>3. WriteOK(storage = "TIKVIO", call[t], rpc[t], d, x.store)
      BY <1>14, <2>2, <3>2 DEF WriteOK
    <3>4. Inv' /\ \A u \in Threads : u # t => AbstractCall(u)' = AbstractCall(u)
      BY <1>11, <1>12, <2>3, <3>2, <3>3
    <3>5. AbstractCall(t)' = [AbstractCall(t) EXCEPT !.st = "done"]
      BY <1>1, <1>8, <3>2, AbstractDone
    <3> QED BY <1>1, <1>3, <1>4, <2>2, <2>3, <3>2, <3>4, <3>5, FirstWrite
  <2> QED BY <2>4, <2>5
<1>15. CASE rpc[t].kind = "delete"
  <2>1. x.store = <<>> /\ x.st = IF s = <<>> /\ storage = "AEROSPIKEIO" THEN "absent" ELSE "ok"
    BY <1>15, ExecutedIs DEF x
  <2>2. call[t].op = "delete" /\ ~done[t].did /\ rpc[t].st = "broken"
    BY <1>2, <1>3, <1>15 DEF KindOK, Ops
  <2>3. WriteOK(storage = "TIKVIO", call[t], rpc[t], d, x.store)
    BY <1>15, <2>2 DEF WriteOK
  <2>4. Inv' /\ \A u \in Threads : u # t => AbstractCall(u)' = AbstractCall(u)
    BY <1>11, <1>12, <2>1, <2>3, ConstantTypes
  <2>5. CASE x.st = "absent"
    <3>1. AbstractCall(t)' = AbstractCall(t) /\ s = <<>>
      BY <1>1, <1>8, <1>10, <2>1, <2>5, AbstractDone
    <3> QED BY <1>1, <1>2, <1>4, <2>1, <2>4, <3>1, StoreStutter
  <2>6. CASE x.st # "absent"
    <3>1. done'[t].did /\ done'[t].res = done[t].res
      BY <1>8, <1>10, <2>1, <2>6
    <3>2. AbstractCall(t)' = [AbstractCall(t) EXCEPT !.st = "done"]
      BY <1>1, <1>8, <3>1, AbstractDone
    <3> QED BY <1>1, <1>3, <1>4, <2>1, <2>2, <2>4, <3>2, FirstWrite
  <2> QED BY <2>5, <2>6
<1> QED BY <1>3, <1>13, <1>14, <1>15

-----------------------------------------------------------------------------
\* Get, Put or Delete of TiKVIO is over: the call returns, or Merge goes on with its Put.
LEMMA FinishStep ==
    ASSUME Inv, NoneLeft, NEW t \in Threads, Active(t), NEW r \in {"ok", "fail"}, Finish(t, r),
           UNCHANGED <<storage, store, epoch>>, cache' \in [Keys -> RegionT],
           r = "ok" => rpc[t].st = "ok" \/ call[t].op = "delete"
    PROVE  Inv' /\ [Promised!Next]_Promised!vars
<1>1. /\ call[t] \in CallT /\ rpc[t] \in RpcT /\ call[t].key \in Keys /\ call[t].arg \in Entries
      /\ KindOK(storage = "TIKVIO", call[t], rpc[t]) /\ call[t].op \in Ops /\ rpc[t].val \in Value
      /\ WriteOK(storage = "TIKVIO", call[t], rpc[t], done[t], store[call[t].key])
  BY CallAt DEF CallT, RpcT
<1>2. CASE call[t].op = "merge" /\ rpc[t].kind = "get"
  <2> DEFINE val == IF r = "ok" THEN Append(rpc[t].val, call[t].arg) ELSE <<call[t].arg>>
             c == [call[t] EXCEPT !.pc = "stub", !.attempt = 0]
             p == [NoRpc EXCEPT !.kind = "put", !.val = val]
  <2>1. /\ call' = [call EXCEPT ![t] = c] /\ rpc' = [rpc EXCEPT ![t] = p] /\ UNCHANGED <<late, done>>
    BY <1>2 DEF Finish
  <2>2. storage = "TIKVIO" /\ ~done[t].did /\ (rpc[t].st = "ok" => rpc[t].val = store[call[t].key])
    BY <1>1, <1>2 DEF KindOK, WriteOK
  <2>3. val \in Value
    <3>1. call[t].arg \in Entries \cup {FirstEntry}
      BY <1>1
    <3>2. Append(rpc[t].val, call[t].arg) \in Value
      BY <1>1, <3>1, AppendProperties DEF Value
    <3> QED BY <3>1, <3>2, ConstantTypes
  <2>4. /\ c \in CallT /\ c.pc = "stub" /\ c.op = call[t].op /\ c.key = call[t].key
        /\ c.arg = call[t].arg /\ c.ret = call[t].ret
    BY <1>1 DEF CallT
  <2>5. p \in RpcT /\ p.kind = "put" /\ p.val = val /\ p.st = "none"
    BY <2>3, ConstantTypes DEF RpcT, NoRpc
  <2>6. \A q \in late : q.thread # t
    BY <1>2 DEF Inv, LateOK
  <2>7. val = Append(store[call[t].key], call[t].arg) \/ val = <<call[t].arg>>
    BY <1>2, <2>2
  <2> HIDE DEF c, p, val
  <2> QED BY <1>2, <2>1, <2>2, <2>4, <2>5, <2>6, <2>7, PutPhase
<1>3. CASE ~(call[t].op = "merge" /\ rpc[t].kind = "get")
  <2>1. rpc[t].kind = "get" => call[t].op = "get"
    BY <1>1, <1>3 DEF KindOK, Ops
  <2>2. Return(t, r)
    BY <1>3 DEF Finish
  <2> QED BY <2>1, <2>2, ReturnStep
<1> QED BY <1>2, <1>3

LEMMA TiKVSteps ==
    ASSUME Inv, NoneLeft, NEW t \in Threads, TiKVStep(t)
    PROVE  Inv' /\ [Promised!Next]_Promised!vars
<1>1. /\ call[t] \in CallT /\ rpc[t] \in RpcT /\ late \subseteq LateT
      /\ epoch \in [Keys -> Nat] /\ cache \in [Keys -> RegionT]
      /\ Active(t) => call[t].key \in Keys /\ KindOK(storage = "TIKVIO", call[t], rpc[t]) /\ call[t].op \in Ops
  BY CallAt DEF CallT
<1>2. CASE FindRegionForKey(t) \/ AskPD(t) \/ GetRegionFromPD(t) \/ CacheRegion(t) \/ PDFails(t)
  BY <1>2, RegionSteps
<1>3. CASE NoStub(t)
  <2>1. Active(t) /\ Finish(t, "fail") /\ UNCHANGED <<storage, store, epoch, cache>>
    BY <1>3 DEF NoStub, Active
  <2> QED BY <1>1, <2>1, FinishStep
<1>4. CASE TiKVAnswered(t)
  <2> DEFINE r == IF rpc[t].st = "ok" THEN "ok" ELSE "fail"
  <2>1. Active(t) /\ Finish(t, r) /\ UNCHANGED <<storage, store, epoch, cache>>
    BY <1>4 DEF TiKVAnswered, Active
  <2>2. r \in {"ok", "fail"} /\ (r = "ok" => rpc[t].st = "ok")
    OBVIOUS
  <2> HIDE DEF r
  <2> QED BY <1>1, <2>1, <2>2, FinishStep
<1>5. CASE TiKVDeleteUnanswered(t)
  <2> DEFINE r == IF rpc[t].st = "region" THEN "ok" ELSE "fail"
  <2>1. Active(t) /\ Finish(t, r) /\ UNCHANGED <<storage, store, epoch, cache>> /\ rpc[t].kind = "delete"
    BY <1>5 DEF TiKVDeleteUnanswered, Active
  <2>2. call[t].op = "delete" /\ r \in {"ok", "fail"}
    BY <1>1, <2>1 DEF KindOK, Ops
  <2> HIDE DEF r
  <2> QED BY <1>1, <2>1, <2>2, FinishStep
<1>6. CASE TiKVRetry(t)
  <2>1. /\ Active(t) /\ NextAttempt(t) /\ UNCHANGED <<storage, store, epoch>> /\ rpc[t].kind # "delete"
        /\ storage = "TIKVIO" /\ cache' = [cache EXCEPT ![call[t].key] = Unknown]
    BY <1>6 DEF TiKVRetry, Active
  <2>2. cache' \in [Keys -> RegionT]
    BY <1>1, <2>1, ConstantTypes
  <2>3. CASE call[t].attempt + 1 < Attempts
    <3> DEFINE c == [call[t] EXCEPT !.pc = "stub", !.attempt = @ + 1]
               p == [NoRpc EXCEPT !.kind = rpc[t].kind, !.val = rpc[t].val]
    <3>1. /\ call' = [call EXCEPT ![t] = c] /\ rpc' = [rpc EXCEPT ![t] = p] /\ UNCHANGED <<late, done>>
      BY <2>1, <2>3 DEF NextAttempt
    <3>2. /\ c \in CallT /\ c.pc = "stub" /\ c.op = call[t].op /\ c.key = call[t].key
          /\ c.arg = call[t].arg /\ c.ret = call[t].ret
      <4> DEFINE n == call[t].attempt + 1
      <4>1. n \in Nat /\ c = [call[t] EXCEPT !.pc = "stub", !.attempt = n]
        BY <1>1 DEF CallT
      <4> HIDE DEF n, c
      <4> QED BY <1>1, <4>1 DEF CallT
    <3>3. p \in RpcT /\ p.kind = rpc[t].kind /\ p.val = rpc[t].val /\ p.st = "none"
      BY <1>1, ConstantTypes DEF RpcT, NoRpc
    <3>4. rpc[t].kind \notin {"append", "delete"}
      BY <1>1, <2>1 DEF KindOK, Ops
    <3> HIDE DEF c, p
    <3> QED BY <1>1, <2>1, <2>2, <3>1, <3>2, <3>3, <3>4, QuietStep
  <2>4. CASE ~(call[t].attempt + 1 < Attempts)
    <3>1. Finish(t, "fail")
      BY <2>1, <2>4 DEF NextAttempt
    <3> QED BY <2>1, <2>2, <3>1, FinishStep
  <2> QED BY <2>3, <2>4
<1> QED BY <1>2, <1>3, <1>4, <1>5, <1>6 DEF TiKVStep

LEMMA AerospikeSteps ==
    ASSUME Inv, NoneLeft, NEW t \in Threads, AerospikeStep(t)
    PROVE  Inv' /\ [Promised!Next]_Promised!vars
<1>1. Active(t)
  BY DEF AerospikeStep, AerospikeStart, NotConnected, MergeFallback, AerospikeAnswered, Active
<1>2. /\ call[t] \in CallT /\ rpc[t] \in RpcT /\ call[t].key \in Keys /\ call[t].arg \in Entries
      /\ KindOK(storage = "TIKVIO", call[t], rpc[t]) /\ call[t].op \in Ops /\ rpc[t].val \in Value
      /\ WriteOK(storage = "TIKVIO", call[t], rpc[t], done[t], store[call[t].key])
      /\ epoch \in [Keys -> Nat] /\ cache \in [Keys -> RegionT]
  BY <1>1, CallAt DEF CallT, RpcT
<1>3. CASE AerospikeStart(t)
  BY <1>3, StartStep
<1>4. CASE NotConnected(t)
  BY <1>1, <1>2, <1>4, ReturnStep DEF NotConnected
<1>5. CASE MergeFallback(t)
  <2> DEFINE c == [call[t] EXCEPT !.pc = "wait"]
             p == [rpc[t] EXCEPT !.kind = "put", !.st = "sent"]
  <2>1. /\ call' = [call EXCEPT ![t] = c] /\ rpc' = [rpc EXCEPT ![t] = p]
        /\ UNCHANGED <<storage, store, done, late, epoch, cache>>
        /\ rpc[t].kind = "append" /\ rpc[t].st = "absent"
    BY <1>5 DEF MergeFallback, Send, server
  <2>2. /\ call[t].op = "merge" /\ rpc[t].val = <<call[t].arg>> /\ store[call[t].key] = <<>> /\ ~done[t].did
    BY <1>2, <2>1 DEF KindOK, WriteOK, Ops
  <2>3. /\ c \in CallT /\ c.pc = "wait" /\ c.op = call[t].op /\ c.key = call[t].key
        /\ c.arg = call[t].arg /\ c.ret = call[t].ret
    BY <1>2 DEF CallT
  <2>4. p \in RpcT /\ p.kind = "put" /\ p.val = rpc[t].val /\ p.st = "sent"
    BY <1>2 DEF RpcT
  <2>5. \A q \in late : q.thread # t
    BY <2>1 DEF Inv, LateOK
  <2>6. rpc[t].val = Append(store[call[t].key], call[t].arg)
    BY <2>2
  <2> HIDE DEF c, p
  <2> QED BY <1>1, <1>2, <2>1, <2>2, <2>3, <2>4, <2>5, <2>6, PutPhase
<1>6. CASE AerospikeAnswered(t)
  <2>1. /\ Return(t, Status(t)) /\ UNCHANGED <<storage, store, epoch, cache>> /\ storage = "AEROSPIKEIO"
    BY <1>6 DEF AerospikeAnswered
  <2>2. /\ Status(t) \in {"ok", "fail"}
        /\ Status(t) = "ok" => rpc[t].st = "ok" \/ rpc[t].kind = "delete"
    BY DEF Status
  <2>3. /\ rpc[t].kind = "delete" => call[t].op = "delete"
        /\ rpc[t].kind = "get" => call[t].op = "get"
    BY <1>2, <2>1 DEF KindOK, Ops
  <2> QED BY <1>1, <1>2, <2>1, <2>2, <2>3, ReturnStep
<1> QED BY <1>3, <1>4, <1>5, <1>6 DEF AerospikeStep

\* Every step keeps the invariant and is a step, or none, of PostingStore.
LEMMA NextImplements ==
    ASSUME NoneLeft, Inv, [Next]_vars
    PROVE  Inv' /\ [Promised!Next]_Promised!vars
<1>1. CASE Invoke
  BY <1>1, CallStep DEF Invoke
<1>2. CASE \E t \in Threads : TiKVStep(t) \/ AerospikeStep(t)
  BY <1>2, TiKVSteps, AerospikeSteps
<1>3. CASE Network
  <2>1. CASE \E t \in Threads : Serve(t)
    BY <2>1, ServeStep
  <2>2. CASE \E t \in Threads : Refuse(t) \/ ServerError(t) \/ Break(t)
    BY <2>2, FaultSteps
  <2>3. CASE \E r \in late : ServeLate(r)
    BY <2>3, ServeLateStep
  <2>4. CASE \E k \in Keys : Move(k)
    BY <2>4, MoveStep
  <2> QED BY <1>3, <2>1, <2>2, <2>3, <2>4 DEF Network
<1>4. CASE UNCHANGED vars
  <2>1. ASSUME NEW u \in Threads PROVE ThreadOK(u)' /\ AbstractCall(u)' = AbstractCall(u)
    BY <1>4, OtherThread DEF Inv, vars
  <2>2. Types' /\ OneWriter' /\ \A r \in late' : LateOK(r)'
    BY <1>4 DEF Inv, Types, OneWriter, Active, LateOK, vars
  <2> QED BY <1>4, <2>1, <2>2, Stutter DEF Inv, vars
<1> QED BY <1>1, <1>2, <1>3, <1>4 DEF Next

LEMMA InitImplements == Init => Promised!Init
<1> SUFFICES ASSUME Init PROVE Promised!Init
  OBVIOUS
<1>1. \A t \in Threads : AbstractCall(t) = Promised!NoCall
  <2> SUFFICES ASSUME NEW t \in Threads PROVE AbstractCall(t) = Promised!NoCall
    OBVIOUS
  <2>1. call[t].pc = "idle" /\ call[t] = NoCall /\ done[t] = NotDone
    BY DEF Init, NoCall
  <2>2. AbstractCall(t) = [op |-> "get", key |-> FirstKey, arg |-> FirstEntry, st |-> "idle",
                           ret |-> "none", res |-> <<>>]
    BY <2>1 DEF AbstractCall, NoCall
  <2> QED BY <2>2 DEF Promised!NoCall, FirstKey, FirstEntry
<1>2. [t \in Threads |-> AbstractCall(t)] = [t \in Threads |-> Promised!NoCall]
  BY <1>1
<1>3. store \in [Keys -> {<<>>} \cup {<<e>> : e \in Entries}]
  <2>1. FirstEntry \in Entries
    BY RemoteAssumption DEF FirstEntry
  <2> QED BY <2>1 DEF Init
<1> QED BY <1>2, <1>3 DEF Promised!Init

\* The clients of TiKV and of Aerospike implement PostingStore, as long as a request ends
\* with the call that sent it: a call that reports success has taken effect exactly once
\* while it ran, one that reports failure at most once, whatever is lost, refused,
\* repeated or late.
THEOREM ClientsKeepPromise == ~Stragglers => (Spec => KeepsPromise)
<1> SUFFICES ASSUME ~Stragglers PROVE Spec => KeepsPromise
  OBVIOUS
<1>1. Init => Inv /\ Promised!Init
  BY InitInv, InitImplements
<1>2. Inv /\ [Next]_vars => Inv' /\ [Promised!Next]_Promised!vars
  BY NextImplements DEF NoneLeft
<1> QED BY <1>1, <1>2, PTL DEF Spec, KeepsPromise, Promised!Spec

-----------------------------------------------------------------------------
(***************************************************************************)
(* One move of a region, without faults and with two threads.  After the   *)
(* move an attempt can only fail on something that was learnt before it.   *)
(* A failed attempt clears the cache, so that what fails the next one has  *)
(* been put back by the other thread, which has only one old answer of PD  *)
(* to put back: the third attempt meets nothing old.                       *)
(***************************************************************************)
Calm == storage = "TIKVIO" /\ faults = 0 /\ moves <= 1

TwoThreads == \A t, u, v \in Threads : t = u \/ t = v \/ u = v

Old == [ctx |-> 1, addr |-> 1]
Current(k) == [ctx |-> epoch[k], addr |-> epoch[k]]

GotPcs == {"gotstub", "gotctx"}
StubPcs == {"ctx", "pdctx", "gotctx", "wait"}

\* Where something old may be: in the cache, in an answer of PD that is not yet cached, in
\* a request.
StaleCache(k) == cache[k] \notin {Unknown, Current(k)}
StaleAnswer(t, k) == call[t].pc \in GotPcs /\ call[t].key = k /\ rpc[t].pd # Current(k)
StaleRequest(t) ==
    \/ call[t].pc \in StubPcs /\ rpc[t].region.addr # epoch[call[t].key]
    \/ call[t].pc = "wait" /\ rpc[t].region.ctx # epoch[call[t].key]

\* What a thread knows of the region is as it is or as it was.
RegionOK(t) ==
    /\ call[t].pc # "send"
    /\ call[t].pc \in GotPcs => rpc[t].pd \in {Old, Current(call[t].key)}
    /\ call[t].pc \in StubPcs => rpc[t].region.addr \in {1, epoch[call[t].key]}
    /\ call[t].pc = "wait" => rpc[t].region.ctx \in {1, epoch[call[t].key]}
    /\ rpc[t].st = "region" => StaleRequest(t)

\* What an attempt may still meet.
AttemptOK(t) ==
    /\ call[t].attempt \in 0 .. 2
    /\ call[t].attempt # 0 => epoch[call[t].key] = 2 /\ ~StaleAnswer(t, call[t].key)
    /\ call[t].attempt = 1 /\ (StaleCache(call[t].key) \/ StaleRequest(t)) =>
          \A u \in Threads \ {t} : ~StaleAnswer(u, call[t].key)
    /\ call[t].attempt = 2 =>
          /\ ~StaleCache(call[t].key) /\ ~StaleRequest(t)
          /\ \A u \in Threads \ {t} : ~StaleAnswer(u, call[t].key)

\* Only a missing record is reported as a failure.
ReplyOK(t) ==
    /\ rpc[t].st \notin {"error", "broken"}
    /\ rpc[t].st = "absent" => rpc[t].kind = "get"
    /\ rpc[t].st = "absent" /\ call[t].op = "get" => missed[t]
    /\ rpc[t].st = "absent" /\ call[t].op = "merge" => store[call[t].key] = <<>>
    /\ call[t].op = "merge" /\ rpc[t].kind = "put" /\ ~done[t].did =>
          rpc[t].val = Append(store[call[t].key], call[t].arg)

EpochOK == \A k \in Keys : epoch[k] = 1 \/ (epoch[k] = 2 /\ moves = 1)
CacheOK == \A k \in Keys : cache[k] \in {Unknown, Old, Current(k)}

MoveInv ==
    /\ faults \in Nat /\ moves \in Nat
    /\ Calm =>
        /\ EpochOK /\ CacheOK /\ late = {} /\ missed \in [Threads -> BOOLEAN]
        /\ \A t \in Threads :
              /\ Active(t) => RegionOK(t) /\ AttemptOK(t) /\ ReplyOK(t)
              /\ call[t].ret = "fail" => missed[t] /\ ~Active(t)

\* A thread with a call keeps what it has while another one takes a step.
LEMMA OtherMoves ==
    ASSUME TwoThreads, NEW t \in Threads, NEW u \in Threads, u # t,
           RegionOK(u), AttemptOK(u), ReplyOK(u),
           \A v \in Threads : v # t => call'[v] = call[v] /\ rpc'[v] = rpc[v],
           done'[u] = done[u], missed'[u] = missed[u], UNCHANGED epoch,
           call[u].op = "merge" => store'[call[u].key] = store[call[u].key],
           StaleCache(call[u].key)' =>
              \/ StaleCache(call[u].key)
              \/ StaleAnswer(t, call[u].key) /\ ~StaleAnswer(t, call[u].key)',
           StaleAnswer(t, call[u].key)' => StaleAnswer(t, call[u].key)
    PROVE  RegionOK(u)' /\ AttemptOK(u)' /\ ReplyOK(u)'
<1> DEFINE k == call[u].key
<1>1. call'[u] = call[u] /\ rpc'[u] = rpc[u] /\ epoch' = epoch
  OBVIOUS
<1>2. StaleRequest(u)' <=> StaleRequest(u)
  BY <1>1 DEF StaleRequest
<1>3. RegionOK(u)'
  BY <1>1, <1>2 DEF RegionOK, Current, Old
<1>4. ReplyOK(u)'
  BY <1>1 DEF ReplyOK
<1>5. \A x : \A v \in Threads : v # t => (StaleAnswer(v, x)' <=> StaleAnswer(v, x))
  BY DEF StaleAnswer, Current
<1>6. AttemptOK(u)'
  <2>1. call[u].attempt \in 0 .. 2 /\ (call[u].attempt # 0 => epoch[k] = 2 /\ ~StaleAnswer(u, k)')
    BY <1>5 DEF AttemptOK
  <2>2. ASSUME call[u].attempt = 1, StaleCache(k)' \/ StaleRequest(u), NEW v \in Threads, v # u
        PROVE  ~StaleAnswer(v, k)'
    <3>1. v = t
      BY <2>2 DEF TwoThreads
    <3>2. CASE StaleCache(k) \/ StaleRequest(u)
      BY <2>2, <3>1, <3>2 DEF AttemptOK
    <3>3. CASE ~(StaleCache(k) \/ StaleRequest(u))
      BY <2>2, <3>1, <3>3
    <3> QED BY <3>2, <3>3
  <2>3. ASSUME call[u].attempt = 2
        PROVE  ~StaleCache(k)' /\ ~StaleRequest(u) /\ \A v \in Threads \ {u} : ~StaleAnswer(v, k)'
    <3>1. ~StaleCache(k) /\ ~StaleRequest(u) /\ \A v \in Threads \ {u} : ~StaleAnswer(v, k)
      BY <2>3 DEF AttemptOK
    <3>2. ~StaleCache(k)'
      BY <3>1
    <3>3. \A v \in Threads \ {u} : ~StaleAnswer(v, k)'
      BY <1>5, <3>1
    <3> QED BY <3>1, <3>2, <3>3
  <2> QED BY <1>1, <1>2, <2>1, <2>2, <2>3 DEF AttemptOK
<1> QED BY <1>3, <1>4, <1>6

\* A step of the thread t.
LEMMA OneMoves ==
    ASSUME Inv, MoveInv, Calm, TwoThreads, NEW t \in Threads,
           \A v \in Threads : v # t => call'[v] = call[v] /\ rpc'[v] = rpc[v]
                                       /\ done'[v] = done[v] /\ missed'[v] = missed[v],
           UNCHANGED <<epoch, moves, faults>>, late' = {}, missed' \in [Threads -> BOOLEAN], CacheOK',
           \A u \in Threads : u # t /\ Active(u) /\ call[u].op = "merge" =>
              store'[call[u].key] = store[call[u].key],
           \A k \in Keys : StaleCache(k)' => StaleCache(k) \/ (StaleAnswer(t, k) /\ ~StaleAnswer(t, k)'),
           \A k \in Keys : StaleAnswer(t, k)' => StaleAnswer(t, k),
           Active(t)' => RegionOK(t)' /\ AttemptOK(t)' /\ ReplyOK(t)',
           call'[t].ret = "fail" => missed'[t] /\ ~Active(t)'
    PROVE  MoveInv'
<1>1. faults' \in Nat /\ moves' \in Nat /\ EpochOK'
  BY DEF MoveInv, EpochOK
<1>2. ASSUME NEW u \in Threads, u # t, Active(u) PROVE RegionOK(u)' /\ AttemptOK(u)' /\ ReplyOK(u)'
  <2>1. call[u].key \in Keys
    BY <1>2, CallAt
  <2>2. RegionOK(u) /\ AttemptOK(u) /\ ReplyOK(u)
    BY <1>2 DEF MoveInv
  <2>3. /\ done'[u] = done[u] /\ missed'[u] = missed[u]
        /\ \A v \in Threads : v # t => call'[v] = call[v] /\ rpc'[v] = rpc[v]
    BY <1>2
  <2>4. call[u].op = "merge" => store'[call[u].key] = store[call[u].key]
    BY <1>2
  <2>5. PICK k \in Keys : k = call[u].key
    BY <2>1
  <2>6. call'[u].key = k
    BY <2>3, <2>5, <1>2
  <2>7. /\ StaleCache(k)' => StaleCache(k) \/ (StaleAnswer(t, k) /\ ~StaleAnswer(t, k)')
        /\ StaleAnswer(t, k)' => StaleAnswer(t, k)
    BY <2>5
  <2>8. /\ StaleCache(call[u].key)' =>
              \/ StaleCache(call[u].key)
              \/ StaleAnswer(t, call[u].key) /\ ~StaleAnswer(t, call[u].key)'
        /\ StaleAnswer(t, call[u].key)' => StaleAnswer(t, call[u].key)
    BY <2>5, <2>6, <2>7 DEF StaleCache, StaleAnswer, Current
  <2> QED BY <1>2, <2>2, <2>3, <2>4, <2>8, OtherMoves
<1>3. \A u \in Threads : Active(u)' => RegionOK(u)' /\ AttemptOK(u)' /\ ReplyOK(u)'
  BY <1>2 DEF Active
<1>4. \A u \in Threads : call'[u].ret = "fail" => missed'[u] /\ ~Active(u)'
  BY DEF MoveInv, Active
<1> QED BY <1>1, <1>3, <1>4 DEF MoveInv


\* A thread that looks for the region, is refused or sends its request learns nothing old
\* but from the cache and from the answer it has.
LEMMA LookMoves ==
    ASSUME Inv, MoveInv, Calm, TwoThreads, NEW t \in Threads, NEW c \in CallT, NEW p \in RpcT, Active(t),
           call' = [call EXCEPT ![t] = c], rpc' = [rpc EXCEPT ![t] = p],
           UNCHANGED <<store, late, epoch, faults, moves, done, missed>>,
           c.pc # "idle", c.op = call[t].op, c.key = call[t].key, c.arg = call[t].arg,
           c.ret = call[t].ret, c.attempt = call[t].attempt,
           p.kind = rpc[t].kind, p.val = rpc[t].val, p.st \in {"none", "sent", "region"},
           CacheOK', RegionOK(t)',
           \A k \in Keys : StaleCache(k)' => StaleCache(k) \/ (StaleAnswer(t, k) /\ ~StaleAnswer(t, k)'),
           \A k \in Keys : StaleAnswer(t, k)' => StaleAnswer(t, k),
           StaleRequest(t)' =>
              StaleRequest(t) \/ StaleCache(call[t].key) \/ StaleAnswer(t, call[t].key)
    PROVE  MoveInv'
<1>1. /\ RegionOK(t) /\ AttemptOK(t) /\ ReplyOK(t) /\ call[t].ret # "fail" /\ late = {}
      /\ missed \in [Threads -> BOOLEAN]
  BY DEF MoveInv
<1>2. /\ call'[t] = c /\ rpc'[t] = p
      /\ \A v \in Threads : v # t => call'[v] = call[v] /\ rpc'[v] = rpc[v]
  BY DEF Inv, Types
<1>3. PICK k \in Keys : k = call[t].key
  BY CallAt
<1>4. ReplyOK(t)'
  BY <1>1, <1>2 DEF ReplyOK
<1>5. AttemptOK(t)'
  <2>1. StaleCache(k)' => StaleCache(k) \/ StaleAnswer(t, k)
    OBVIOUS
  <2>2. StaleAnswer(t, k)' => StaleAnswer(t, k)
    OBVIOUS
  <2>3. \A u \in Threads \ {t} : StaleAnswer(u, k)' <=> StaleAnswer(u, k)
    BY <1>2 DEF StaleAnswer, Current
  <2>4. StaleRequest(t)' => StaleRequest(t) \/ StaleCache(k) \/ StaleAnswer(t, k)
    BY <1>3
  <2>5. /\ call[t].attempt \in 0 .. 2
        /\ call[t].attempt # 0 => epoch[k] = 2 /\ ~StaleAnswer(t, k)
        /\ call[t].attempt = 1 /\ (StaleCache(k) \/ StaleRequest(t)) =>
              \A u \in Threads \ {t} : ~StaleAnswer(u, k)
        /\ call[t].attempt = 2 =>
              /\ ~StaleCache(k) /\ ~StaleRequest(t)
              /\ \A u \in Threads \ {t} : ~StaleAnswer(u, k)
    BY <1>1, <1>3 DEF AttemptOK
  <2>6. /\ call[t].attempt \in 0 .. 2
        /\ call[t].attempt # 0 => epoch[k] = 2 /\ ~StaleAnswer(t, k)'
        /\ call[t].attempt = 1 /\ (StaleCache(k)' \/ StaleRequest(t)') =>
              \A u \in Threads \ {t} : ~StaleAnswer(u, k)'
        /\ call[t].attempt = 2 =>
              /\ ~StaleCache(k)' /\ ~StaleRequest(t)'
              /\ \A u \in Threads \ {t} : ~StaleAnswer(u, k)'
    BY <2>1, <2>2, <2>3, <2>4, <2>5
  <2>7. call'[t].key = k /\ call'[t].attempt = call[t].attempt /\ epoch' = epoch
    BY <1>2, <1>3
  <2> QED BY <2>6, <2>7 DEF AttemptOK, StaleCache, StaleAnswer, Current
<1>6. call'[t].ret # "fail"
  BY <1>1, <1>2
<1> QED BY <1>1, <1>2, <1>4, <1>5, <1>6, OneMoves

\* The epochs and what can be cached, under Calm.
LEMMA EpochAt ==
    ASSUME Inv, MoveInv, Calm, NEW t \in Threads, Active(t)
    PROVE  /\ call[t].key \in Keys /\ epoch[call[t].key] \in {1, 2}
           /\ cache[call[t].key] \in {Unknown, Old, Current(call[t].key)}
           /\ RegionOK(t) /\ AttemptOK(t) /\ ReplyOK(t) /\ call[t].ret # "fail"
<1>1. call[t].key \in Keys
  BY CallAt
<1> QED BY <1>1 DEF MoveInv, EpochOK, CacheOK

\* The region is known, from the cache or from PD.
LEMMA FoundMoves ==
    ASSUME Inv, MoveInv, Calm, TwoThreads, NEW t \in Threads,
           call[t].pc \in {"stub", "ctx", "gotstub", "gotctx"},
           NEW region, region \in {Old, Current(call[t].key)}, Found(t, region),
           region # Current(call[t].key) => StaleCache(call[t].key) \/ StaleAnswer(t, call[t].key),
           UNCHANGED <<store, late, epoch, faults, moves, done, missed>>,
           CacheOK',
           \A k \in Keys : StaleCache(k)' => StaleCache(k) \/ StaleAnswer(t, k)
    PROVE  MoveInv'
<1>1. Active(t)
  BY DEF Active
<1>2. PICK e \in {1, 2} : e = epoch[call[t].key]
  BY <1>1, EpochAt
<1>3. PICK r \in {1, e} : region = [ctx |-> r, addr |-> r] /\ (r # e => StaleCache(call[t].key) \/ StaleAnswer(t, call[t].key))
  <2>1. CASE region = Old
    BY <1>2, <2>1 DEF Old, Current
  <2>2. CASE region = Current(call[t].key)
    BY <1>2, <2>2 DEF Current
  <2> QED BY <2>1, <2>2
<1>4. /\ call[t] \in CallT /\ rpc[t] \in RpcT /\ rpc[t].st = "none" /\ RegionOK(t)
      /\ call \in [Threads -> CallT] /\ rpc \in [Threads -> RpcT] /\ r \in Nat /\ r # 0
  BY <1>1, <1>2, EpochAt, CallAt DEF Inv, Types
<1>5. CASE call[t].pc \in {"stub", "gotstub"}
  <2> DEFINE c == [call[t] EXCEPT !.pc = "ctx"]
             p == [rpc[t] EXCEPT !.region = [ctx |-> NoRegion, addr |-> r], !.pd = Unknown]
  <2>1. GetStubForKey(t, [ctx |-> r, addr |-> r])
    BY <1>3, <1>5 DEF Found
  <2>2. call' = [call EXCEPT ![t] = c] /\ rpc' = [rpc EXCEPT ![t] = p]
    BY <2>1, <1>4 DEF GetStubForKey, NoRegion
  <2>3. /\ c \in CallT /\ c.pc = "ctx" /\ c.op = call[t].op /\ c.key = call[t].key /\ c.arg = call[t].arg
        /\ c.ret = call[t].ret /\ c.attempt = call[t].attempt
    BY <1>4 DEF CallT
  <2>4. [ctx |-> NoRegion, addr |-> r] \in RegionT
    BY <1>4 DEF NoRegion, RegionT
  <2>5. /\ p \in RpcT /\ p.kind = rpc[t].kind /\ p.val = rpc[t].val /\ p.st = "none"
        /\ p.region.addr = r
    BY <1>4, <2>4, ConstantTypes DEF RpcT
  <2> HIDE DEF c, p
  <2>6. call'[t] = c /\ rpc'[t] = p /\ epoch'[call'[t].key] = e
    BY <1>2, <1>4, <2>2, <2>3
  <2>7. StaleRequest(t)' => r # e
    BY <2>3, <2>5, <2>6 DEF StaleRequest
  <2>8. RegionOK(t)'
    BY <1>3, <2>3, <2>5, <2>6 DEF RegionOK, GotPcs
  <2>9. \A k \in Keys : ~StaleAnswer(t, k)'
    BY <2>3, <2>6 DEF StaleAnswer, GotPcs
  <2> QED BY <1>1, <1>3, <2>2, <2>3, <2>5, <2>7, <2>8, <2>9, LookMoves
<1>6. CASE call[t].pc \in {"ctx", "gotctx"}
  <2> DEFINE c == [call[t] EXCEPT !.pc = "wait"]
             p == [rpc[t] EXCEPT !.region.ctx = r, !.pd = Unknown, !.st = "sent"]
  <2>1. SetContext(t, [ctx |-> r, addr |-> r])
    BY <1>3, <1>6 DEF Found
  <2>2. call' = [call EXCEPT ![t] = c] /\ rpc' = [rpc EXCEPT ![t] = p]
    BY <2>1, <1>4 DEF SetContext
  <2>3. /\ c \in CallT /\ c.pc = "wait" /\ c.op = call[t].op /\ c.key = call[t].key /\ c.arg = call[t].arg
        /\ c.ret = call[t].ret /\ c.attempt = call[t].attempt
    BY <1>4 DEF CallT
  <2>5. /\ p \in RpcT /\ p.kind = rpc[t].kind /\ p.val = rpc[t].val /\ p.st = "sent"
        /\ p.region.addr = rpc[t].region.addr /\ p.region.ctx = r
    BY <1>4, ConstantTypes DEF RpcT, RegionT
  <2> HIDE DEF c, p
  <2>6. call'[t] = c /\ rpc'[t] = p /\ epoch'[call'[t].key] = e
    BY <1>2, <1>4, <2>2, <2>3
  <2>7. StaleRequest(t)' => r # e \/ StaleRequest(t)
    BY <1>2, <1>6, <2>3, <2>5, <2>6 DEF StaleRequest, StubPcs
  <2>8. RegionOK(t)'
    BY <1>2, <1>3, <1>4, <1>6, <2>3, <2>5, <2>6 DEF RegionOK, GotPcs, StubPcs
  <2>9. \A k \in Keys : ~StaleAnswer(t, k)'
    BY <2>3, <2>6 DEF StaleAnswer, GotPcs
  <2> QED BY <1>1, <1>3, <2>2, <2>3, <2>5, <2>7, <2>8, <2>9, LookMoves
<1> QED BY <1>5, <1>6

LEMMA RegionMoves ==
    ASSUME Inv, MoveInv, Calm, TwoThreads, NEW t \in Threads, faults' = faults,
           FindRegionForKey(t) \/ AskPD(t) \/ GetRegionFromPD(t) \/ CacheRegion(t)
    PROVE  MoveInv'
<1>1. Active(t)
  BY DEF FindRegionForKey, AskPD, GetRegionFromPD, CacheRegion, Active
<1>2. /\ call[t].key \in Keys /\ epoch[call[t].key] \in {1, 2} /\ RegionOK(t)
      /\ cache[call[t].key] \in {Unknown, Old, Current(call[t].key)} /\ CacheOK /\ faults \in Nat
  BY <1>1, EpochAt DEF MoveInv
<1>3. /\ call[t] \in CallT /\ rpc[t] \in RpcT /\ call \in [Threads -> CallT] /\ rpc \in [Threads -> RpcT]
      /\ cache \in [Keys -> RegionT] /\ (call[t].pc # "wait" => rpc[t].st = "none")
  BY <1>1, CallAt DEF Inv, Types
<1>4. CASE FindRegionForKey(t)
  <2>1. cache[call[t].key] \in {Old, Current(call[t].key)}
    BY <1>2, <1>4 DEF FindRegionForKey
  <2>2. cache[call[t].key] # Current(call[t].key) => StaleCache(call[t].key)
    BY <1>4 DEF FindRegionForKey, StaleCache
  <2>3. UNCHANGED <<store, late, epoch, cache, faults, moves, done, missed>>
    BY <1>4 DEF FindRegionForKey, server
  <2>4. CacheOK' /\ \A k \in Keys : StaleCache(k)' => StaleCache(k)
    BY <1>2, <2>3 DEF CacheOK, StaleCache, Current
  <2>5. call[t].pc \in {"stub", "ctx", "gotstub", "gotctx"} /\ Found(t, cache[call[t].key])
    BY <1>4 DEF FindRegionForKey
  <2> QED BY <2>1, <2>2, <2>3, <2>4, <2>5, FoundMoves
<1>5. CASE CacheRegion(t)
  <2>1. rpc[t].pd \in {Old, Current(call[t].key)}
    BY <1>2, <1>5 DEF CacheRegion, RegionOK, GotPcs
  <2>2. rpc[t].pd # Current(call[t].key) => StaleAnswer(t, call[t].key)
    BY <1>5 DEF CacheRegion, StaleAnswer, GotPcs
  <2>3. UNCHANGED <<store, late, epoch, faults, moves, done, missed>>
    BY <1>5 DEF CacheRegion, server
  <2>4. \A k \in Keys : cache'[k] = IF k = call[t].key THEN rpc[t].pd ELSE cache[k]
    BY <1>3, <1>5 DEF CacheRegion
  <2>5. CacheOK'
    BY <1>2, <2>1, <2>3, <2>4 DEF CacheOK, Current
  <2>6. \A k \in Keys : StaleCache(k)' => StaleCache(k) \/ StaleAnswer(t, k)
    BY <2>2, <2>3, <2>4 DEF StaleCache, Current
  <2>7. call[t].pc \in {"stub", "ctx", "gotstub", "gotctx"} /\ Found(t, rpc[t].pd)
    BY <1>5 DEF CacheRegion
  <2> QED BY <2>1, <2>2, <2>3, <2>5, <2>6, <2>7, FoundMoves
<1>6. CASE AskPD(t)
  <2> DEFINE c == [call[t] EXCEPT !.pc = IF @ = "stub" THEN "pdstub" ELSE "pdctx"]
  <2>1. /\ call' = [call EXCEPT ![t] = c] /\ call[t].pc \in {"stub", "ctx"}
        /\ UNCHANGED <<store, late, epoch, rpc, cache, faults, moves, done, missed>>
    BY <1>6 DEF AskPD, server
  <2>2. /\ c \in CallT /\ c.pc \in {"pdstub", "pdctx"} /\ c.op = call[t].op /\ c.key = call[t].key
        /\ c.arg = call[t].arg /\ c.ret = call[t].ret /\ c.attempt = call[t].attempt
        /\ (c.pc = "pdctx" => call[t].pc = "ctx")
    BY <1>3, <2>1 DEF CallT
  <2> HIDE DEF c
  <2>3. rpc' = [rpc EXCEPT ![t] = rpc[t]] /\ rpc[t].st = "none"
    BY <1>3, <2>1
  <2>4. call'[t] = c /\ rpc'[t] = rpc[t] /\ epoch'[call'[t].key] = epoch[call[t].key]
    BY <1>3, <2>1, <2>2
  <2>5. StaleRequest(t)' => StaleRequest(t)
    BY <2>2, <2>4 DEF StaleRequest, StubPcs
  <2>6. RegionOK(t)'
    BY <1>2, <2>2, <2>3, <2>4 DEF RegionOK, GotPcs, StubPcs
  <2>7. \A k \in Keys : ~StaleAnswer(t, k)'
    BY <2>2, <2>4 DEF StaleAnswer, GotPcs
  <2>8. CacheOK' /\ \A k \in Keys : StaleCache(k)' => StaleCache(k)
    BY <1>2, <2>1 DEF CacheOK, StaleCache, Current
  <2> QED BY <1>1, <1>3, <2>1, <2>2, <2>3, <2>5, <2>6, <2>7, <2>8, LookMoves
<1>7. CASE GetRegionFromPD(t)
  <2> DEFINE c == [call[t] EXCEPT !.pc = IF @ = "pdstub" THEN "gotstub" ELSE "gotctx"]
             p == [rpc[t] EXCEPT !.pd = Current(call[t].key)]
  <2>1. PICK a : /\ rpc' = [rpc EXCEPT ![t].pd = [ctx |-> epoch[call[t].key], addr |-> a]]
                 /\ a \in {epoch[call[t].key], NoRegion}
                 /\ faults' = IF a = NoRegion THEN faults + 1 ELSE faults
    BY <1>7 DEF GetRegionFromPD
  <2>2. a = epoch[call[t].key]
    BY <1>2, <2>1
  <2>3. /\ call' = [call EXCEPT ![t] = c] /\ rpc' = [rpc EXCEPT ![t] = p] /\ call[t].pc \in {"pdstub", "pdctx"}
        /\ UNCHANGED <<store, late, epoch, cache, faults, moves, done, missed>>
    BY <1>7, <2>1, <2>2 DEF GetRegionFromPD, server, Current
  <2>4. /\ c \in CallT /\ c.pc \in GotPcs /\ c.pc # "idle" /\ c.op = call[t].op /\ c.key = call[t].key
        /\ c.arg = call[t].arg /\ c.ret = call[t].ret /\ c.attempt = call[t].attempt
        /\ (c.pc = "gotctx" => call[t].pc = "pdctx")
    BY <1>3, <2>3 DEF CallT, GotPcs
  <2>5. Current(call[t].key) \in RegionT
    BY <1>2 DEF Current, RegionT
  <2>6. /\ p \in RpcT /\ p.kind = rpc[t].kind /\ p.val = rpc[t].val /\ p.st = "none"
        /\ p.region = rpc[t].region /\ p.pd = Current(call[t].key)
    BY <1>3, <2>3, <2>5 DEF RpcT
  <2> HIDE DEF c, p
  <2>7. /\ call'[t] = c /\ rpc'[t] = p /\ epoch'[call'[t].key] = epoch[call[t].key]
        /\ Current(call[t].key)' = Current(call[t].key)
    BY <1>3, <2>3, <2>4 DEF Current
  <2>8. StaleRequest(t)' => StaleRequest(t)
    BY <2>3, <2>4, <2>6, <2>7 DEF StaleRequest, StubPcs, GotPcs
  <2>9. RegionOK(t)'
    BY <1>2, <2>3, <2>4, <2>6, <2>7 DEF RegionOK, GotPcs, StubPcs
  <2>10. \A k \in Keys : ~StaleAnswer(t, k)'
    BY <2>3, <2>4, <2>6, <2>7 DEF StaleAnswer, Current
  <2>11. CacheOK' /\ \A k \in Keys : StaleCache(k)' => StaleCache(k)
    BY <1>2, <2>3 DEF CacheOK, StaleCache, Current
  <2> QED BY <1>1, <2>3, <2>4, <2>6, <2>8, <2>9, <2>10, <2>11, LookMoves
<1> QED BY <1>4, <1>5, <1>6, <1>7

\* TiKV refuses a request only for what is old in it.
LEMMA RefuseMoves ==
    ASSUME Inv, MoveInv, Calm, TwoThreads, NEW t \in Threads, Refuse(t)
    PROVE  MoveInv'
<1>1. Active(t) /\ call[t].pc = "wait"
  BY CallAt DEF Refuse
<1>2. /\ call[t].key \in Keys /\ epoch[call[t].key] \in {1, 2} /\ RegionOK(t)
      /\ cache[call[t].key] \in {Unknown, Old, Current(call[t].key)} /\ CacheOK
  BY <1>1, EpochAt DEF MoveInv
<1>3. call[t] \in CallT /\ rpc[t] \in RpcT /\ call \in [Threads -> CallT] /\ rpc \in [Threads -> RpcT]
  BY <1>1, CallAt DEF Inv, Types
<1> DEFINE p == [rpc[t] EXCEPT !.st = "region"]
<1>4. /\ rpc' = [rpc EXCEPT ![t] = p] /\ rpc[t].region # Current(call[t].key)
      /\ UNCHANGED <<store, late, call, epoch, cache, faults, moves, done, missed>>
  BY DEF Refuse, server, Calm, Accepted, Current
<1>5. /\ p \in RpcT /\ p.kind = rpc[t].kind /\ p.val = rpc[t].val /\ p.st = "region"
      /\ p.region = rpc[t].region /\ p.pd = rpc[t].pd
  BY <1>3 DEF RpcT
<1> HIDE DEF p
<1>6. call' = [call EXCEPT ![t] = call[t]]
  BY <1>3, <1>4
<1>7. call'[t] = call[t] /\ rpc'[t] = p /\ epoch'[call'[t].key] = epoch[call[t].key]
  BY <1>3, <1>4
<1>8. rpc[t].region = [ctx |-> rpc[t].region.ctx, addr |-> rpc[t].region.addr]
  BY <1>3 DEF RpcT, RegionT
<1>9. StaleRequest(t)
  BY <1>1, <1>4, <1>8 DEF StaleRequest, StubPcs, Current
<1>10. StaleRequest(t)'
  BY <1>5, <1>7, <1>9 DEF StaleRequest
<1>11. RegionOK(t)'
  BY <1>1, <1>2, <1>5, <1>7, <1>10 DEF RegionOK, GotPcs, StubPcs
<1>12. \A k \in Keys : ~StaleAnswer(t, k)'
  BY <1>1, <1>7 DEF StaleAnswer, GotPcs
<1>13. CacheOK' /\ \A k \in Keys : StaleCache(k)' => StaleCache(k)
  BY <1>2, <1>4 DEF CacheOK, StaleCache, Current
<1> QED BY <1>1, <1>3, <1>4, <1>5, <1>6, <1>9, <1>11, <1>12, <1>13, LookMoves

\* A refused request was old, the cache is cleared for the next attempt, and there is one.
LEMMA RetryMoves ==
    ASSUME Inv, MoveInv, Calm, TwoThreads, NEW t \in Threads, TiKVRetry(t), UNCHANGED <<faults, moves>>
    PROVE  MoveInv'
<1>1. Active(t) /\ call[t].pc = "wait"
  BY DEF TiKVRetry, Active
<1>2. PICK k \in Keys : k = call[t].key
  BY <1>1, EpochAt
<1>3. /\ epoch[k] \in {1, 2} /\ RegionOK(t) /\ AttemptOK(t) /\ ReplyOK(t) /\ call[t].ret # "fail"
      /\ CacheOK /\ late = {} /\ missed \in [Threads -> BOOLEAN]
  BY <1>1, <1>2, EpochAt DEF MoveInv
<1>4. /\ call[t] \in CallT /\ rpc[t] \in RpcT /\ call \in [Threads -> CallT] /\ rpc \in [Threads -> RpcT]
      /\ cache \in [Keys -> RegionT]
  BY <1>1, CallAt DEF Inv, Types
<1>5. StaleRequest(t)
  BY <1>3 DEF TiKVRetry, ReplyOK, RegionOK
<1>6. epoch[k] = 2
  BY <1>1, <1>2, <1>3, <1>5 DEF StaleRequest, RegionOK, StubPcs
<1>7. call[t].attempt \in {0, 1} /\ (call[t].attempt = 1 => \A u \in Threads \ {t} : ~StaleAnswer(u, k))
  BY <1>2, <1>3, <1>5 DEF AttemptOK
<1> DEFINE c == [call[t] EXCEPT !.pc = "stub", !.attempt = @ + 1]
           p == [NoRpc EXCEPT !.kind = rpc[t].kind, !.val = rpc[t].val]
<1>8. call[t].attempt + 1 < Attempts
  BY <1>7 DEF Attempts
<1>9. /\ call' = [call EXCEPT ![t] = c] /\ rpc' = [rpc EXCEPT ![t] = p]
      /\ cache' = [cache EXCEPT ![k] = Unknown]
      /\ UNCHANGED <<store, late, epoch, done, missed>>
  BY <1>2, <1>8 DEF TiKVRetry, NextAttempt
<1>10. /\ c.pc = "stub" /\ c.op = call[t].op /\ c.key = k /\ c.arg = call[t].arg
       /\ c.ret = call[t].ret /\ c.attempt = call[t].attempt + 1
  BY <1>2, <1>4 DEF CallT
<1>11. p.kind = rpc[t].kind /\ p.val = rpc[t].val /\ p.st = "none"
  BY DEF NoRpc
<1> HIDE DEF c, p
<1>12. /\ call'[t] = c /\ rpc'[t] = p
       /\ \A v \in Threads : v # t => call'[v] = call[v] /\ rpc'[v] = rpc[v]
       /\ \A x \in Keys : cache'[x] = IF x = k THEN Unknown ELSE cache[x]
  BY <1>4, <1>9
<1>13. CacheOK' /\ ~StaleCache(k)' /\ \A x \in Keys : StaleCache(x)' => StaleCache(x)
  BY <1>3, <1>9, <1>12 DEF CacheOK, StaleCache, Current
<1>14. (\A x \in Keys : ~StaleAnswer(t, x)') /\ ~StaleRequest(t)'
  BY <1>10, <1>12 DEF StaleAnswer, StaleRequest, GotPcs, StubPcs
<1>15. RegionOK(t)'
  BY <1>10, <1>11, <1>12 DEF RegionOK, GotPcs, StubPcs
<1>16. ReplyOK(t)'
  BY <1>2, <1>3, <1>9, <1>10, <1>11, <1>12 DEF ReplyOK
<1>17. AttemptOK(t)'
  <2>1. \A u \in Threads \ {t} : StaleAnswer(u, k)' <=> StaleAnswer(u, k)
    BY <1>9, <1>12 DEF StaleAnswer, Current
  <2>2. /\ c.attempt \in {1, 2} /\ epoch'[k] = 2 /\ ~StaleAnswer(t, k)' /\ ~StaleCache(k)' /\ ~StaleRequest(t)'
        /\ c.attempt = 2 => \A u \in Threads \ {t} : ~StaleAnswer(u, k)'
    BY <1>6, <1>7, <1>9, <1>10, <1>13, <1>14, <2>1
  <2>3. call'[t].key = k /\ call'[t].attempt = c.attempt
    BY <1>10, <1>12
  <2> QED BY <2>2, <2>3 DEF AttemptOK, StaleCache, StaleAnswer, Current
<1>18. call'[t].ret # "fail"
  BY <1>3, <1>10, <1>12
<1> QED BY <1>3, <1>9, <1>12, <1>13, <1>14, <1>15, <1>16, <1>17, <1>18, OneMoves

\* The call returns, and only a Get without a record has failed.
LEMMA ReturnMoves ==
    ASSUME Inv, MoveInv, Calm, TwoThreads, NEW t \in Threads, NEW r, Return(t, r),
           UNCHANGED <<store, epoch, cache, faults, moves, missed>>, r = "fail" => missed[t]
    PROVE  MoveInv'
<1>1. call \in [Threads -> CallT] /\ rpc \in [Threads -> RpcT] /\ done \in [Threads -> DoneT]
  BY DEF Inv, Types
<1>2. CacheOK /\ late = {} /\ missed \in [Threads -> BOOLEAN]
  BY DEF MoveInv
<1> DEFINE c == [NoCall EXCEPT !.ret = r, !.res = IF r = "ok" /\ call[t].op = "get" THEN rpc[t].val ELSE <<>>]
<1>3. c.pc = "idle" /\ c.ret = r
  BY DEF NoCall
<1>4. call' = [call EXCEPT ![t] = c] /\ rpc' = [rpc EXCEPT ![t] = NoRpc] /\ done' = [done EXCEPT ![t] = NotDone]
  BY DEF Return
<1> HIDE DEF c
<1>5. /\ call'[t] = c
      /\ \A v \in Threads : v # t => call'[v] = call[v] /\ rpc'[v] = rpc[v]
                                     /\ done'[v] = done[v] /\ missed'[v] = missed[v]
  BY <1>1, <1>4
<1>6. late' = {}
  BY <1>2 DEF Return, LeftBehind
<1>7. CacheOK' /\ \A x \in Keys : StaleCache(x)' => StaleCache(x)
  BY <1>2 DEF CacheOK, StaleCache, Current
<1>8. ~Active(t)' /\ \A x \in Keys : ~StaleAnswer(t, x)'
  BY <1>3, <1>5 DEF Active, StaleAnswer, GotPcs
<1>9. call'[t].ret = "fail" => missed'[t] /\ ~Active(t)'
  BY <1>3, <1>5, <1>8
<1> QED BY <1>2, <1>5, <1>6, <1>7, <1>8, <1>9, OneMoves

LEMMA AnsweredMoves ==
    ASSUME Inv, MoveInv, Calm, TwoThreads, NEW t \in Threads,
           TiKVAnswered(t) \/ TiKVDeleteUnanswered(t)
    PROVE  MoveInv'
<1>1. Active(t) /\ call[t].pc = "wait" /\ storage = "TIKVIO"
  BY DEF TiKVAnswered, TiKVDeleteUnanswered, Active
<1>2. UNCHANGED <<store, epoch, cache, faults, moves, missed>>
  BY DEF TiKVAnswered, TiKVDeleteUnanswered
<1>3. /\ RegionOK(t) /\ AttemptOK(t) /\ ReplyOK(t) /\ call[t].ret # "fail" /\ CacheOK /\ late = {}
      /\ missed \in [Threads -> BOOLEAN]
  BY <1>1, EpochAt DEF MoveInv
<1>4. /\ call \in [Threads -> CallT] /\ rpc \in [Threads -> RpcT]
      /\ call[t] \in CallT /\ rpc[t] \in RpcT /\ call[t].key \in Keys
      /\ KindOK(TRUE, call[t], rpc[t])
      /\ WriteOK(TRUE, call[t], rpc[t], done[t], store[call[t].key])
  BY <1>1, CallAt DEF Inv, Types
<1>5. PICK r \in {"ok", "fail"} : Finish(t, r) /\ (r = "fail" => rpc[t].st = "absent") /\ (rpc[t].st = "absent" => r = "fail")
                                  /\ (r = "ok" => rpc[t].st = "ok" \/ rpc[t].kind = "delete")
  BY <1>3 DEF TiKVAnswered, TiKVDeleteUnanswered, ReplyOK
<1>6. CASE call[t].op = "merge" /\ rpc[t].kind = "get"
  <2> DEFINE c == [call[t] EXCEPT !.pc = "stub", !.attempt = 0]
             v == IF r = "ok" THEN Append(rpc[t].val, call[t].arg) ELSE <<call[t].arg>>
             p == [NoRpc EXCEPT !.kind = "put", !.val = v]
  <2>1. call' = [call EXCEPT ![t] = c] /\ rpc' = [rpc EXCEPT ![t] = p] /\ UNCHANGED <<late, done>>
    BY <1>5, <1>6 DEF Finish
  <2>2. v = Append(store[call[t].key], call[t].arg)
    <3>1. CASE r = "ok"
      BY <1>4, <1>5, <1>6, <3>1 DEF WriteOK
    <3>2. CASE r = "fail"
      <4>1. store[call[t].key] = <<>>
        BY <1>3, <1>5, <1>6, <3>2 DEF ReplyOK
      <4> QED BY <3>2, <4>1
    <3> QED BY <3>1, <3>2
  <2>3. /\ c.pc = "stub" /\ c.op = call[t].op /\ c.key = call[t].key /\ c.arg = call[t].arg
        /\ c.ret = call[t].ret /\ c.attempt = 0
    BY <1>4 DEF CallT
  <2>4. p.kind = "put" /\ p.val = v /\ p.st = "none"
    BY DEF NoRpc
  <2> HIDE DEF c, p, v
  <2>5. /\ call'[t] = c /\ rpc'[t] = p
        /\ \A u \in Threads : u # t => call'[u] = call[u] /\ rpc'[u] = rpc[u]
    BY <1>4, <2>1
  <2>6. (\A x \in Keys : ~StaleAnswer(t, x)') /\ ~StaleRequest(t)'
    BY <2>3, <2>5 DEF StaleAnswer, StaleRequest, GotPcs, StubPcs
  <2>7. RegionOK(t)'
    BY <2>3, <2>4, <2>5 DEF RegionOK, GotPcs, StubPcs
  <2>8. ReplyOK(t)'
    BY <1>2, <2>2, <2>3, <2>4, <2>5 DEF ReplyOK
  <2>9. AttemptOK(t)'
    BY <2>3, <2>5 DEF AttemptOK
  <2>10. CacheOK' /\ \A x \in Keys : StaleCache(x)' => StaleCache(x)
    BY <1>2, <1>3 DEF CacheOK, StaleCache, Current
  <2>11. call'[t].ret # "fail" /\ late' = {}
    BY <1>3, <2>1, <2>3, <2>5
  <2> QED BY <1>2, <1>3, <2>1, <2>5, <2>6, <2>7, <2>8, <2>9, <2>10, <2>11, OneMoves
<1>7. CASE ~(call[t].op = "merge" /\ rpc[t].kind = "get")
  <2>1. Return(t, r)
    BY <1>5, <1>7 DEF Finish
  <2>2. r = "fail" => missed[t]
    <3>1. rpc[t].kind = "get" => call[t].op = "get"
      BY <1>4, <1>7 DEF KindOK, CallT, Ops
    <3> QED BY <1>3, <1>5, <3>1 DEF ReplyOK
  <2> QED BY <1>2, <2>1, <2>2, ReturnMoves
<1> QED BY <1>6, <1>7

\* Only a Get can miss a record, and a merge that has read still finds what it has read.
LEMMA ServeMoves ==
    ASSUME Inv, MoveInv, Calm, TwoThreads, NEW t \in Threads, Serve(t)
    PROVE  MoveInv'
<1>1. Active(t) /\ call[t].pc = "wait" /\ storage = "TIKVIO"
  BY CallAt DEF Serve, Calm
<1>2. PICK k \in Keys : k = call[t].key
  BY <1>1, EpochAt
<1>3. /\ RegionOK(t) /\ AttemptOK(t) /\ ReplyOK(t) /\ call[t].ret # "fail" /\ CacheOK /\ late = {}
      /\ missed \in [Threads -> BOOLEAN]
  BY <1>1, EpochAt DEF MoveInv
<1>4. /\ call \in [Threads -> CallT] /\ rpc \in [Threads -> RpcT] /\ done \in [Threads -> DoneT]
      /\ store \in [Keys -> Value]
      /\ call[t] \in CallT /\ rpc[t] \in RpcT /\ KindOK(TRUE, call[t], rpc[t])
  BY <1>1, CallAt DEF Inv, Types
<1> DEFINE x == Executed(rpc[t].kind, store[k], rpc[t].val)
           own == rpc[t].kind # "get" \/ call[t].op = "get"
           p == [rpc[t] EXCEPT !.st = x.st, !.val = IF rpc[t].kind = "get" THEN x.store ELSE @]
           d == [did |-> TRUE, res |-> IF rpc[t].kind = "get" THEN x.store ELSE <<>>]
<1>5. rpc[t].kind \in {"get", "put", "delete"} /\ (call[t].op = "get" => rpc[t].kind = "get")
  BY <1>4 DEF KindOK, CallT, Ops
<1>6. /\ x.st \in {"ok", "absent"} /\ (x.st = "absent" => rpc[t].kind = "get" /\ x.store = <<>>)
      /\ (rpc[t].kind = "get" => x.store = store[k])
  <2>1. CASE rpc[t].kind = "get"
    BY <2>1, ExecutedIs
  <2>2. CASE rpc[t].kind = "put"
    BY <2>2, ExecutedIs
  <2>3. CASE rpc[t].kind = "delete"
    BY <1>1, <2>3, ExecutedIs
  <2> QED BY <1>5, <2>1, <2>2, <2>3
<1>7. /\ store' = [store EXCEPT ![k] = x.store]
      /\ rpc' = [rpc EXCEPT ![t] = p]
      /\ done' = IF own /\ x.st = "ok" THEN [done EXCEPT ![t] = d] ELSE done
      /\ missed' = [missed EXCEPT ![t] = @ \/ (x.st = "absent" /\ call[t].op = "get")]
      /\ UNCHANGED <<call, late, epoch, cache, faults, moves>>
  BY <1>2 DEF Serve
<1>8. /\ p.kind = rpc[t].kind /\ p.st = x.st /\ p.region = rpc[t].region /\ p.pd = rpc[t].pd /\ d.did
      /\ rpc[t].kind # "get" => p.val = rpc[t].val
  BY <1>4 DEF RpcT
<1> HIDE DEF x, p, d
<1>9. /\ rpc'[t] = p /\ call'[t] = call[t]
      /\ \A v \in Threads : v # t => call'[v] = call[v] /\ rpc'[v] = rpc[v]
                                     /\ done'[v] = done[v] /\ missed'[v] = missed[v]
      /\ \A j \in Keys : store'[j] = IF j = k THEN x.store ELSE store[j]
      /\ own /\ x.st = "ok" => done'[t] = d
  BY <1>3, <1>4, <1>7
<1>10. missed' \in [Threads -> BOOLEAN] /\ (x.st = "absent" /\ call[t].op = "get" => missed'[t])
  BY <1>3, <1>7
<1>11. ASSUME NEW u \in Threads, u # t, Active(u), call[u].op = "merge"
       PROVE  store'[call[u].key] = store[call[u].key]
  <2>1. PICK j \in Keys : j = call[u].key
    BY <1>11, CallAt
  <2>2. CASE call[t].op = "get"
    BY <1>5, <1>6, <1>9, <2>1, <2>2
  <2>3. CASE call[t].op # "get"
    <3>1. j # k
      BY <1>1, <1>2, <1>11, <2>1, <2>3 DEF Inv, OneWriter
    <3> QED BY <1>9, <2>1, <3>1
  <2> QED BY <2>2, <2>3
<1>12. \A j \in Keys : ~StaleAnswer(t, j)'
  BY <1>1, <1>9 DEF StaleAnswer, GotPcs
<1>13. CacheOK' /\ \A j \in Keys : StaleCache(j)' <=> StaleCache(j)
  BY <1>3, <1>7 DEF CacheOK, StaleCache, Current
<1>14. StaleRequest(t)' <=> StaleRequest(t)
  BY <1>7, <1>8, <1>9 DEF StaleRequest
<1>15. RegionOK(t)'
  BY <1>1, <1>3, <1>6, <1>7, <1>8, <1>9 DEF RegionOK, GotPcs
<1>16. ReplyOK(t)'
  <2>1. /\ x.st \notin {"error", "broken"} /\ (x.st = "absent" => p.kind = "get")
        /\ x.st = "absent" /\ call[t].op = "get" => missed'[t]
    BY <1>6, <1>8, <1>10
  <2>2. x.st = "absent" => store'[k] = <<>>
    BY <1>6, <1>9
  <2>3. p.kind = "put" => done'[t].did
    <3>1. p.kind = "put" => own /\ x.st = "ok"
      BY <1>6, <1>8
    <3> QED BY <1>8, <1>9, <3>1
  <2> QED BY <1>2, <1>8, <1>9, <2>1, <2>2, <2>3 DEF ReplyOK
<1>17. AttemptOK(t)'
  <2>1. \A u \in Threads \ {t} : StaleAnswer(u, k)' <=> StaleAnswer(u, k)
    BY <1>7, <1>9 DEF StaleAnswer, Current
  <2>2. (StaleCache(k)' <=> StaleCache(k)) /\ ~StaleAnswer(t, k)'
    BY <1>12, <1>13
  <2>3. /\ call[t].attempt \in 0 .. 2
        /\ call[t].attempt # 0 => epoch[k] = 2
        /\ call[t].attempt = 1 /\ (StaleCache(k) \/ StaleRequest(t)) =>
              \A u \in Threads \ {t} : ~StaleAnswer(u, k)
        /\ call[t].attempt = 2 =>
              /\ ~StaleCache(k) /\ ~StaleRequest(t)
              /\ \A u \in Threads \ {t} : ~StaleAnswer(u, k)
    BY <1>2, <1>3 DEF AttemptOK
  <2>4. /\ call[t].attempt # 0 => epoch[k] = 2 /\ ~StaleAnswer(t, k)'
        /\ call[t].attempt = 1 /\ (StaleCache(k)' \/ StaleRequest(t)') =>
              \A u \in Threads \ {t} : ~StaleAnswer(u, k)'
        /\ call[t].attempt = 2 =>
              /\ ~StaleCache(k)' /\ ~StaleRequest(t)'
              /\ \A u \in Threads \ {t} : ~StaleAnswer(u, k)'
    BY <1>14, <2>1, <2>2, <2>3
  <2>5. call'[t].key = k /\ call'[t].attempt = call[t].attempt /\ epoch' = epoch
    BY <1>2, <1>7, <1>9
  <2> QED BY <2>3, <2>4, <2>5 DEF AttemptOK, StaleCache, StaleAnswer, Current
<1>18. call'[t].ret # "fail" /\ late' = {}
  BY <1>3, <1>7, <1>9
<1> QED BY <1>7, <1>9, <1>10, <1>11, <1>12, <1>13, <1>15, <1>16, <1>17, <1>18, OneMoves

\* A new call knows nothing yet.
LEMMA CallMoves ==
    ASSUME Inv, MoveInv, Calm, TwoThreads, NEW t \in Threads, NEW op \in Ops, NEW k \in Keys, NEW e \in Entries,
           Call(t, op, k, e)
    PROVE  MoveInv'
<1>1. CacheOK /\ late = {} /\ missed \in [Threads -> BOOLEAN] /\ storage = "TIKVIO"
  BY DEF MoveInv, Calm
<1>2. call \in [Threads -> CallT] /\ rpc \in [Threads -> RpcT] /\ done \in [Threads -> DoneT]
  BY DEF Inv, Types
<1> DEFINE c == [NoCall EXCEPT !.op = op, !.key = k, !.arg = e, !.pc = "stub"]
           p == [NoRpc EXCEPT !.kind = FirstKind(op), !.val = IF op \in {"put", "merge"} THEN <<e>> ELSE <<>>]
<1>3. /\ call' = [call EXCEPT ![t] = c] /\ rpc' = [rpc EXCEPT ![t] = p]
      /\ done' = [done EXCEPT ![t] = NotDone] /\ missed' = [missed EXCEPT ![t] = FALSE]
      /\ UNCHANGED <<store, late, epoch, cache, faults, moves>>
  BY <1>1 DEF Call, FirstStep, server
<1>4. c.pc = "stub" /\ c.op = op /\ c.attempt = 0 /\ c.ret = "none"
  BY DEF NoCall
<1>5. p.st = "none" /\ p.kind = FirstKind(op)
  BY DEF NoRpc
<1>6. op = "merge" => FirstKind(op) = "get"
  BY <1>1 DEF FirstKind
<1> HIDE DEF c, p
<1>7. /\ call'[t] = c /\ rpc'[t] = p
      /\ \A v \in Threads : v # t => call'[v] = call[v] /\ rpc'[v] = rpc[v]
                                     /\ done'[v] = done[v] /\ missed'[v] = missed[v]
      /\ missed' \in [Threads -> BOOLEAN] /\ late' = {}
  BY <1>1, <1>2, <1>3
<1>8. \A x \in Keys : ~StaleAnswer(t, x)'
  BY <1>4, <1>7 DEF StaleAnswer, GotPcs
<1>9. CacheOK' /\ \A x \in Keys : StaleCache(x)' => StaleCache(x)
  BY <1>1, <1>3 DEF CacheOK, StaleCache, Current
<1>10. RegionOK(t)' /\ AttemptOK(t)'
  BY <1>4, <1>5, <1>7 DEF RegionOK, AttemptOK, GotPcs, StubPcs
<1>11. ReplyOK(t)'
  BY <1>4, <1>5, <1>6, <1>7 DEF ReplyOK
<1>12. call'[t].ret # "fail"
  BY <1>4, <1>7
<1> QED BY <1>3, <1>7, <1>8, <1>9, <1>10, <1>11, <1>12, OneMoves

\* Before the first move nothing is old and no attempt has failed.
LEMMA FirstMove ==
    ASSUME Inv, MoveInv, Calm, NEW k \in Keys, Move(k), moves' <= 1
    PROVE  MoveInv'
<1>1. moves = 0 /\ moves' = 1 /\ UNCHANGED <<store, call, rpc, late, cache, faults, done, missed>>
  BY DEF Move, MoveInv
<1>2. epoch \in [Keys -> Nat] /\ \A j \in Keys : epoch[j] = 1
  BY <1>1 DEF MoveInv, EpochOK, Inv, Types
<1>3. \A j \in Keys : epoch'[j] = IF j = k THEN 2 ELSE 1
  BY <1>2 DEF Move
<1>4. EpochOK'
  BY <1>1, <1>3 DEF EpochOK
<1>5. CacheOK'
  <2>1. \A j \in Keys : Current(j) = Old
    BY <1>2 DEF Current, Old
  <2>2. \A j \in Keys : cache[j] \in {Unknown, Old}
    BY <2>1 DEF MoveInv, CacheOK
  <2> QED BY <1>1, <2>2 DEF CacheOK, Old
<1>6. ASSUME NEW t \in Threads, Active(t) PROVE RegionOK(t)' /\ AttemptOK(t)' /\ ReplyOK(t)'
  <2>1. PICK j \in Keys : j = call[t].key
    BY <1>6, EpochAt
  <2>2. RegionOK(t) /\ AttemptOK(t) /\ ReplyOK(t) /\ epoch[j] = 1 /\ epoch'[j] \in {1, 2}
    BY <1>2, <1>3, <1>6, EpochAt
  <2>3. ~StaleRequest(t) /\ rpc[t].st # "region"
    BY <2>1, <2>2 DEF RegionOK, StaleRequest
  <2>4. call[t].pc \in GotPcs => rpc[t].pd = Old
    BY <2>1, <2>2 DEF RegionOK, Current, Old
  <2>5. RegionOK(t)'
    BY <1>1, <2>1, <2>2, <2>3, <2>4 DEF RegionOK, Old
  <2>6. call[t].attempt = 0
    BY <2>1, <2>2 DEF AttemptOK
  <2>7. AttemptOK(t)'
    BY <1>1, <2>6 DEF AttemptOK
  <2>8. ReplyOK(t)'
    BY <1>1, <2>2 DEF ReplyOK
  <2> QED BY <2>5, <2>7, <2>8
<1>7. /\ late' = {} /\ missed' \in [Threads -> BOOLEAN] /\ faults' \in Nat /\ moves' \in Nat
      /\ \A t \in Threads : call'[t].ret = "fail" => missed'[t] /\ ~Active(t)'
  BY <1>1 DEF MoveInv, Active
<1>8. \A t \in Threads : Active(t)' => RegionOK(t)' /\ AttemptOK(t)' /\ ReplyOK(t)'
  BY <1>1, <1>6 DEF Active
<1> QED BY <1>4, <1>5, <1>7, <1>8 DEF MoveInv

\* Faults and moves are counted, so that a calm state comes from a calm one.
LEMMA CalmBefore ==
    ASSUME faults \in Nat, moves \in Nat, [Next]_vars
    PROVE  faults' \in Nat /\ moves' \in Nat /\ (Calm' => Calm /\ faults' = faults /\ moves' >= moves)
<1> SUFFICES /\ storage' = storage
             /\ faults' = faults \/ faults' = faults + 1
             /\ moves' = moves \/ moves' = moves + 1
  BY DEF Calm
<1>1. CASE Invoke
  BY <1>1 DEF Invoke, Call
<1>2. CASE \E t \in Threads : TiKVStep(t)
  <2> SUFFICES ASSUME NEW t \in Threads, TiKVStep(t)
               PROVE  /\ storage' = storage /\ (faults' = faults \/ faults' = faults + 1)
                      /\ moves' = moves
    BY <1>2
  <2>1. CASE FindRegionForKey(t) \/ AskPD(t) \/ CacheRegion(t)
    BY <2>1 DEF FindRegionForKey, AskPD, CacheRegion
  <2>2. CASE GetRegionFromPD(t)
    BY <2>2 DEF GetRegionFromPD
  <2>3. CASE PDFails(t) \/ NoStub(t)
    BY <2>3 DEF PDFails, NoStub
  <2>4. CASE TiKVAnswered(t) \/ TiKVDeleteUnanswered(t) \/ TiKVRetry(t)
    BY <2>4 DEF TiKVAnswered, TiKVDeleteUnanswered, TiKVRetry
  <2> QED BY <2>1, <2>2, <2>3, <2>4 DEF TiKVStep
<1>3. CASE \E t \in Threads : AerospikeStep(t)
  BY <1>3 DEF AerospikeStep, AerospikeStart, NotConnected, MergeFallback, AerospikeAnswered
<1>4. CASE Network
  <2>1. CASE \E t \in Threads : Serve(t) \/ Refuse(t) \/ ServerError(t) \/ Break(t)
    BY <2>1 DEF Serve, Refuse, ServerError, Break
  <2>2. CASE \E r \in late : ServeLate(r)
    BY <2>2 DEF ServeLate
  <2>3. CASE \E k \in Keys : Move(k)
    BY <2>3 DEF Move
  <2> QED BY <1>4, <2>1, <2>2, <2>3 DEF Network
<1>5. CASE UNCHANGED vars
  BY <1>5 DEF vars
<1> QED BY <1>1, <1>2, <1>3, <1>4, <1>5 DEF Next

LEMMA InitMoves == Init => MoveInv
<1> SUFFICES ASSUME Init PROVE MoveInv
  OBVIOUS
<1>1. EpochOK /\ CacheOK /\ late = {} /\ missed \in [Threads -> BOOLEAN] /\ faults \in Nat /\ moves \in Nat
  BY DEF Init, EpochOK, CacheOK
<1>2. \A t \in Threads : ~Active(t) /\ call[t].ret # "fail"
  BY DEF Init, NoCall, Active
<1> QED BY <1>1, <1>2 DEF MoveInv

LEMMA NextMoves ==
    ASSUME MoveInv, Calm => Inv, TwoThreads, [Next]_vars
    PROVE  MoveInv'
<1>1. /\ faults \in Nat /\ moves \in Nat /\ faults' \in Nat /\ moves' \in Nat
      /\ Calm' => Calm /\ faults' = faults /\ moves' >= moves
  BY CalmBefore DEF MoveInv
<1>2. CASE ~Calm'
  BY <1>1, <1>2 DEF MoveInv
<1>3. CASE Calm'
  <2>1. Calm /\ faults' = faults /\ moves' <= 1 /\ storage = "TIKVIO" /\ Inv
    BY <1>1, <1>3 DEF Calm
  <2>2. CASE Invoke
    BY <2>1, <2>2, CallMoves DEF Invoke
  <2>3. ASSUME NEW t \in Threads, TiKVStep(t) PROVE MoveInv'
    <3>1. CASE FindRegionForKey(t) \/ AskPD(t) \/ GetRegionFromPD(t) \/ CacheRegion(t)
      BY <2>1, <3>1, RegionMoves
    <3>2. CASE PDFails(t) \/ NoStub(t)
      BY <1>1, <2>1, <3>2 DEF PDFails, NoStub
    <3>3. CASE TiKVAnswered(t) \/ TiKVDeleteUnanswered(t)
      BY <2>1, <3>3, AnsweredMoves
    <3>4. CASE TiKVRetry(t)
      <4>1. UNCHANGED <<faults, moves>>
        BY <3>4 DEF TiKVRetry
      <4> QED BY <2>1, <3>4, <4>1, RetryMoves
    <3> QED BY <2>3, <3>1, <3>2, <3>3, <3>4 DEF TiKVStep
  <2>4. ASSUME NEW t \in Threads, AerospikeStep(t) PROVE FALSE
    BY <2>1, <2>4 DEF AerospikeStep, AerospikeStart, NotConnected, MergeFallback, AerospikeAnswered
  <2>5. CASE Network
    <3>1. CASE \E t \in Threads : Serve(t)
      BY <2>1, <3>1, ServeMoves
    <3>2. CASE \E t \in Threads : Refuse(t)
      BY <2>1, <3>2, RefuseMoves
    <3>3. CASE \E t \in Threads : ServerError(t) \/ Break(t)
      BY <1>1, <2>1, <3>3 DEF ServerError, Break
    <3>4. CASE \E r \in late : ServeLate(r)
      BY <2>1, <3>4 DEF MoveInv
    <3>5. CASE \E k \in Keys : Move(k)
      BY <2>1, <3>5, FirstMove
    <3> QED BY <2>5, <3>1, <3>2, <3>3, <3>4, <3>5 DEF Network
  <2>6. CASE UNCHANGED vars
    BY <2>6 DEF vars, MoveInv, Calm, EpochOK, CacheOK, Current, Active, RegionOK, AttemptOK, ReplyOK,
                StaleCache, StaleAnswer, StaleRequest
  <2> QED BY <2>2, <2>3, <2>4, <2>5, <2>6 DEF Next
<1> QED BY <1>2, <1>3

\* Without faults no request is late, whether late requests may straggle or not.
LEMMA NextCalm ==
    ASSUME MoveInv, Calm => Inv, [Next]_vars
    PROVE  (Calm => Inv)'
<1> SUFFICES ASSUME Calm' PROVE Inv'
  OBVIOUS
<1>1. Calm /\ Inv /\ NoneLeft
  BY CalmBefore DEF MoveInv, NoneLeft
<1> QED BY <1>1, NextImplements

LEMMA AtMostTwo ==
    ASSUME IsFiniteSet(Threads), Cardinality(Threads) <= 2
    PROVE  TwoThreads
<1> SUFFICES ASSUME NEW t \in Threads, NEW u \in Threads, NEW v \in Threads, t # u, t # v, u # v
             PROVE  FALSE
  BY DEF TwoThreads
<1>1. IsFiniteSet({t, u, v}) /\ Cardinality({t, u, v}) = 3
  <2>1. IsFiniteSet({t}) /\ Cardinality({t}) = 1
    BY FS_Singleton
  <2>2. IsFiniteSet({t} \cup {u}) /\ Cardinality({t} \cup {u}) = 2
    <3>1. u \notin {t}
      OBVIOUS
    <3> QED BY <2>1, <3>1, FS_AddElement
  <2>3. IsFiniteSet({t} \cup {u} \cup {v}) /\ Cardinality({t} \cup {u} \cup {v}) = 3
    <3> DEFINE S == {t} \cup {u}
    <3>1. v \notin S /\ IsFiniteSet(S) /\ Cardinality(S) = 2
      BY <2>2
    <3> HIDE DEF S
    <3>2. IsFiniteSet(S \cup {v}) /\ Cardinality(S \cup {v}) = 3
      BY <3>1, FS_AddElement
    <3> QED BY <3>2 DEF S
  <2>4. {t, u, v} = {t} \cup {u} \cup {v}
    OBVIOUS
  <2> QED BY <2>3, <2>4
<1>2. Cardinality({t, u, v}) <= Cardinality(Threads)
  <2>1. {t, u, v} \subseteq Threads
    OBVIOUS
  <2> QED BY <2>1, FS_Subset
<1>3. Cardinality(Threads) \in Nat
  BY FS_CardinalityType
<1> QED BY <1>1, <1>2, <1>3

\* One move of a region and no fault cost no call of TiKVIO its success and no posting its
\* entries, for two threads and any number of keys and calls: the three attempts of Get
\* and Put outlast what the other thread puts back into m_regionCache.
THEOREM MovesTolerated == IsFiniteSet(Threads) => (Spec => []MoveTolerated)
<1> SUFFICES ASSUME IsFiniteSet(Threads) PROVE Spec => []MoveTolerated
  OBVIOUS
<1>1. CASE Cardinality(Threads) <= 2
  <2>1. TwoThreads
    BY <1>1, AtMostTwo
  <2>2. Init => MoveInv /\ (Calm => Inv)
    BY InitInv, InitMoves
  <2>3. MoveInv /\ (Calm => Inv) /\ [Next]_vars => MoveInv' /\ (Calm => Inv)'
    BY <2>1, NextMoves, NextCalm
  <2>4. MoveInv /\ (Calm => Inv) => MoveTolerated
    <3> SUFFICES ASSUME Inv, MoveInv, Calm, NEW t \in Threads
                 PROVE  /\ call[t].ret = "fail" => missed[t]
                        /\ call[t].op = "merge" /\ rpc[t].kind = "put" /\ ~done[t].did =>
                              rpc[t].val = Append(store[call[t].key], call[t].arg)
      BY DEF MoveTolerated, Calm
    <3>1. call[t].ret = "fail" => missed[t]
      BY DEF MoveInv
    <3>2. CASE Active(t)
      BY <3>1, <3>2 DEF MoveInv, ReplyOK
    <3>3. CASE ~Active(t)
      <4>1. rpc[t].kind # "put"
        BY <3>3 DEF Inv, ThreadOK, NoRpc
      <4> QED BY <3>1, <4>1
    <3> QED BY <3>2, <3>3
  <2> QED BY <2>2, <2>3, <2>4, PTL DEF Spec
<1>2. CASE ~(Cardinality(Threads) <= 2)
  <2>1. MoveTolerated
    BY <1>2 DEF MoveTolerated
  <2>2. [Next]_vars => MoveTolerated'
    BY <1>2 DEF MoveTolerated
  <2> QED BY <2>1, <2>2, PTL DEF Spec
<1> QED BY <1>1, <1>2

=============================================================================
