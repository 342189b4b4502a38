---------------------------- MODULE RemoteStore -----------------------------
(***************************************************************************)
(* A posting store on the other side of a network, as the clients of TiKV  *)
(* and of Aerospike see it: the calls of the threads of this process, the  *)
(* requests they send, and a server that executes a request, refuses it,   *)
(* or is not heard of again.  The servers themselves are external; what    *)
(* they do is taken from how the clients use them.                         *)
(***************************************************************************)
EXTENDS Integers, Sequences, FiniteSets

CONSTANTS
    Threads, Keys, Entries,
    Storages,     \* the values of the parameter Storage, a subset of {"TIKVIO", "AEROSPIKEIO"}
    MaxCalls,     \* bound: calls
    MaxFaults,    \* bound: lost requests or answers, errors of a server, failures of PD
    MaxMoves,     \* bound: changes of the leader or the borders of a region
    Stragglers    \* a request may be executed when the call that sent it has returned

ASSUME RemoteAssumption ==
    /\ Entries # {}
    /\ Storages \subseteq {"TIKVIO", "AEROSPIKEIO"}
    /\ MaxCalls \in Nat /\ MaxFaults \in Nat /\ MaxMoves \in Nat
    /\ Stragglers \in BOOLEAN

VARIABLES
    storage,  \* which client is in use
    store,    \* the postings at the server; <<>> when a key has no record
    call,     \* the call of each thread, or its last one with its result
    rpc,      \* the request of each thread and its answer
    late,     \* requests whose deadline has passed, still on their way
    epoch,    \* TiKV: the epoch of the region of each key
    cache,    \* TiKV: m_regionCache, by key
    calls, faults, moves,   \* how many there have been
    done,     \* history: what the server has done for the call of a thread
    missed    \* history: the Get of a thread has found no record

server == <<store, late, epoch>>
vars == <<storage, store, call, rpc, late, epoch, cache, calls, faults, moves, done, missed>>

Ops == {"get", "put", "merge", "delete"}
NoRegion == 0
Epochs == 1..(MaxMoves + 1)
Region == [ctx : Epochs \cup {NoRegion}, addr : Epochs \cup {NoRegion}]
Unknown == [ctx |-> NoRegion, addr |-> NoRegion]

FirstKey == CHOOSE k \in Keys : TRUE
FirstEntry == CHOOSE e \in Entries : TRUE
NoCall == [op |-> "get", key |-> FirstKey, arg |-> FirstEntry, pc |-> "idle", attempt |-> 0,
           ret |-> "none", res |-> <<>>]
NoRpc == [kind |-> "get", val |-> <<>>, pd |-> Unknown, region |-> Unknown, st |-> "none"]
NotDone == [did |-> FALSE, res |-> <<>>]

Init ==
    /\ storage \in Storages
    /\ store \in [Keys -> {<<>>, <<FirstEntry>>}]
    /\ call = [t \in Threads |-> NoCall]
    /\ rpc = [t \in Threads |-> NoRpc]
    /\ late = {}
    /\ epoch = [k \in Keys |-> 1]
    /\ cache = [k \in Keys |-> Unknown]
    /\ calls = 0 /\ faults = 0 /\ moves = 0
    /\ done = [t \in Threads |-> NotDone]
    /\ missed = [t \in Threads |-> FALSE]

-----------------------------------------------------------------------------
(* Calls.  The rebalancer writes a posting under its posting lock.         *)

Writing(k) == \E t \in Threads : call[t].pc # "idle" /\ call[t].op # "get" /\ call[t].key = k

\* The first request of a call: a read for Get, and for the Merge of TiKVIO.
FirstKind(op) ==
    CASE op = "merge" -> IF storage = "TIKVIO" THEN "get" ELSE "append"
      [] OTHER -> op

\* TiKVIO first looks for the region of the key.
FirstStep == IF storage = "TIKVIO" THEN "stub" ELSE "send"

\* Only Put and Merge have a value.
Call(t, op, k, e) ==
    /\ calls < MaxCalls
    /\ op \in {"get", "delete"} => e = FirstEntry
    /\ call[t].pc = "idle"
    /\ op # "get" => ~Writing(k)
    /\ call' = [call EXCEPT ![t] = [NoCall EXCEPT !.op = op, !.key = k, !.arg = e, !.pc = FirstStep]]
    /\ rpc' = [rpc EXCEPT ![t] =
          [NoRpc EXCEPT !.kind = FirstKind(op), !.val = IF op \in {"put", "merge"} THEN <<e>> ELSE <<>>]]
    /\ calls' = calls + 1
    /\ done' = [done EXCEPT ![t] = NotDone]
    /\ missed' = [missed EXCEPT ![t] = FALSE]
    /\ UNCHANGED <<storage, server, cache, faults, moves>>

\* The requests on their way when the call of t has returned.
LeftBehind(t) ==
    {r \in late : r.thread # t}
    \cup IF Stragglers THEN {[r EXCEPT !.waits = FALSE] : r \in {q \in late : q.thread = t}} ELSE {}

\* The call of t returns r.
Return(t, r) ==
    /\ call' = [call EXCEPT ![t] =
          [NoCall EXCEPT !.ret = r, !.res = IF r = "ok" /\ call[t].op = "get" THEN rpc[t].val ELSE <<>>]]
    /\ rpc' = [rpc EXCEPT ![t] = NoRpc]
    /\ late' = LeftBehind(t)
    /\ done' = [done EXCEPT ![t] = NotDone]

-----------------------------------------------------------------------------
(* The network and the server.                                             *)

\* TiKV executes a request that reaches the leader of its region and names the region as it is.
Accepted(t) ==
    \/ storage = "AEROSPIKEIO"
    \/ rpc[t].region = [ctx |-> epoch[call[t].key], addr |-> epoch[call[t].key]]

\* What a request of some kind leaves at the server and answers.  RawDelete of TiKV
\* does not say whether there was a record.
Executed(kind, old, val) ==
    CASE kind = "get" -> [store |-> old, st |-> IF old = <<>> THEN "absent" ELSE "ok"]
      [] kind = "put" -> [store |-> val, st |-> "ok"]
      [] kind = "append" -> IF old = <<>> THEN [store |-> old, st |-> "absent"]
                            ELSE [store |-> old \o val, st |-> "ok"]
      [] kind = "delete" -> [store |-> <<>>,
                             st |-> IF old = <<>> /\ storage = "AEROSPIKEIO" THEN "absent" ELSE "ok"]

Serve(t) ==
    /\ rpc[t].st = "sent" /\ Accepted(t)
    /\ LET k == call[t].key
           x == Executed(rpc[t].kind, store[k], rpc[t].val)
           own == rpc[t].kind # "get" \/ call[t].op = "get"
       IN /\ store' = [store EXCEPT ![k] = x.store]
          /\ rpc' = [rpc EXCEPT ![t].st = x.st,
                                ![t].val = IF rpc[t].kind = "get" THEN x.store ELSE @]
          /\ done' = IF own /\ x.st = "ok"
                     THEN [done EXCEPT ![t] = [did |-> TRUE,
                              res |-> IF rpc[t].kind = "get" THEN x.store ELSE <<>>]]
                     ELSE done
          /\ missed' = [missed EXCEPT ![t] = @ \/ (x.st = "absent" /\ call[t].op = "get")]
    /\ UNCHANGED <<storage, call, late, epoch, cache, calls, faults, moves>>

\* A region error: TiKV executes nothing.
Refuse(t) ==
    /\ rpc[t].st = "sent" /\ ~Accepted(t)
    /\ rpc' = [rpc EXCEPT ![t].st = "region"]
    /\ UNCHANGED <<storage, server, call, cache, calls, faults, moves, done, missed>>

\* The server reports an error and has executed nothing.
ServerError(t) ==
    /\ rpc[t].st = "sent"
    /\ faults < MaxFaults
    /\ faults' = faults + 1
    /\ rpc' = [rpc EXCEPT ![t].st = "error"]
    /\ UNCHANGED <<storage, server, call, cache, calls, moves, done, missed>>

\* No answer arrives in time: the request is lost, or late, or the answer to it is lost.
Break(t) ==
    /\ rpc[t].st \in {"sent", "ok", "absent", "region"}
    /\ faults < MaxFaults
    /\ faults' = faults + 1
    /\ rpc' = [rpc EXCEPT ![t].st = "broken"]
    /\ late' = late \cup IF rpc[t].st = "sent" /\ Accepted(t) /\ rpc[t].kind # "get"
                         THEN {[thread |-> t, waits |-> TRUE, kind |-> rpc[t].kind,
                                key |-> call[t].key, val |-> rpc[t].val]}
                         ELSE {}
    /\ UNCHANGED <<storage, store, call, epoch, cache, calls, moves, done, missed>>

\* A request whose deadline has passed is executed after all.
ServeLate(r) ==
    /\ r \in late
    /\ LET x == Executed(r.kind, store[r.key], r.val) IN
       /\ store' = [store EXCEPT ![r.key] = x.store]
       /\ done' = IF r.waits /\ x.st = "ok"
                  THEN [done EXCEPT ![r.thread] = [did |-> TRUE, res |-> <<>>]]
                  ELSE done
    /\ late' = late \ {r}
    /\ UNCHANGED <<storage, call, rpc, epoch, cache, calls, faults, moves, missed>>

\* The region of k gets another leader or other borders.
Move(k) ==
    /\ storage = "TIKVIO" /\ moves < MaxMoves
    /\ moves' = moves + 1
    /\ epoch' = [epoch EXCEPT ![k] = @ + 1]
    /\ UNCHANGED <<storage, store, call, rpc, late, cache, calls, faults, done, missed>>

Network ==
    \/ \E t \in Threads : Serve(t) \/ Refuse(t) \/ ServerError(t) \/ Break(t)
    \/ \E r \in late : ServeLate(r)
    \/ \E k \in Keys : Move(k)

-----------------------------------------------------------------------------
\* Postings are short: a merge adds one entry to at most one at the start.
Posting == UNION {[1..n -> Entries] : n \in 0..(MaxCalls + 1)}

(* The state has its type; a thread without a call waits for nothing.      *)
TypeOK ==
    /\ storage \in Storages
    /\ store \in [Keys -> Posting]
    /\ \A t \in Threads :
        /\ call[t].op \in Ops /\ call[t].key \in Keys /\ call[t].arg \in Entries
        /\ call[t].pc \in {"idle", "send", "stub", "ctx", "pdstub", "pdctx", "gotstub", "gotctx", "wait"}
        /\ call[t].attempt \in 0..2
        /\ call[t].ret \in {"none", "ok", "fail"} /\ call[t].res \in Posting
        /\ rpc[t].kind \in {"get", "put", "append", "delete"} /\ rpc[t].val \in Posting
        /\ rpc[t].pd \in Region /\ rpc[t].region \in Region
        /\ rpc[t].st \in {"none", "sent", "ok", "absent", "region", "error", "broken"}
        /\ call[t].pc = "idle" => rpc[t] = NoRpc
        /\ done[t].did \in BOOLEAN /\ done[t].res \in Posting /\ missed[t] \in BOOLEAN
    /\ late \subseteq [thread : Threads, waits : BOOLEAN, kind : {"put", "append", "delete"}, key : Keys, val : Posting]
    /\ epoch \in [Keys -> Epochs] /\ cache \in [Keys -> Region]
    /\ calls \in 0..MaxCalls /\ faults \in 0..MaxFaults /\ moves \in 0..MaxMoves

\* The state as PostingStore sees it.
AbstractCall(t) ==
    [op |-> call[t].op, key |-> call[t].key, arg |-> call[t].arg,
     st |-> IF call[t].pc = "idle" THEN "idle" ELSE IF done[t].did THEN "done" ELSE "open",
     ret |-> call[t].ret,
     res |-> IF call[t].pc = "idle" THEN call[t].res ELSE done[t].res]

Promised ==
    INSTANCE PostingStore WITH call <- [t \in Threads |-> AbstractCall(t)],
                               replaces <- (storage = "TIKVIO")

\* The same, where Merge never replaces a posting.
Expected ==
    INSTANCE PostingStore WITH call <- [t \in Threads |-> AbstractCall(t)], replaces <- FALSE

=============================================================================
