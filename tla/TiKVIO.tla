------------------------------- MODULE TiKVIO -------------------------------
(***************************************************************************)
(* The client of TiKV (ExtraTiKVController.h): every attempt of a call     *)
(* looks up the region of the key twice, for the address and for the       *)
(* context of the request, in a cache that all threads share and that is   *)
(* filled from PD.  Get and Put make three attempts, Delete makes one, and *)
(* Merge is a Get followed by a Put.  Each key has a region of its own.    *)
(***************************************************************************)
EXTENDS RemoteStore

Attempts == 3

\* Get, Put or Delete is over.  In Merge the Put follows the Get, with the value read
\* and the new entry, or with the new entry alone when Get has failed for any reason.
Finish(t, r) ==
    IF call[t].op = "merge" /\ rpc[t].kind = "get"
    THEN /\ call' = [call EXCEPT ![t].pc = "stub", ![t].attempt = 0]
         /\ rpc' = [rpc EXCEPT ![t] = [NoRpc EXCEPT !.kind = "put",
                      !.val = IF r = "ok" THEN Append(rpc[t].val, call[t].arg) ELSE <<call[t].arg>>]]
         /\ UNCHANGED <<late, done>>
    ELSE Return(t, r)

-----------------------------------------------------------------------------
(* The region of the key, first for the stub and then for the context.     *)

\* The stub of the leader; without an address, of some store, which may be the leader.
GetStubForKey(t, region) ==
    /\ \E a \in IF region.addr = NoRegion THEN {NoRegion, epoch[call[t].key]} ELSE {region.addr} :
          rpc' = [rpc EXCEPT ![t].region = [ctx |-> NoRegion, addr |-> a], ![t].pd = Unknown]
    /\ call' = [call EXCEPT ![t].pc = "ctx"]

\* The context of the request, which is then sent.
SetContext(t, region) ==
    /\ rpc' = [rpc EXCEPT ![t].region.ctx = region.ctx, ![t].pd = Unknown, ![t].st = "sent"]
    /\ call' = [call EXCEPT ![t].pc = "wait"]

Found(t, region) ==
    IF call[t].pc \in {"stub", "pdstub", "gotstub"} THEN GetStubForKey(t, region) ELSE SetContext(t, region)

\* A hit in the cache.
FindRegionForKey(t) ==
    /\ storage = "TIKVIO" /\ call[t].pc \in {"stub", "ctx"}
    /\ cache[call[t].key] # Unknown
    /\ Found(t, cache[call[t].key])
    /\ UNCHANGED <<storage, server, cache, calls, faults, moves, done, missed>>

\* A miss.
AskPD(t) ==
    /\ storage = "TIKVIO" /\ call[t].pc \in {"stub", "ctx"}
    /\ cache[call[t].key] = Unknown
    /\ call' = [call EXCEPT ![t].pc = IF @ = "stub" THEN "pdstub" ELSE "pdctx"]
    /\ UNCHANGED <<storage, server, rpc, cache, calls, faults, moves, done, missed>>

\* PD answers; GetStoreAddress may fail and leave the address empty.
GetRegionFromPD(t) ==
    /\ call[t].pc \in {"pdstub", "pdctx"}
    /\ \E a \in {epoch[call[t].key]} \cup IF faults < MaxFaults THEN {NoRegion} ELSE {} :
          /\ rpc' = [rpc EXCEPT ![t].pd = [ctx |-> epoch[call[t].key], addr |-> a]]
          /\ faults' = IF a = NoRegion THEN faults + 1 ELSE faults
    /\ call' = [call EXCEPT ![t].pc = IF @ = "pdstub" THEN "gotstub" ELSE "gotctx"]
    /\ UNCHANGED <<storage, server, cache, calls, moves, done, missed>>

\* The answer is cached, whatever has happened to the cache since PD was asked.
CacheRegion(t) ==
    /\ call[t].pc \in {"gotstub", "gotctx"}
    /\ cache' = [cache EXCEPT ![call[t].key] = rpc[t].pd]
    /\ Found(t, rpc[t].pd)
    /\ UNCHANGED <<storage, server, calls, faults, moves, done, missed>>

\* PD fails: the request goes to some store, or without a context.
PDFails(t) ==
    /\ call[t].pc \in {"pdstub", "pdctx"}
    /\ faults < MaxFaults
    /\ faults' = faults + 1
    /\ Found(t, Unknown)
    /\ UNCHANGED <<storage, server, cache, calls, moves, done, missed>>

\* PD fails altogether: there is no store to send the request to.
NoStub(t) ==
    /\ call[t].pc = "pdstub"
    /\ faults < MaxFaults
    /\ faults' = faults + 1
    /\ Finish(t, "fail")
    /\ UNCHANGED <<storage, store, epoch, cache, calls, moves, missed>>

-----------------------------------------------------------------------------
(* The answer.                                                             *)

TiKVAnswered(t) ==
    /\ storage = "TIKVIO" /\ call[t].pc = "wait"
    /\ rpc[t].st \in {"ok", "absent", "error"}
    /\ Finish(t, IF rpc[t].st = "ok" THEN "ok" ELSE "fail")
    /\ UNCHANGED <<storage, store, epoch, cache, calls, faults, moves, missed>>

\* Delete looks only at the status and at the error, not at the region error.
TiKVDeleteUnanswered(t) ==
    /\ storage = "TIKVIO" /\ call[t].pc = "wait"
    /\ rpc[t].kind = "delete" /\ rpc[t].st \in {"region", "broken"}
    /\ Finish(t, IF rpc[t].st = "region" THEN "ok" ELSE "fail")
    /\ UNCHANGED <<storage, store, epoch, cache, calls, faults, moves, missed>>

\* The next attempt, or the end of the last one.
NextAttempt(t) ==
    IF call[t].attempt + 1 < Attempts
    THEN /\ call' = [call EXCEPT ![t].pc = "stub", ![t].attempt = @ + 1]
         /\ rpc' = [rpc EXCEPT ![t] = [NoRpc EXCEPT !.kind = rpc[t].kind, !.val = rpc[t].val]]
         /\ UNCHANGED <<late, done>>
    ELSE Finish(t, "fail")

\* Mutant of TiKVRetry: Put does not look at the region error either.
MutantRetryUnchecked(t) ==
    /\ storage = "TIKVIO" /\ call[t].pc = "wait"
    /\ rpc[t].kind # "delete" /\ rpc[t].st \in {"region", "broken"}
    /\ cache' = [cache EXCEPT ![call[t].key] = Unknown]
    /\ IF rpc[t].kind = "put" /\ rpc[t].st = "region" THEN Finish(t, "ok") ELSE NextAttempt(t)
    /\ UNCHANGED <<storage, store, epoch, calls, faults, moves, missed>>

\* Mutant of TiKVRetry: the cached region is kept after a region error.
MutantRetryCached(t) ==
    /\ storage = "TIKVIO" /\ call[t].pc = "wait"
    /\ rpc[t].kind # "delete" /\ rpc[t].st \in {"region", "broken"}
    /\ NextAttempt(t)
    /\ UNCHANGED <<storage, store, epoch, cache, calls, faults, moves, missed>>

\* Mutant of TiKVRetry: attempts are not counted, and the cached region is kept.
MutantRetryForEver(t) ==
    /\ storage = "TIKVIO" /\ call[t].pc = "wait"
    /\ rpc[t].kind # "delete" /\ rpc[t].st \in {"region", "broken"}
    /\ call' = [call EXCEPT ![t].pc = "stub"]
    /\ rpc' = [rpc EXCEPT ![t] = [NoRpc EXCEPT !.kind = rpc[t].kind, !.val = rpc[t].val]]
    /\ UNCHANGED <<storage, server, cache, calls, faults, moves, done, missed>>

\* Get and Put forget the region and try again, whether they heard of it or not.
TiKVRetry(t) ==
    /\ storage = "TIKVIO" /\ call[t].pc = "wait"
    /\ rpc[t].kind # "delete" /\ rpc[t].st \in {"region", "broken"}
    /\ cache' = [cache EXCEPT ![call[t].key] = Unknown]
    /\ NextAttempt(t)
    /\ UNCHANGED <<storage, store, epoch, calls, faults, moves, missed>>

TiKVStep(t) ==
    \/ FindRegionForKey(t) \/ AskPD(t) \/ GetRegionFromPD(t) \/ CacheRegion(t)
    \/ PDFails(t) \/ NoStub(t) \/ TiKVAnswered(t) \/ TiKVDeleteUnanswered(t) \/ TiKVRetry(t)

=============================================================================
