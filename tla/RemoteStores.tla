---------------------------- MODULE RemoteStores ----------------------------
(***************************************************************************)
(* The two clients of remote posting stores, one of which the parameter    *)
(* Storage selects, and what both promise to the rebalancer.               *)
(***************************************************************************)
EXTENDS TiKVIO, AerospikeKeyValueIO

Invoke == \E t \in Threads, op \in Ops, k \in Keys, e \in Entries : Call(t, op, k, e)

Next ==
    \/ Invoke
    \/ \E t \in Threads : TiKVStep(t) \/ AerospikeStep(t)
    \/ Network

Spec == Init /\ [][Next]_vars

\* A thread runs on, and a request to TiKV is answered or its deadline passes.
\* Aerospike gets no timeout (ToMilliseconds turns MaxTimeout into 0), so that nothing
\* is assumed of its answers.
FairSpec ==
    /\ Spec
    /\ \A t \in Threads :
        /\ WF_vars(TiKVStep(t))
        /\ WF_vars(storage = "TIKVIO" /\ (Serve(t) \/ Refuse(t) \/ ServerError(t) \/ Break(t)))

(* Both clients implement PostingStore: a call that reports success has    *)
(* taken effect exactly once, while it ran, whatever requests, answers and *)
(* attempts were lost, refused, late or repeated; one that reports failure *)
(* has taken effect at most once.  For TiKV, Merge may replace a posting.  *)
KeepsPromise == Promised!Spec

(* The same with a Merge that only ever appends, as its fallback is meant: *)
(* "Key doesn't exist yet, just put the new value."                        *)
MergeAppends == Expected!Spec

(* Without faults, one move of a region costs no call its success and no   *)
(* posting its entries: the attempts of Get and Put outlast it, although   *)
(* another thread may put the old region back into the cache.  Each of     *)
(* more threads could do so once, and three attempts are enough for one.   *)
MoveTolerated ==
    storage = "TIKVIO" /\ faults = 0 /\ moves <= 1 /\ Cardinality(Threads) <= 2 =>
        \A t \in Threads :
            /\ call[t].ret = "fail" => missed[t]
            /\ call[t].op = "merge" /\ rpc[t].kind = "put" /\ ~done[t].did =>
                  rpc[t].val = Append(store[call[t].key], call[t].arg)

(* Every call to TiKV returns, with the thread's posting lock still held:  *)
(* no exchange of refusals and refreshed regions goes on for ever.         *)
CallsReturn ==
    \A t \in Threads : (storage = "TIKVIO" /\ call[t].pc # "idle") ~> call[t].pc = "idle"

=============================================================================
