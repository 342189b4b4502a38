---------------------------- MODULE PostingStore ----------------------------
(***************************************************************************)
(* What the rebalancer relies on when it calls a posting store             *)
(* (Helper::KeyValueIO): a call takes effect at one moment between its     *)
(* start and its return, a call that reports success has taken effect, and *)
(* a call that reports failure may or may not have.  Nothing happens to a  *)
(* posting outside a call.                                                 *)
(*                                                                         *)
(* Two promises are weaker than their names.  Delete may report success    *)
(* and leave the posting: only space is lost, since its head is gone.      *)
(* Where `replaces' is TRUE, Merge may replace the posting instead of      *)
(* appending to it.                                                        *)
(***************************************************************************)
EXTENDS Sequences

CONSTANTS Threads, Keys, Entries

VARIABLES
    store,    \* the posting of each key; <<>> when there is none
    call,     \* the call of each thread, or its last one with its result
    replaces  \* whether Merge may replace a posting

vars == <<store, call, replaces>>

Ops == {"get", "put", "merge", "delete"}
NoCall == [op |-> "get", key |-> CHOOSE k \in Keys : TRUE, arg |-> CHOOSE e \in Entries : TRUE,
           st |-> "idle", ret |-> "none", res |-> <<>>]

Init ==
    /\ store \in [Keys -> {<<>>} \cup {<<e>> : e \in Entries}]
    /\ call = [t \in Threads |-> NoCall]
    /\ replaces \in BOOLEAN

\* The posting locks: one writer of a posting at a time.
WritersOf(k) == {t \in Threads : call[t].st # "idle" /\ call[t].op # "get" /\ call[t].key = k}

Call(t, op, k, e) ==
    /\ call[t].st = "idle"
    /\ op # "get" => WritersOf(k) = {}
    /\ call' = [call EXCEPT ![t] =
          [op |-> op, key |-> k, arg |-> e, st |-> "open", ret |-> "none", res |-> <<>>]]
    /\ UNCHANGED <<store, replaces>>

\* A read may be repeated before it returns.
Read(t) ==
    /\ call[t].op = "get" /\ call[t].st \in {"open", "done"}
    /\ store[call[t].key] # <<>>
    /\ call' = [call EXCEPT ![t].st = "done", ![t].res = store[call[t].key]]
    /\ UNCHANGED <<store, replaces>>

Written(t) ==
    CASE call[t].op = "put" -> {<<call[t].arg>>}
      [] call[t].op = "merge" -> {Append(store[call[t].key], call[t].arg)}
                                   \cup IF replaces THEN {<<call[t].arg>>} ELSE {}
      [] call[t].op = "delete" -> {<<>>}

Write(t) ==
    /\ call[t].op # "get" /\ call[t].st = "open"
    /\ \E p \in Written(t) : store' = [store EXCEPT ![call[t].key] = p]
    /\ call' = [call EXCEPT ![t].st = "done"]
    /\ UNCHANGED replaces

Succeed(t) ==
    /\ call[t].st \in IF call[t].op = "delete" THEN {"open", "done"} ELSE {"done"}
    /\ call' = [call EXCEPT ![t] = [NoCall EXCEPT !.ret = "ok", !.res = call[t].res]]
    /\ UNCHANGED <<store, replaces>>

Fail(t) ==
    /\ call[t].st # "idle"
    /\ call' = [call EXCEPT ![t] = [NoCall EXCEPT !.ret = "fail"]]
    /\ UNCHANGED <<store, replaces>>

Next ==
    \E t \in Threads :
        \/ \E op \in Ops, k \in Keys, e \in Entries : Call(t, op, k, e)
        \/ Read(t) \/ Write(t) \/ Succeed(t) \/ Fail(t)

Spec == Init /\ [][Next]_vars

=============================================================================
