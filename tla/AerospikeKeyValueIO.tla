------------------------ MODULE AerospikeKeyValueIO -------------------------
(***************************************************************************)
(* The client of Aerospike (AerospikeKeyValueIO.cpp): one request per      *)
(* call, no retries of its own, and a Merge that appends at the server and *)
(* falls back to Put when there is no record.                              *)
(***************************************************************************)
EXTENDS RemoteStore

Send(t, kind) ==
    /\ rpc' = [rpc EXCEPT ![t].kind = kind, ![t].st = "sent"]
    /\ call' = [call EXCEPT ![t].pc = "wait"]

AerospikeStart(t) ==
    /\ storage = "AEROSPIKEIO" /\ call[t].pc = "send"
    /\ Send(t, rpc[t].kind)
    /\ UNCHANGED <<storage, server, cache, calls, faults, moves, done, missed>>

\* aerospike_connect failed, or ShutDown has run: every call fails at once.
NotConnected(t) ==
    /\ storage = "AEROSPIKEIO" /\ call[t].pc = "send"
    /\ faults < MaxFaults
    /\ faults' = faults + 1
    /\ Return(t, "fail")
    /\ UNCHANGED <<storage, store, epoch, cache, calls, moves, missed>>

\* Append can fail on missing records: Put creates the record with the appended bytes.
MergeFallback(t) ==
    /\ storage = "AEROSPIKEIO" /\ call[t].pc = "wait"
    /\ rpc[t].kind = "append" /\ rpc[t].st = "absent"
    /\ Send(t, "put")
    /\ UNCHANGED <<storage, server, cache, calls, faults, moves, done, missed>>

\* Delete takes a missing record for a success.
Status(t) ==
    IF rpc[t].st = "ok" \/ (rpc[t].st = "absent" /\ rpc[t].kind = "delete") THEN "ok" ELSE "fail"

AerospikeAnswered(t) ==
    /\ storage = "AEROSPIKEIO" /\ call[t].pc = "wait"
    /\ rpc[t].st \in {"ok", "absent", "error", "broken"}
    /\ ~(rpc[t].kind = "append" /\ rpc[t].st = "absent")
    /\ Return(t, Status(t))
    /\ UNCHANGED <<storage, store, epoch, cache, calls, faults, moves, missed>>

AerospikeStep(t) ==
    AerospikeStart(t) \/ NotConnected(t) \/ MergeFallback(t) \/ AerospikeAnswered(t)

=============================================================================
