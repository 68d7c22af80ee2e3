---------------------------- MODULE StoreClients ----------------------------
(***************************************************************************)
(* The run store under the most general clients: the API and any number of *)
(* worker threads that call any operation in any order, among them workers *)
(* that lost their lease long ago and do not know it.  The workers' calls  *)
(* carry a run id that some claim returned, and nothing else is known of   *)
(* them.  What holds here holds for every program around the store.        *)
(***************************************************************************)
EXTENDS RunStore

CONSTANT MaxEvents   \* bound: no client writes to a log that is this long

ASSUME MaxEventsAssumption == MaxEvents \in Nat

HasRoom(r) == Len(log[r]) < MaxEvents

\* A worker knows r: some claim returned it.
Known(r) == runs[r].attempt_count > 0

ApiCalls(r) ==
  \/ \E attempts \in 1 .. MaxAttempts, delay \in 0 .. MaxDelay :
       CreateRun(r, attempts, delay)
  \/ HasRoom(r) /\ CancelRun(r)

WorkerCalls(r) ==
  \/ \E w \in Workers, locked \in SUBSET Runs : HasRoom(r) /\ ClaimNextRun(r, w, locked)
  \/ \E w \in Workers : RefreshLease(r, w)
  \/ /\ Known(r) /\ HasRoom(r)
     /\ \/ \E delay \in 0 .. MaxDelay : RequeueRun(r, delay)
        \/ \E type \in ReportEvents : AppendEvent(r, type)
        \/ MarkRunCompleted(r)
        \/ MarkRunFailed(r)
        \/ MarkRunCancelled(r)

ClientNext ==
  \/ \E r \in Runs : ApiCalls(r) \/ WorkerCalls(r)
  \/ Tick

ClientSpec == StoreInit /\ [][ClientNext]_storeVars
=============================================================================
