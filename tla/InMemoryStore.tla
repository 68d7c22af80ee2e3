---------------------------- MODULE InMemoryStore ----------------------------
(***************************************************************************)
(* InMemoryRunStore (runtime.py), which the tests and                      *)
(* create_in_memory_app use in the place of PostgreSQL, under the same     *)
(* most general clients.  Every operation holds the one lock of the store, *)
(* so every operation is one action, and no claim passes over a row that   *)
(* somebody else has locked.  The rows are those of RunStore, and most     *)
(* operations do to them what their PostgreSQL counterparts do; a claim    *)
(* and a refresh of a lease look at less.                                  *)
(*                                                                         *)
(* Abstracted: a claim reads the clock before it waits for the lock; the   *)
(* wait is taken to be shorter than a tick.                                *)
(***************************************************************************)
EXTENDS StoreClients

MemoryCreateRun(r, attempts, delay) == CreateRun(r, attempts, delay)

MemoryCancelRun(r) == CancelRun(r)

\* Mutant: a run somebody executes is handed out again.
MemoryClaimableAnyLease(r) ==
  /\ runs[r].status \in {"queued"} \union Active
  /\ runs[r].attempt_count < runs[r].max_attempts

\* The conditions claim_next_run tests in its loop: scheduled_at is not among
\* them.
MemoryClaimable(r) ==
  /\ \/ runs[r].status = "queued"
     \/ runs[r].status \in Active /\ runs[r].lease = 0
  /\ runs[r].attempt_count < runs[r].max_attempts

\* claim_next_run: the oldest run that qualifies.
MemoryClaimNextRun(r, w) ==
  /\ \E i \in DOMAIN order :
       /\ order[i] = r
       /\ MemoryClaimable(r)
       /\ \A j \in 1 .. i - 1 : ~MemoryClaimable(order[j])
  /\ Update(r, [runs[r] EXCEPT
                  !.status = IF runs[r].cancel_requested THEN "cancelling" ELSE "running",
                  !.worker_id = w,
                  !.attempt_count = @ + 1,
                  !.age = IF @ = None THEN 0 ELSE @,
                  !.lease = LeaseSeconds])
  /\ InsertEvent(r, "run.started")
  /\ UNCHANGED order

\* refresh_lease: whatever the status of the run; the owner of a decided run
\* is still its owner, and gives it a lease.
MemoryRefreshLease(r, w) ==
  /\ runs[r].worker_id = w
  /\ Update(r, [runs[r] EXCEPT !.lease = LeaseSeconds])
  /\ UNCHANGED <<log, order>>

MemoryRequeueRun(r, delay) == RequeueRun(r, delay)

MemoryAppendEvent(r, type) == AppendEvent(r, type)

MemoryMarkRun(r) == MarkRunCompleted(r) \/ MarkRunFailed(r) \/ MarkRunCancelled(r)

-----------------------------------------------------------------------------
MemoryApiCalls(r) ==
  \/ \E attempts \in 1 .. MaxAttempts, delay \in 0 .. MaxDelay :
       MemoryCreateRun(r, attempts, delay)
  \/ HasRoom(r) /\ MemoryCancelRun(r)

MemoryWorkerCalls(r) ==
  \/ \E w \in Workers : HasRoom(r) /\ MemoryClaimNextRun(r, w)
  \/ \E w \in Workers : MemoryRefreshLease(r, w)
  \/ /\ Known(r) /\ HasRoom(r)
     /\ \/ \E delay \in 0 .. MaxDelay : MemoryRequeueRun(r, delay)
        \/ \E type \in ReportEvents : MemoryAppendEvent(r, type)
        \/ MemoryMarkRun(r)

MemoryNext ==
  \/ \E r \in Runs : MemoryApiCalls(r) \/ MemoryWorkerCalls(r)
  \/ Tick

MemorySpec == StoreInit /\ [][MemoryNext]_storeVars

-----------------------------------------------------------------------------
(* What the store has in common with PostgreSQL *)

\* The rows as somebody sees them who asks neither when a run is scheduled nor
\* for the lease of a run nobody executes.
Seen(row) == [row EXCEPT !.delay = 0,
                         !.lease = IF row.status \in Active THEN @ ELSE None]

Postgres == INSTANCE StoreClients WITH runs <- [r \in Runs |-> Seen(runs[r])]

\* Seen like this, whatever a sequence of calls does to the rows and the logs
\* here, some sequence of calls does to those of PostgreSQL if no run is
\* scheduled for later: what is proved of StoreClients holds of this store too,
\* and a history that a test against it sees is one that PostgreSQL has.  The
\* converse does not hold: a claim here never waits for a backoff, and a refresh
\* of a decided run, which PostgreSQL answers with None, returns the run.
MemoryImplementsPostgres == Postgres!ClientSpec
=============================================================================
