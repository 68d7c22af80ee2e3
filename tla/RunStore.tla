------------------------------ MODULE RunStore ------------------------------
(***************************************************************************)
(* The PostgreSQL run store (PostgresRunStore in runtime.py): one row of   *)
(* runtime_runs and one event log per run.  Every operation is one         *)
(* database transaction that locks the row it writes, so every operation   *)
(* is one action; the order in which two transactions reach a row is the   *)
(* order in which the actions happen.                                      *)
(*                                                                         *)
(* Instants are kept as distances from the present, in ticks of one clock  *)
(* (the database's now() and the processes' utc_now() are taken to agree): *)
(*   lease  ticks until lease_expires_at, 0 once it has passed, None = null*)
(*   delay  ticks until scheduled_at, 0 once it has passed                 *)
(*   age    ticks since started_at, None = null; it stops at AgeCap        *)
(* so that time can go on for ever in a finite state space.                *)
(*                                                                         *)
(* Left out: the text columns (input, output, error, metadata, workflow    *)
(* configuration, trace ids), which no operation of the store reads.       *)
(***************************************************************************)
EXTENDS Naturals, Sequences, FiniteSets

CONSTANTS
  Runs,          \* the run ids that uuid4 may hand out
  Workers,       \* the worker ids
  None,          \* SQL null
  MaxAttempts,   \* the largest max_attempts a request may ask for (10 in the API)
  LeaseSeconds,  \* the lease a claim or a refresh grants
  MaxDelay,      \* the largest distance of a scheduled_at from the present
  AgeCap         \* ages are not told apart beyond this one

ASSUME RunStoreAssumption ==
  /\ None \notin Workers \union Nat
  /\ MaxAttempts \in Nat \ {0}
  /\ LeaseSeconds \in Nat \ {0}
  /\ MaxDelay \in Nat
  /\ AgeCap \in Nat

VARIABLES
  runs,   \* runs[r]: the row of run r
  log,    \* log[r]: the event types of r, log[r][i] is the event with sequence i
  order   \* the runs in the order of created_at

storeVars == <<runs, log, order>>

-----------------------------------------------------------------------------
Active   == {"running", "cancelling"}
Terminal == {"completed", "failed", "cancelled"}
RunStatus == {"queued"} \union Active \union Terminal

\* Event types that say where the run is in its life; the others only report.
LifecycleEvents ==
  {"run.queued", "run.started", "run.cancel_requested", "run.retry_scheduled",
   "run.completed", "run.failed", "run.cancelled"}
ReportEvents ==
  {"run.timeout_exceeded", "run.execution_failed",
   "workflow.started", "workflow.completed"}
EventType == {"run.created"} \union LifecycleEvents \union ReportEvents

Row == [status           : {"absent"} \union RunStatus,
        attempt_count    : Nat,
        max_attempts     : 0 .. MaxAttempts,
        worker_id        : Workers \union {None},
        lease            : (0 .. LeaseSeconds) \union {None},
        delay            : 0 .. MaxDelay,
        age              : (0 .. AgeCap) \union {None},
        cancel_requested : BOOLEAN,
        completed        : BOOLEAN]   \* completed_at is not null

\* The place of a row that has not been inserted yet.
NoRow == [status |-> "absent", attempt_count |-> 0, max_attempts |-> 0,
          worker_id |-> None, lease |-> None, delay |-> 0, age |-> None,
          cancel_requested |-> FALSE, completed |-> FALSE]

Exists(r) == runs[r].status # "absent"

StoreInit ==
  /\ runs = [r \in Runs |-> NoRow]
  /\ log = [r \in Runs |-> <<>>]
  /\ order = <<>>

Update(r, row) == runs' = [runs EXCEPT ![r] = row]

\* _insert_event: the next sequence number of the run and the event itself.
InsertEvent(r, type) == log' = [log EXCEPT ![r] = Append(@, type)]

-----------------------------------------------------------------------------
\* Mutant: max_attempts taken for the number of retries.
CreateRunCountsRetries(r, attempts, delay) ==
  /\ ~Exists(r)
  /\ Update(r, [NoRow EXCEPT !.status = "queued",
                             !.max_attempts = attempts + 1,
                             !.delay = delay])
  /\ log' = [log EXCEPT ![r] = <<"run.created", "run.queued">>]
  /\ order' = Append(order, r)

\* create_run: the row and its first two events in one transaction.
CreateRun(r, attempts, delay) ==
  /\ ~Exists(r)
  /\ Update(r, [NoRow EXCEPT !.status = "queued",
                             !.max_attempts = attempts,
                             !.delay = delay])
  /\ log' = [log EXCEPT ![r] = <<"run.created", "run.queued">>]
  /\ order' = Append(order, r)

\* Mutant: the event of the other branch.
CancelQueuedRunLogsRequest(r) ==
  /\ runs[r].status = "queued"
  /\ Update(r, [runs[r] EXCEPT !.status = "cancelled",
                               !.cancel_requested = TRUE,
                               !.completed = TRUE,
                               !.lease = None])
  /\ InsertEvent(r, "run.cancel_requested")
  /\ UNCHANGED order

\* cancel_run of a queued run: it is over at once.
CancelQueuedRun(r) ==
  /\ runs[r].status = "queued"
  /\ Update(r, [runs[r] EXCEPT !.status = "cancelled",
                               !.cancel_requested = TRUE,
                               !.completed = TRUE,
                               !.lease = None])
  /\ InsertEvent(r, "run.cancelled")
  /\ UNCHANGED order

\* Mutant: no early return for terminal runs.
CancelActiveRunUnlessQueued(r) ==
  /\ Exists(r) /\ runs[r].status # "queued"
  /\ Update(r, [runs[r] EXCEPT !.status = "cancelling",
                               !.cancel_requested = TRUE])
  /\ InsertEvent(r, "run.cancel_requested")
  /\ UNCHANGED order

\* cancel_run of a run somebody executes: a request, which may be repeated.
CancelActiveRun(r) ==
  /\ runs[r].status \in Active
  /\ Update(r, [runs[r] EXCEPT !.status = "cancelling",
                               !.cancel_requested = TRUE])
  /\ InsertEvent(r, "run.cancel_requested")
  /\ UNCHANGED order

\* Mutant: the request is logged before the early return for terminal runs.
CancelRunLogsFirst(r) ==
  \/ CancelQueuedRun(r) \/ CancelActiveRun(r)
  \/ /\ runs[r].status \in Terminal
     /\ InsertEvent(r, "run.cancel_requested")
     /\ UNCHANGED <<runs, order>>

\* A terminal run is returned as it is, and a run that does not exist is None.
CancelRun(r) == CancelQueuedRun(r) \/ CancelActiveRun(r)

\* Mutant: attempt_count <= max_attempts.
ClaimableOnceMore(r) ==
  /\ \/ runs[r].status = "queued"
     \/ runs[r].status \in Active /\ runs[r].lease = 0
  /\ runs[r].attempt_count <= runs[r].max_attempts
  /\ runs[r].delay = 0

\* The where clause of claim_next_run.
Claimable(r) ==
  /\ \/ runs[r].status = "queued"
     \/ runs[r].status \in Active /\ runs[r].lease = 0
  /\ runs[r].attempt_count < runs[r].max_attempts
  /\ runs[r].delay = 0

\* Mutant: the limit comes before the filter.
NextClaimableOfOldest(r, locked) ==
  /\ order # <<>> /\ order[1] = r
  /\ Claimable(r)
  /\ r \notin locked

\* claim_next_run finds r: the first claimable row that no other transaction
\* holds ("for update skip locked"); locked is the set of rows held just now.
NextClaimable(r, locked) ==
  \E i \in DOMAIN order :
    /\ order[i] = r
    /\ Claimable(r)
    /\ r \notin locked
    /\ \A j \in 1 .. i - 1 : Claimable(order[j]) => order[j] \in locked

\* Mutants: cancel_requested_at is not looked at; started_at is overwritten.
ClaimNextRunIgnoresRequest(r, w, locked) ==
  /\ NextClaimable(r, locked)
  /\ Update(r, [runs[r] EXCEPT
                  !.status = "running",
                  !.worker_id = w,
                  !.attempt_count = @ + 1,
                  !.age = IF @ = None THEN 0 ELSE @,
                  !.lease = LeaseSeconds])
  /\ InsertEvent(r, "run.started")
  /\ UNCHANGED order
ClaimNextRunRestartsClock(r, w, locked) ==
  /\ NextClaimable(r, locked)
  /\ Update(r, [runs[r] EXCEPT
                  !.status = IF runs[r].cancel_requested THEN "cancelling" ELSE "running",
                  !.worker_id = w,
                  !.attempt_count = @ + 1,
                  !.age = 0,
                  !.lease = LeaseSeconds])
  /\ InsertEvent(r, "run.started")
  /\ UNCHANGED order

ClaimNextRun(r, w, locked) ==
  /\ NextClaimable(r, locked)
  /\ Update(r, [runs[r] EXCEPT
                  !.status = IF runs[r].cancel_requested THEN "cancelling" ELSE "running",
                  !.worker_id = w,
                  !.attempt_count = @ + 1,
                  !.age = IF @ = None THEN 0 ELSE @,
                  !.lease = LeaseSeconds])
  /\ InsertEvent(r, "run.started")
  /\ UNCHANGED order

\* Mutant: a run that is being cancelled is not refreshed.
RefreshableIfRunning(r, w) == runs[r].worker_id = w /\ runs[r].status = "running"

\* The where clause of refresh_lease; where it does not hold the call changes
\* nothing and returns None.
Refreshable(r, w) == runs[r].worker_id = w /\ runs[r].status \in Active

RefreshLease(r, w) ==
  /\ Refreshable(r, w)
  /\ Update(r, [runs[r] EXCEPT !.lease = LeaseSeconds])
  /\ UNCHANGED <<log, order>>

\* Mutants: the owner stays; the cancel request is forgotten.
RequeueRunKeepsOwner(r, delay) ==
  /\ Exists(r)
  /\ Update(r, [runs[r] EXCEPT !.status = "queued",
                               !.delay = delay,
                               !.lease = None])
  /\ InsertEvent(r, "run.retry_scheduled")
  /\ UNCHANGED order
RequeueRunForgetsRequest(r, delay) ==
  /\ Exists(r)
  /\ Update(r, [runs[r] EXCEPT !.status = "queued",
                               !.delay = delay,
                               !.worker_id = None,
                               !.lease = None,
                               !.cancel_requested = FALSE])
  /\ InsertEvent(r, "run.retry_scheduled")
  /\ UNCHANGED order

\* requeue_run: whatever the status of the run and whoever holds it.
RequeueRun(r, delay) ==
  /\ Exists(r)
  /\ Update(r, [runs[r] EXCEPT !.status = "queued",
                               !.delay = delay,
                               !.worker_id = None,
                               !.lease = None])
  /\ InsertEvent(r, "run.retry_scheduled")
  /\ UNCHANGED order

AppendEvent(r, type) ==
  /\ Exists(r)
  /\ InsertEvent(r, type)
  /\ UNCHANGED <<runs, order>>

\* Mutant: the event is left to somebody else.
FinishRunLogsNothing(r, status, event) ==
  /\ Exists(r)
  /\ Update(r, [runs[r] EXCEPT !.status = status,
                               !.completed = TRUE,
                               !.lease = None])
  /\ UNCHANGED <<log, order>>

\* _finish_run: whatever the status of the run and whoever holds it.
FinishRun(r, status, event) ==
  /\ Exists(r)
  /\ Update(r, [runs[r] EXCEPT !.status = status,
                               !.completed = TRUE,
                               !.lease = None])
  /\ InsertEvent(r, event)
  /\ UNCHANGED order

MarkRunCompleted(r) == FinishRun(r, "completed", "run.completed")
MarkRunFailed(r)    == FinishRun(r, "failed", "run.failed")
MarkRunCancelled(r) == FinishRun(r, "cancelled", "run.cancelled")

\* One tick of the clock: every distance shrinks, every age grows.
Sooner(n) == IF n = 0 THEN 0 ELSE n - 1
Later(n)  == IF n = AgeCap THEN n ELSE n + 1

Tick ==
  /\ runs' = [r \in Runs |->
       [runs[r] EXCEPT !.lease = IF @ = None THEN None ELSE Sooner(@),
                       !.delay = Sooner(@),
                       !.age = IF @ = None THEN None ELSE Later(@)]]
  /\ UNCHANGED <<log, order>>

-----------------------------------------------------------------------------
(* What the store promises, whoever calls it and in whatever order. *)

StoreTypeOK ==
  /\ runs \in [Runs -> Row]
  /\ log \in [Runs -> Seq(EventType)]
  /\ order \in Seq(Runs)

\* A run has a lease exactly while it is running or cancelling, and then it has
\* an owner; a queued run has neither.  claim_next_run relies on it: it takes a
\* running or cancelling row only when lease_expires_at <= now(), which a null
\* would never satisfy, and refresh_lease matches rows by their owner.
LeaseMatchesStatus ==
  \A r \in Runs :
    /\ runs[r].lease # None <=> runs[r].status \in Active
    /\ runs[r].status \in Active => runs[r].worker_id # None
    /\ runs[r].status = "queued" => runs[r].worker_id = None

\* Whatever was requeued, reclaimed or cancelled, a run is started at most
\* max_attempts times, and the row counts the run.started events of its log.
Starts(events) == {i \in DOMAIN events : events[i] = "run.started"}
AttemptsMatchLog ==
  \A r \in Runs :
    /\ runs[r].attempt_count <= runs[r].max_attempts
    /\ Cardinality(Starts(log[r])) = runs[r].attempt_count

\* The statuses a run may have after a lifecycle event of its log.
StatusAfter(type) ==
  CASE type \in {"run.queued", "run.retry_scheduled"} -> {"queued"}
    [] type = "run.started"          -> Active
    [] type = "run.cancel_requested" -> {"cancelling"}
    [] type = "run.completed"        -> {"completed"}
    [] type = "run.failed"           -> {"failed"}
    [] type = "run.cancelled"        -> {"cancelled"}

\* The last lifecycle event of a log says what the status is.
Follows(status, events) ==
  \E i \in DOMAIN events :
    /\ events[i] \in LifecycleEvents
    /\ status \in StatusAfter(events[i])
    /\ \A j \in DOMAIN events : j > i => events[j] \notin LifecycleEvents

\* The log tells the same story as the row.  The run page and the canary read
\* both and believe them to agree, though different statements write them.
StatusFollowsLog == \A r \in Runs : Exists(r) => Follows(runs[r].status, log[r])

\* Once somebody asked to cancel a run it is never running again, though it may
\* be requeued and claimed anew: claim_next_run hands it out as cancelling.
CancelRequestSticks ==
  \A r \in Runs : runs[r].cancel_requested => runs[r].status # "running"

\* The age of a run is counted from its first start: no retry gives it a new
\* timeout budget.
StartIsRemembered ==
  [][\A r \in Runs : runs[r].age # None => runs'[r].age \in {runs[r].age, Later(runs[r].age)}]_storeVars

-----------------------------------------------------------------------------
(* A run as its submitter sees it: no leases, owners and instants. *)

Phase(r) == IF runs[r].status \in Active THEN "active" ELSE runs[r].status
Life == INSTANCE RunLifecycle WITH
  phase    <- [r \in Runs |-> Phase(r)],
  attempts <- [r \in Runs |-> runs[r].attempt_count],
  limit    <- [r \in Runs |-> runs[r].max_attempts],
  asked    <- [r \in Runs |-> runs[r].cancel_requested]
=============================================================================
