----------------------------- MODULE WorkerFleet -----------------------------
(***************************************************************************)
(* A fleet of worker processes (main.py of apps/worker) over the run store:*)
(* each polls for a run, claims it under a lease, executes it with         *)
(* RuntimeExecutor in its own process (no process isolation) while a       *)
(* heartbeat thread refreshes the lease, and settles the outcome in one or *)
(* two further transactions.  Beside them act the API, which submits and   *)
(* cancels runs at any moment, the clock, crashes of worker processes and  *)
(* errors of store calls.                                                  *)
(*                                                                         *)
(* Abstracted: the nodes of a workflow.  A body runs for any time, looks   *)
(* at the run between its nodes (_assert_active), and ends by finishing,   *)
(* by a retryable error or by a permanent one.                             *)
(***************************************************************************)
EXTENDS RunStore

CONSTANTS
  RefreshSeconds,  \* AGENT_HARNESS_WORKER_LEASE_REFRESH_SECONDS
  Timeout,         \* timeout_seconds of the runs
  Backoff,         \* AGENT_HARNESS_WORKER_RETRY_BACKOFF_SECONDS
  MaxCancels,      \* bound: calls of the cancel endpoint per run that change it
  MaxCrashes,      \* bound: deaths of worker processes
  FaultyCalls,     \* which store calls may raise: "heartbeat", "execution"
  MaxFaults,       \* bound: store calls that raise
  MaxTroubles      \* bound: crashes and store calls that raise, in all

ASSUME WorkerFleetAssumption ==
  /\ RefreshSeconds \in Nat \ {0}
  /\ RefreshSeconds < LeaseSeconds     \* 10 and 30 by default
  /\ Timeout \in Nat /\ Timeout < AgeCap
  /\ Backoff \in Nat
  /\ Backoff * MaxAttempts <= AgeCap /\ Backoff * MaxAttempts <= MaxDelay
  /\ MaxCancels \in Nat /\ MaxCrashes \in Nat /\ MaxFaults \in Nat /\ MaxTroubles \in Nat
  /\ FaultyCalls \subseteq {"heartbeat", "execution"}

VARIABLES
  worker,   \* worker[w]: what process w is doing, see WorkerState
  cancels,  \* cancels[r]: cancel requests so far
  crashes,  \* processes that died so far
  faults    \* store calls that raised so far

vars == <<runs, log, order, worker, cancels, crashes, faults>>

\* Where run_once is while it holds a run.  In Executing the LeaseHeartbeat
\* context is open; in Settling it is not open yet or closed already.
Executing == {"begin", "begun", "body", "ended", "complete"}
Settling  == {"claimed", "cancelled", "timed_out", "errored", "settle", "rejected"}
Holding   == Executing \union Settling

\* run and attempt are the snapshot claim_next_run returned; beat is the time
\* until the heartbeat thread wakes up, None when there is no such thread.
WorkerState == [pc      : {"idle", "down"} \union Holding,
                run     : Runs \union {None},
                attempt : Nat,
                beat    : (0 .. RefreshSeconds) \union {None}]
Idle == [pc |-> "idle", run |-> None, attempt |-> 0, beat |-> None]

Holds(w) == worker[w].pc \in Holding
RunOf(w) == runs[worker[w].run]

FleetInit ==
  /\ StoreInit
  /\ worker = [w \in Workers |-> Idle]
  /\ cancels = [r \in Runs |-> 0]
  /\ crashes = 0
  /\ faults = 0

Goto(w, pc) == worker' = [worker EXCEPT ![w].pc = pc]

\* Leaving the heartbeat context: __exit__ stops the thread.
LeaveFor(w, pc) == worker' = [worker EXCEPT ![w].pc = pc, ![w].beat = None]

Release(w) == worker' = [worker EXCEPT ![w] = Idle]

-----------------------------------------------------------------------------
(* The API *)

Submit(r) ==
  /\ \E attempts \in 1 .. MaxAttempts, delay \in 0 .. MaxDelay :
       CreateRun(r, attempts, delay)
  /\ UNCHANGED <<worker, cancels, crashes, faults>>

Cancel(r) ==
  /\ cancels[r] < MaxCancels
  /\ CancelRun(r)
  /\ cancels' = [cancels EXCEPT ![r] = @ + 1]
  /\ UNCHANGED <<worker, crashes, faults>>

-----------------------------------------------------------------------------
(* run_once, up to the workflow *)

Claim(w) ==
  /\ worker[w].pc = "idle"
  /\ \E r \in Runs, locked \in SUBSET Runs :
       /\ ClaimNextRun(r, w, locked)
       /\ worker' = [worker EXCEPT ![w] =
            [Idle EXCEPT !.pc = "claimed",
                         !.run = r,
                         !.attempt = runs[r].attempt_count + 1]]
  /\ UNCHANGED <<cancels, crashes, faults>>

\* refresh_lease returns None, and nobody asks, if the run is not ours any more.
RefreshIfOurs(w) ==
  \/ RefreshLease(worker[w].run, w)
  \/ ~Refreshable(worker[w].run, w) /\ UNCHANGED storeVars

\* The first refresh, then the LeaseHeartbeat thread and execute().
EnterExecution(w) ==
  /\ worker[w].pc = "claimed"
  /\ RefreshIfOurs(w)
  /\ worker' = [worker EXCEPT ![w].pc = "begin", ![w].beat = RefreshSeconds]
  /\ UNCHANGED <<cancels, crashes, faults>>

-----------------------------------------------------------------------------
(* RuntimeExecutor.execute *)

IsCancelling(w) == RunOf(w).status = "cancelling"
IsLate(w)       == RunOf(w).age > Timeout

\* _assert_active returns.
CheckPasses(w, from, to) ==
  /\ worker[w].pc = from
  /\ ~IsCancelling(w) /\ ~IsLate(w)
  /\ Goto(w, to)
  /\ UNCHANGED <<runs, log, order, cancels, crashes, faults>>

\* _assert_active raises: cancellation is looked at first.
CheckRaises(w) ==
  /\ worker[w].pc \in {"begin", "body"}
  /\ \/ IsCancelling(w) /\ LeaveFor(w, "cancelled")
     \/ ~IsCancelling(w) /\ IsLate(w) /\ LeaveFor(w, "timed_out")
  /\ UNCHANGED <<runs, log, order, cancels, crashes, faults>>

\* append_event, after the check and in a transaction of its own.
Report(w, from, type, to) ==
  /\ worker[w].pc = from
  /\ AppendEvent(worker[w].run, type)
  /\ Goto(w, to)
  /\ UNCHANGED <<cancels, crashes, faults>>

\* A node raises: a ConfigurationError or a ProviderError that is not worth a
\* retry, or any other exception.
BodyRaises(w) ==
  /\ worker[w].pc = "body"
  /\ LeaveFor(w, "errored") \/ LeaveFor(w, "rejected")
  /\ UNCHANGED <<runs, log, order, cancels, crashes, faults>>

\* mark_run_completed and the return of execute().
Complete(w) ==
  /\ worker[w].pc = "complete"
  /\ MarkRunCompleted(worker[w].run)
  /\ Release(w)
  /\ UNCHANGED <<cancels, crashes, faults>>

Execute(w) ==
  \/ CheckPasses(w, "begin", "begun")
  \/ Report(w, "begun", "workflow.started", "body")
  \/ CheckPasses(w, "body", "ended")
  \/ Report(w, "ended", "workflow.completed", "complete")
  \/ CheckRaises(w)
  \/ BodyRaises(w)
  \/ Complete(w)

-----------------------------------------------------------------------------
(* run_once, the except clauses *)

SettleCancelled(w) ==
  /\ worker[w].pc = "cancelled"
  /\ MarkRunCancelled(worker[w].run)
  /\ Release(w)
  /\ UNCHANGED <<cancels, crashes, faults>>

SettleRejected(w) ==
  /\ worker[w].pc = "rejected"
  /\ MarkRunFailed(worker[w].run)
  /\ Release(w)
  /\ UNCHANGED <<cancels, crashes, faults>>

\* _build_retry_time: the backoff counts from the first start of the run.
RetryDelay(r, attempt) ==
  IF runs[r].age = None THEN Backoff * attempt
  ELSE IF Backoff * attempt > runs[r].age THEN Backoff * attempt - runs[r].age ELSE 0

\* Mutants: one retry too many; the retry is scheduled before it is explained.
SettleRetryableOnceMore(w) ==
  /\ worker[w].pc = "settle"
  /\ IF worker[w].attempt <= RunOf(w).max_attempts
       THEN RequeueRun(worker[w].run, RetryDelay(worker[w].run, worker[w].attempt))
       ELSE MarkRunFailed(worker[w].run)
  /\ Release(w)
  /\ UNCHANGED <<cancels, crashes, faults>>
SettleRetryableFirst(w) ==
  /\ worker[w].pc \in {"settle", "errored"}
  /\ IF worker[w].attempt < RunOf(w).max_attempts
       THEN RequeueRun(worker[w].run, RetryDelay(worker[w].run, worker[w].attempt))
       ELSE MarkRunFailed(worker[w].run)
  /\ Release(w)
  /\ UNCHANGED <<cancels, crashes, faults>>

\* _handle_retryable_failure: the second of its two transactions, on the
\* attempt number of the snapshot.
SettleRetryable(w) ==
  /\ worker[w].pc = "settle"
  /\ IF worker[w].attempt < RunOf(w).max_attempts
       THEN RequeueRun(worker[w].run, RetryDelay(worker[w].run, worker[w].attempt))
       ELSE MarkRunFailed(worker[w].run)
  /\ Release(w)
  /\ UNCHANGED <<cancels, crashes, faults>>

Settle(w) ==
  \/ SettleCancelled(w)
  \/ SettleRejected(w)
  \/ Report(w, "timed_out", "run.timeout_exceeded", "settle")
  \/ Report(w, "errored", "run.execution_failed", "settle")
  \/ SettleRetryable(w)

Work(w) == EnterExecution(w) \/ Execute(w) \/ Settle(w)

-----------------------------------------------------------------------------
(* The heartbeat thread, the clock, crashes and errors *)

HeartbeatDue(w) == worker[w].beat = 0

\* Mutant: the thread refreshes once.
HeartbeatOnce(w) ==
  /\ HeartbeatDue(w)
  /\ RefreshIfOurs(w)
  /\ worker' = [worker EXCEPT ![w].beat = None]
  /\ UNCHANGED <<cancels, crashes, faults>>

\* LeaseHeartbeat._run: it goes on after a refresh and ends after a None.
Heartbeat(w) ==
  /\ HeartbeatDue(w)
  /\ \/ /\ RefreshLease(worker[w].run, w)
        /\ worker' = [worker EXCEPT ![w].beat = RefreshSeconds]
     \/ /\ ~Refreshable(worker[w].run, w)
        /\ worker' = [worker EXCEPT ![w].beat = None]
        /\ UNCHANGED storeVars
  /\ UNCHANGED <<cancels, crashes, faults>>

MayRaise(call) ==
  call \in FaultyCalls /\ faults < MaxFaults /\ crashes + faults < MaxTroubles

\* refresh_lease raises: nothing catches it and the thread is gone.
HeartbeatRaises(w) ==
  /\ HeartbeatDue(w)
  /\ MayRaise("heartbeat")
  /\ faults' = faults + 1
  /\ worker' = [worker EXCEPT ![w].beat = None]
  /\ UNCHANGED <<runs, log, order, cancels, crashes>>

\* A store call of execute() raises; run_once takes it for any other error.
\* mark_run_completed may raise after its transaction was committed.
ExecutionStoreRaises(w) ==
  /\ worker[w].pc \in Executing
  /\ MayRaise("execution")
  /\ faults' = faults + 1
  /\ \/ UNCHANGED storeVars
     \/ worker[w].pc = "complete" /\ MarkRunCompleted(worker[w].run)
  /\ LeaveFor(w, "errored")
  /\ UNCHANGED <<cancels, crashes>>

\* The process dies; so does main() if a store call outside execute() raises.
Crash(w) ==
  /\ worker[w].pc # "down"
  /\ crashes < MaxCrashes /\ crashes + faults < MaxTroubles
  /\ crashes' = crashes + 1
  /\ worker' = [worker EXCEPT ![w] = [Idle EXCEPT !.pc = "down"]]
  /\ UNCHANGED <<runs, log, order, cancels, faults>>

Restart(w) ==
  /\ worker[w].pc = "down"
  /\ Release(w)
  /\ UNCHANGED <<runs, log, order, cancels, crashes, faults>>

\* Scheduling: a heartbeat that is due happens before the next tick, and the
\* few transactions outside the heartbeat context fit in the lease that is left.
Punctual(w) ==
  /\ ~HeartbeatDue(w)
  /\ worker[w].pc \in Settling => ~(Refreshable(worker[w].run, w) /\ RunOf(w).lease = 1)

Time ==
  /\ \A w \in Workers : Punctual(w)
  /\ Tick
  /\ worker' = [w \in Workers |->
       [worker[w] EXCEPT !.beat = IF @ = None THEN None ELSE @ - 1]]
  /\ UNCHANGED <<cancels, crashes, faults>>

-----------------------------------------------------------------------------
FleetNext ==
  \/ \E r \in Runs : Submit(r) \/ Cancel(r)
  \/ \E w \in Workers : \/ Claim(w) \/ Work(w) \/ Heartbeat(w)
                        \/ HeartbeatRaises(w) \/ ExecutionStoreRaises(w)
                        \/ Crash(w) \/ Restart(w)
  \/ Time

FleetSpec == FleetInit /\ [][FleetNext]_vars

\* Processes that are up keep working, a heartbeat thread that is due runs, and
\* time passes; whether a process that died is restarted is up to an operator.
FleetFairness ==
  /\ WF_vars(Time)
  /\ \A w \in Workers : /\ WF_vars(Claim(w))
                        /\ WF_vars(Work(w))
                        /\ WF_vars(Heartbeat(w) \/ HeartbeatRaises(w))

FairFleetSpec == FleetSpec /\ FleetFairness

-----------------------------------------------------------------------------
(* Correctness *)

FleetTypeOK ==
  /\ StoreTypeOK
  /\ worker \in [Workers -> WorkerState]
  /\ cancels \in [Runs -> 0 .. MaxCancels]
  /\ crashes \in 0 .. MaxCrashes
  /\ faults \in 0 .. MaxFaults

\* A process that holds a run is its owner in the store, for the attempt it
\* believes to make, with a lease that has not run out: however it was
\* interleaved with the others and however many of them died.  Hence no run is
\* executed by two processes at once, though neither requeue_run nor
\* _finish_run looks at the owner.  It needs store calls that do not raise.
HoldersOwnTheirRuns ==
  \A w \in Workers : Holds(w) =>
    /\ RunOf(w).status \in Active
    /\ RunOf(w).worker_id = w
    /\ RunOf(w).attempt_count = worker[w].attempt
    /\ RunOf(w).lease \in 1 .. LeaseSeconds

\* completed, failed and cancelled are final: RunStatus.is_terminal.  Nothing in
\* the store's writes enforces it.
TerminalIsFinal ==
  [][\A r \in Runs : runs[r].status \in Terminal => runs'[r].status = runs[r].status]_vars

\* The log of a decided run ends with the event that decided it: the web client
\* and the canary stop reading there.
TerminalEventIsLast ==
  \A r \in Runs : runs[r].status \in Terminal =>
    log[r][Len(log[r])] \in {"run.completed", "run.failed", "run.cancelled"}

\* A queued run can be claimed when its time has come: no worker requeues a run
\* whose attempts are used up, which claim_next_run would pass over for ever.
QueuedHasAttemptsLeft ==
  \A r \in Runs : runs[r].status = "queued" => runs[r].attempt_count < runs[r].max_attempts

Logged(r, type) == {i \in DOMAIN log[r] : log[r][i] = type}

\* Since retries keep started_at, a run that timed out once never completes,
\* whatever attempts it has left: its retries time out in their first check.
TimedOutNeverCompletes ==
  \A r \in Runs :
    runs[r].status = "completed" => Logged(r, "run.timeout_exceeded") = {}

\* If a cancel request reached the run before its workflow began, that attempt
\* does not complete, and a worker that claims the run afterwards, because it
\* was requeued or its worker died, does not begin the workflow at all.
CancelledAttemptsDoNotComplete ==
  \A r \in Runs :
    \A i \in Logged(r, "run.cancel_requested"), j \in Logged(r, "workflow.started") :
      i < j => /\ runs[r].status # "completed"
               /\ Logged(r, "run.started") \intersect (i .. j) = {}

\* Every attempt but the first is accounted for by a retry that was announced, a
\* worker that died or a store call that raised: as long as the process and its
\* heartbeat thread are there, nobody takes a run over, however long it executes,
\* whoever asks to cancel it, and whatever two workers do to it that both hold it
\* since an earlier thread was lost.
AttemptsAreAccountedFor ==
  \A r \in Runs :
    runs[r].attempt_count
      <= 1 + Cardinality(Logged(r, "run.retry_scheduled")) + crashes + faults

\* The last event before i that is not a cancel request is one of types.
ComesAfter(r, i, types) ==
  \E j \in 1 .. i - 1 : /\ log[r][j] \in types
                       /\ \A k \in j + 1 .. i - 1 : log[r][k] = "run.cancel_requested"

\* Every retry was announced by the attempt that caused it: only cancel requests
\* come between the report of its failure and run.retry_scheduled.  So was every
\* run that failed, and then its attempts are used up, unless its workflow had
\* begun and was rejected for an error that is not worth a retry.
RetriesAreExplained ==
  \A r \in Runs :
    /\ \A i \in Logged(r, "run.retry_scheduled") :
         ComesAfter(r, i, {"run.timeout_exceeded", "run.execution_failed"})
    /\ \A i \in Logged(r, "run.failed") :
         \/ /\ ComesAfter(r, i, {"run.timeout_exceeded", "run.execution_failed"})
            /\ runs[r].attempt_count = runs[r].max_attempts
         \/ ComesAfter(r, i, {"workflow.started"})

\* The fleet keeps the promises of RunLifecycle.
ImplementsLifecycle == Life!LifeSpec

\* A run is abandoned if its worker died in the last attempt it had, or its lease
\* was lost then, because claim_next_run does not pick it up any more; a late
\* requeue, of an attempt whose lease was lost, may leave it in the queue with
\* its attempts used up.
Abandoned(r) == /\ runs[r].status \in Active
                /\ runs[r].lease = 0
                /\ runs[r].attempt_count = runs[r].max_attempts
Stranded(r) == /\ runs[r].status = "queued"
               /\ runs[r].attempt_count = runs[r].max_attempts

\* Every run comes to rest: decided, or abandoned if a worker died or a store call
\* raised, or stranded if a store call raised; none starves behind older ones, their
\* retries or the rows other transactions hold.  Store calls that raise can make
\* two workers execute one run and overwrite each other's outcomes, but this
\* does not go on for ever.
RunsComeToRest ==
  \A r \in Runs :
    <>[](Exists(r) => \/ runs[r].status \in Terminal
                      \/ Abandoned(r) /\ crashes + faults > 0
                      \/ Stranded(r) /\ faults > 0)

\* What the worker's README says of leases: stale work is recovered, that is, a
\* run whose lease ran out gets a live lease or an outcome.
StaleWorkIsRecovered ==
  \A r \in Runs : (runs[r].status \in Active /\ runs[r].lease = 0) ~> runs[r].lease # 0
=============================================================================
