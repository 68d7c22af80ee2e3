# Verification of the agent harness

TLA+ models of the agent harness (API, workers, runtime stores, isolated
execution, workflows, run details page, dashboard, metrics, health pages and
canary, usage log), the TLC runs that check them and the
theorems the TLA+ proof system proves about them. Paths are relative to the
root of the repository; RT is `packages/agent-core/src/agent_harness_core/runtime.py`,
EX `executor.py`, IS `isolated_executor.py` beside it, WM
`apps/worker/src/agent_harness_worker/main.py`, AM
`apps/api/src/agent_harness_api/main.py`, PG
`apps/web/components/run-details-page.tsx`, DP `dashboard-page.tsx` beside it,
RH `apps/web/lib/run-helpers.ts`, UT `usage_tracker.py` beside RT.

```
browser --proxy--> API --+                       +-- worker: run_once + heartbeat
   ^   run, events, SSE  |                       |      |
   |                     v                       v      v
   +------------- PostgreSQL: runtime_runs, runtime_run_events      executor -- workflow graph -- provider
   ^              claim / refresh / requeue / finish / append     (in the worker, or in a child process
   |                                                               with a queue and a relay thread)
dashboard (list, submit)       canary: health page, submit, wait, fetch           usage log: a file all of them share
```

How to use it: `tlc -config MCFleetSafety.cfg MCWorkerFleet` checks one run (the
tables below name them all), `tlapm Operations_proofs.tla` the proofs of a module.

## 1. The parts of the system

| part | state it keeps | operations | talks to | hard behaviour | what makes it correct |
|---|---|---|---|---|---|
| **PostgreSQL run store** (RT `PostgresRunStore`) | a row per run (status, attempts, owner, lease, schedule, start, cancel request, completion), a numbered event log | create, cancel, claim, refresh lease, requeue, append event, finish, list | API, workers | every call is one transaction, but callers make several; `_finish_run` and `requeue_run` look at neither owner nor status | rows and logs agree; bounded attempts; a lease keeps others away; a cancel request is never forgotten |
| **in-memory store** (RT `InMemoryRunStore`) | the same, in dictionaries under a lock | the same | tests, local development | looks at less than PostgreSQL in refresh and claim | what a test sees of it, PostgreSQL could have done |
| **worker loop, lease heartbeat** (WM) | what the process is doing; the claimed snapshot; the heartbeat's thread | poll, claim, refresh, execute, settle an outcome or retry | store, executor | crashes, late heartbeats, calls that raise, two-transaction retries, several workers | one executor at a time; outcomes are final; every run is decided |
| **health monitor** (WM `WorkerHealthMonitor`) | last heartbeat, started flags | mark, snapshot for `/health` | container runtime, canary | marked by two threads, read by a third | a worker said to be stale has no heartbeat thread any more |
| **runtime executor** (EX) | the open calls: workflow, node, tool, model | check cancel and deadline, report start and end, run a body | store, workflows | a check and a transaction between any two steps, exceptions out of nested calls | events nest like the calls; requests are noticed at once; failures are told |
| **isolated executor** (IS) | child process, multiprocessing queue, `EventRelay` thread, deadline | spawn, join, terminate, drain, apply the result, clean up | store, worker, executor (in the child) | two processes and two threads, kills at any point, timeouts of joins, a queue lock in a killed child | the result is applied after all events; nothing is doubled or late; execute returns |
| **workflows** (`workflows/`) | the graph's state: selected tool, history, response | nodes, conditional edges | executor, provider | cycles; state decides where the graph goes | graphs end; answers come from the tools used |
| **anthropic client** (`workflows/anthropic.py`, `anthropic_react.py`) | configuration | one request, classification of errors | provider | retryable or not | the class of an error decides about a retry |
| **runs API** (AM) | none of its own | submit, get, list, events, stream, cancel | store, browser | a stream polls the log and the status in two reads | the stream ends when the run is over and skips nothing |
| **API authentication** (AM) | keys | check a header | API | - | every route is guarded |
| **contracts** (`packages/contracts`) | - | pydantic models, `is_terminal` | all | - | statuses and bounds shared by all parts |
| **observability** | metric counters, log context | record, format | all | counted per call, not per run; gauges set one by one from old lists | a run counts once; gauges come to agree with the runs |
| **token usage tracker** (`usage_tracker.py`) | a JSONL file, price table | append, summarise | model nodes | several processes append and read, writes may be cut | a report is complete or there is none |
| **schema migrations** | tables, indices | `create ... if not exists` at start-up | store | several processes start at once | the schema the store relies on |
| **run details page** (PG, `lib/api.ts`) | run, events, stream state, last sequence, reconnect timer | load, stream, reconnect, take a snapshot, cancel, refresh | API through the proxy | requests answered out of order, broken streams | no gap, no false outcome, the outcome is shown |
| **dashboard, run helpers** (`components/`, RH) | lists, pure summaries | poll, submit, summarise | API | answers overtake each other; summaries mix attempts | what is shown comes to be what the runs did |
| **web proxy, operator session** (`lib/api-proxy.ts`, ...) | a signed cookie | forward, log in | browser, API | streams are forwarded | forwards status and body |
| **production canary** (`scripts/`) | - | look at a worker, submit a run, wait, fetch its events, look again | API, health page | several requests make one verdict | the verdict agrees with the run |
| **containers, deployment, alerts** | - | - | - | - | configuration |

The hazards of this code, 40 of them, are listed in PROJECT.json at the lines
where they bite, each with the properties that cover it or the reason why none
does. The hardest come from three facts: the store's finishing writes do not ask
who makes them, so that ownership rests on the timing of leases; an attempt is
a chain of small transactions with cancel requests, deadlines, crashes and
errors between any two; and the page joins two reads and a stream that no
transaction connects.

## 2. The modules

| module | models | extends / used by |
|---|---|---|
| `RunStore` | the operations of the PostgreSQL store, one action per transaction, and the store's own promises | base of the next five |
| `StoreClients` | the store under the most general clients | `RunStore` |
| `InMemoryStore` | the other store under the same clients | `StoreClients`, which it also implements |
| `RunLifecycle` | abstract: what the harness promises of a run | implemented by `WorkerFleet` and `IsolatedExecution` |
| `WorkerFleet` | worker processes without isolation, heartbeats, the API, clock, crashes, errors of store calls | `RunStore` |
| `Operations` | the worker's health page and the canary, over the fleet | `WorkerFleet` |
| `IsolatedExecution` | one worker with process isolation: parent, child, queue, relay | `RunStore` |
| `RunDetails` | the details page, the stream's server side, requests on their way | `RunStore` |
| `ControlPlane` | the API's endpoints in their steps, its gauges, the counters of all services | `Dashboard` |
| `Dashboard` | the dashboard's requests, answers and list | `ControlPlane` |
| `UsageLog` | processes that append to the usage log and read it | |
| `Workflows` | graphs, nodes and errors of the eight workflows as operators | `RuntimeExecution` |
| `RuntimeExecution` | one attempt in detail, and retries of it; the page's summaries of its events | `Workflows` |
| `MC*` | values of the constants and symmetry, for TLC | |
| `RunStore_proofs` | lemmas about the store's operations: the invariant, the rows, the abstract life cycle | used by the proofs of every module that extends `RunStore` |
| `StoreClients_proofs` | theorems about both stores under the most general clients | `InMemoryStore` |
| `Operations_proofs` | theorems about `WorkerFleet`, and about `Operations`, which extends it | |
| `IsolatedExecution_proofs`, `RunDetails_proofs`, `RuntimeExecution_proofs`, `Dashboard_proofs`, `UsageLog_proofs` | theorems about the module of that name | |

Operators and actions carry the names of the functions they model (`claim_next_run`
is `ClaimNextRun`, `_finish_run` is `FinishRun`, `_assert_active` is `Check...`,
`EventRelay.run` is `RelayNext`); PROJECT.json maps each of them to its lines.
Operators named in a comment as "Mutant" are never used by a specification: they
are plausible mistakes in the operation they stand beside, and each property is
known to be violated when one of them takes that operation's place.

### RunStore, StoreClients

`runs[r]` is the row, `log[r]` the event types in the order of their sequence
numbers, `order` the order of `created_at`. Each operation of
`PostgresRunStore` locks the row it writes (`select ... for update`), so it is
one action. Instants are kept as distances from the present (ticks until the lease ends,
until the run may be claimed, ticks since it started), which `Tick` shrinks and
grows: time passes for ever in finitely many states. `for update skip locked` is
the parameter `locked`: any set of rows may be held by others at the moment of
a claim, which picks the first claimable row outside it. Texts (input, output,
error, metadata) are left out: no operation of the store branches on them.

`StoreClients` lets the API and any number of workers call anything at any
time, for any run a claim once returned, with no regard to leases. What holds
there holds whatever the programs around the store do: they may be late,
duplicated or wrong about who owns a run.

### InMemoryStore

The store of the tests and of `create_in_memory_app`, with the same rows, one
action per operation because each holds the store's lock. It claims a run
before its `scheduled_at` and refreshes the lease of a run that is over. `Seen`
takes away from a row what these two can change (the schedule, and the lease of
a run nobody executes), and seen like this the store implements `StoreClients`:
a test against it cannot see a history that PostgreSQL would not have. The
converse is false, which is what the tests cannot find.

### WorkerFleet, RunLifecycle

`worker[w].pc` follows `run_once`: `claimed` (before the first refresh and the
heartbeat context), `begin .. complete` (inside `execute()`, heartbeat running),
and the except clauses `cancelled`, `timed_out`, `errored`, `rejected`,
`settle`. A retry is two transactions, the report and then the requeue or
the failure, with everything else free to happen in between. `beat` is the time until the heartbeat
thread's next refresh. The body of a workflow is abstract here (it may pass,
check, raise); `RuntimeExecution` has the detail. `Crash` takes a process
at any point, `ExecutionStoreRaises` and `HeartbeatRaises` make store calls
raise, also after their commit. Such a call may leave a run to two workers;
`AttemptsAreAccountedFor` says what holds of leases even then: attempts do not
come from nothing, each but the first has an announced retry, a dead process or a
raising call to its account.

One assumption about scheduling is built into `Time` (`Punctual`): a heartbeat
that is due is made before the next tick, and the few transactions outside the
heartbeat context fit into what is left of the lease. The defaults (lease 30 s,
refresh 10 s) give them twenty and thirty seconds. Without such an assumption nothing holds
of ownership, because the store does not check it: in a fleet with
`MaxFaults` at least 1 and `FaultyCalls = {"heartbeat"}`, `TerminalIsFinal` is
violated, a worker overwriting the outcome of the one that took over from it.

`RunLifecycle` says, without workers, leases or time: a run is submitted once, is
attempted at most `limit` times, goes back to the queue only if an attempt is
left, ends as cancelled only if somebody asked for it, and is decided once.

### IsolatedExecution

The parent's thread goes `claimed -> join -> drain -> apply -> (lookup ->
unresolved) -> cleanup -> close`, or `join -> overdue -> cleanup` when the child
is killed after its time. The child puts messages on the queue; a kill loses any
suffix the feeder thread has not written and, with `TornWrites`, takes the
queue's write lock with it. The relay loops, takes and writes, and with
`SlowStore` may take longer than the joins wait (5 s and 2 s): its pending write
then goes to `late`. What the child raises is in `child.error`, which no action
of the parent reads: that is how the code is. The child's checks read the
snapshot of the claim (`parent.asked`). With `AppendsRaise`, `append_event` may raise in
the relay, which logs it, forgets the event and goes on: `lost[r]` keeps what the
log of the last attempt misses. Store calls of the parent do not raise here; they
end `execute()`, and what `run_once` does then is in `WorkerFleet`.

### RunDetails

Two reads fill the page (`ReadRun`, `ReadEvents`, `Loaded`); the server's
stream lists new events and then reads the status (`StreamLists`,
`StreamChecks`); the client takes events one by one, reconnects after a break
from the last sequence it has, and asks for a snapshot on some of them. Snapshots
travel as requests (`asking`) and answers (`answers`), which may be lost and
overtake each other. The run under the page moves by the store's own operations, retries included.

### ControlPlane, Dashboard

An endpoint is a `call` in one of a few places, which goes `count -> list ->
depth -> active -> oldest -> end -> answer`: the transaction that does the work,
the counter of created runs, the second transaction that lists the runs, the
three gauges that `refresh_queue` sets one after the other from that list, and
the counter of decided runs. FastAPI serves endpoints in threads, so everything
else may happen in between. Only the answers that the dashboard waits for are
under way for a time (`answer`): nobody in the model looks at what a cancel
request is answered, or a request of a page that was left. `ServeRaises` is either
transaction raising, the first after its commit: the client gets a 500, and what
was still to be counted is not. Runs move as `RunLifecycle` allows; `Settle` decides a run and
`RecordTerminal` counts it, in two steps between which the worker may die.
With `Isolated`, nothing that the child or `IsolatedExecutor` decides is
counted, and that is what the code does: the counters of the child are in a
registry nobody reads. The dashboard polls whether or not the last answer has
come, submits runs, shows what comes last (`ShowRuns`, `ShowCreated`), is left
and visited again. `Summary` is `summarizeRuns` of what it shows.

### Operations

`quiet[w]` is the time since the last mark of `w`'s monitor. `Mark` is called
where the code calls `mark_heartbeat`, `mark_run_started` and
`mark_run_finished`, the heartbeat thread included, which marks after every
refresh that returned a run. The canary is a client that takes five requests,
with the fleet in motion between them: health, submission, polls until its
deadline, events, health again.

### UsageLog

`file` is what has been written, in pieces: a line is a head and a tail. The kernel
keeps two appends apart, so that no other write comes between the pieces; a
reader may come between them, and a write may be cut short and then be
continued, fail, or be the last thing the process did. A file error is a warning
in `anthropic.respond`; in `anthropic.react` it fails the call, because the
handler prints to `sys.stderr` and the module does not import `sys` (`Warns`).
`Readable` says whether `json.loads` takes every
line, and `ReadLog` does what the callers do with the exception: nothing, so
that the node fails. `TotalTokens` and `Rolling` are the two figures computed
from the entries.

### Workflows, RuntimeExecution

`stack` holds the executor's open calls, a frame per workflow, node, tool call
and model call, each going `enter -check-> start -report-> check -> body ->
leave -check-> finish -report->`. `Successor` is the graph's edge, `Results` and `Raises`
what a node may do to the state and raise. An input is the kind of question it
asks (which of `choose_tool`'s patterns it matches), a text is where it comes
from. `RequestCancel`, `DeadlinePasses` and `Crash` may happen between any two
steps. `FindActiveNode` and `FailureSummary` are the page's reading (RH) of the
same events and are compared with the executor's stack and the run's error.

## 3. What the runs check

| run | configuration | properties | what it shows |
|---|---|---|---|
| `store_clients` | MCStoreClients: 1 run, 2 workers, 2 attempts, lease 2, logs up to 7 events | `LeaseMatchesStatus`, `AttemptsMatchLog`, `StatusFollowsLog`, `CancelRequestSticks` | the store's promises to any client |
| `memory_store` | MCInMemoryStore: 2 runs, 1 worker, 2 attempts, delays, logs up to 4 events | `MemoryImplementsPostgres` | what is seen of the in-memory store is a history of PostgreSQL's |
| `fleet_safety` | MCFleetSafety: 1 run, 2 workers, 3 attempts, lease 3, refresh 1, timeout 2, backoff 1, 2 cancel requests, 2 crashes | `FleetTypeOK`, `HoldersOwnTheirRuns`, `QueuedHasAttemptsLeft`, `TerminalEventIsLast`, `TimedOutNeverCompletes`, `CancelledAttemptsDoNotComplete`, `RetriesAreExplained`, `TerminalIsFinal`, `ImplementsLifecycle` | no two processes execute a run, outcomes are final, every retry and failure was announced, cancel requests are honoured, the fleet implements `RunLifecycle` |
| `fleet_rest` | MCFleetRest: 2 runs, 2 workers, 2 attempts, one crash or one store call that raises | `RunsComeToRest` | liveness in spite of failures, with the exact exceptions; the claim starves no run |
| `operations` | MCOperations: 1 run, 2 workers, 3 attempts, crash, cancel request, store call that raises | `AttemptsAreAccountedFor`, `StaleWorkersHaveNoHeartbeat`, `CanaryIsHonest` | takeovers have a cause; health pages and the canary's verdict against what the fleet does |
| `isolation` | MCIsolation: 1 run, 2 attempts, a crash, a cancel request, slow store, appends that raise, torn writes | `CompletedRunsAreWhole`, `EarlyRequestsAreHonoured`, `ResultsAreNotLost`, `NoLateWrites`, `IsolationImplementsLifecycle`, `ExecuteReturns`, `ChildrenAreAccountedFor` | child, relay and parent in every interleaving |
| `execution` | MCExecution: all workflows, 2 attempts, a crash, 2 tool uses per answer, trails up to 45 events | `TrailTellsStack`, `CancelIsPrompt`, `ModelFailuresAreTold`, `PageReadsTheTrail`, `AttemptsEnd` | the inside of an attempt and what the page makes of it |
| `details` | MCDetails: run of 2 attempts, reports and retries until the log has 4 events, 2 snapshots open, one trouble (drop, loss, overtaking or early click), one click | `NoEventIsSkipped`, `PageIsNotAhead`, `EventsArrive`, `OutcomeIsShown` | the page follows the run; every event arrives, unless the page showed the outcome before the last ones had come |
| `console` | MCConsole: 1 run, 2 calls at once, a late cancel request, one trouble (a worker that dies or a request that fails) | `SuccessRateIsReal`, `CountsAreRight`, `ViewsSettle` | the dashboard, the gauges and the counters come to agree with the runs |
| `usage` | MCUsageLog: 3 processes, 3 answers of 1 or 2 tokens, one write cut short, file error or death | `LogIsComplete`, `RollingCountsTheCall`, `AnswersAreLostToTroubles` | a report is complete or there is none; what makes a paid answer fail |
| `fleet_stale_work` (violation) | MCFleetStaleWork: 1 attempt, 1 crash | `StaleWorkIsRecovered` | a run whose worker died in its last attempt is running for ever |
| `isolation_retries` (violation) | MCIsolationRetries | `FailuresAreRetried` | under isolation a transient failure is not retried |

Type invariants are conjuncts of `FleetTypeOK`, `TrailTellsStack`, `CompletedRunsAreWhole`,
`NoEventIsSkipped`, `StaleWorkersHaveNoHeartbeat` and `RollingCountsTheCall`, so that each module has one
and no run is spent on it.
Each property is stated in words beside its definition. `CHECK_DEADLOCK FALSE`
stands where the model may stop for good: when the bounded run is decided and
nobody may crash, ask or click any more, or, under isolation, when a torn queue lock holds `close`.

### Bounds

- One run is enough for what concerns one row; the only operation that looks at
  several rows is the claim, and `fleet_rest` and `memory_store` have two. Two workers are the
  least that can disagree about an owner, and more of them only repeat the
  second one's part: the store knows one owner per row.
- Two attempts distinguish first, retry and exhausted; `fleet_safety` and `operations` have three,
  so that a retry is followed by another one, a crash and a cancel request, and a
  takeover by another that has no cause.
- Leases of two or three ticks with a refresh every tick let a heartbeat be
  late by one tick or more; `AgeCap` lies above timeout and backoff, the only
  values an age is compared with (an assumption states it).
- `MaxEvents` in `StoreClients` is seven: creation, two starts, a requeue,
  a report, a cancel request and an outcome fit. The proofs have no such bound.
- `MaxCancels`, `MaxCrashes`, `MaxFaults`, `MaxClicks`, `MaxOpen`, `MaxRepeats`
  and `MaxTroubles` bound what is otherwise unbounded: each is at least what a
  counterexample needs (the violations need one). `MaxTroubles` bounds several kinds of
  failure together; in `fleet_rest` it is 1, that is a crash or a call that raises, since two
  runs with both are out of TLC's reach there. `RunsComeToRest` leaves cancel requests to `fleet_safety`.
- `StaleAfter` (3 ticks, with a lease of 3 and a refresh every tick) is the smallest that the assumption
  `LeaseSeconds + RefreshSeconds <= StaleAfter + 1` allows. The defaults (30 and 10 seconds against 45)
  leave room; nothing in the code enforces it when they are configured. `CanaryTimeout` is 2, so that the canary may give up before, during and after an attempt.
- `Calls` has two places: two refreshes of the gauges, or two answers, that overtake each
  other. `console` runs with `Isolated = FALSE`, where the counters promise more;
  with `TRUE`, the default of the deployment, the same properties hold and say less.
- In `usage`, three processes are a writer, a reader and one that died; `WindowTicks` is 1 and the clock
  stops at 2, so that an entry may be in the window, at its end and outside it.
- `MaxTrail` (45) is above the longest trail two attempts of any workflow write (fewer than 40), so that it
  never stops a run; `AttemptsEnd` would be violated if it did.
- `MaxUses` and `MaxToolCalls` are 2: an answer with no tool, one, and as many as the limit.

### Fairness

- `FairFleetSpec`: weak fairness of the clock, of each worker's claim and work,
  and of heartbeats that are due. Worker processes poll in a loop (WM `main`) and
  the heartbeat is a thread. The body of a workflow ends in one of its ways
  because the deadline is looked at between nodes and the providers' clients
  have timeouts. Crashes, faults, cancel requests and submissions have none, and neither
  has `Restart`: nothing in the repository restarts a worker but docs/operations.md:65,
  which asks an operator to. The runs keep one worker alive, and that is enough.
- `FairIsoSpec`: the parent's and the relay's threads go on and time passes.
  Nothing is assumed of the child: it may hang in a node, which `ExecuteReturns` survives.
- `FairDetailsSpec`: the run gets on, the server serves what it is asked, the
  page's callbacks run. Nobody has to click, and troubles need not happen.
- `FairExecSpec`: the executor's code runs.
- `FairDashboardSpec`: the API serves what it has begun, answers arrive or are lost, the
  interval fires (strongly fair: the timer does not care whether other clients' calls
  take every place at some moments), and a worker that lives counts what it
  decided. Nothing is assumed of runs or people. `ViewsSettle` is about the time
  after the last change (`AtRest`): while runs move, no list can be up to date.

## 4. What is proved

The theorems hold for every set of runs and workers, every lease, timeout,
backoff, threshold and attempt limit, and every value of the bounds, that meet the named
assumptions of the modules (`RunStoreAssumption`, `WorkerFleetAssumption`,
`IsolationAssumption`, `DetailsAssumption`, `OperationsAssumption`, `WorkflowsAssumption`,
`ExecutionAssumption`, `ControlPlaneAssumption`, `CallAssumption`, `UsageLogAssumption`); TLC evaluates each of them in a run. They hold for any number of crashes, cancel requests, timeouts, retries, broken
connections and lost answers, since the constants that bound these in a run are arbitrary here.
Theorems marked † state `MaxFaults = 0` as a hypothesis of their own: no store call raises. It is
necessary, because a single heartbeat that raises refutes `TerminalIsFinal`
(section 2), and with two workers at one run the log interleaves two attempts. The other theorems
of `Operations_proofs` hold whatever the fleet's store calls raise. In `RuntimeExecution` no store call
raises, and in `IsolatedExecution` none but the relay's `append_event`; under isolation the store
is as slow and the child as unlucky as may be.

| theorem | module | states |
|---|---|---|
| `StoreTypeCorrect` | `StoreClients_proofs` | `StoreTypeOK` |
| `LeaseAlwaysMatchesStatus` | | a run has a lease and an owner exactly while it is running or cancelling |
| `AttemptsAreBounded` | | at most `max_attempts` starts, and the log has as many |
| `LogTellsStatus` | | the last lifecycle event of the log says what the status is |
| `CancelRequestIsKept` | | a run that was asked to stop is never running again |
| `StartsAreRemembered` | | `StartIsRemembered`: no retry gives a run a new timeout budget |
| `MemoryRefinesPostgres` | | `MemoryImplementsPostgres`: the in-memory store, as it is seen, implements `StoreClients` |
| `FleetTypeCorrect` | `Operations_proofs` | `FleetTypeOK` |
| `FleetKeepsStorePromises` | | the store's promises, of the workers as the code has them |
| `AttemptsAreExplained` | | `AttemptsAreAccountedFor`: no takeover without a dead process or a raising call |
| `HoldersOwnWhatTheyHold` † | | `HoldersOwnTheirRuns`: mutual exclusion of workers |
| `QueuedRunsHaveAttemptsLeft` † | | no run is requeued for good |
| `DecisionsAreFinal` † | | `TerminalIsFinal` |
| `FleetRefinesLifecycle` † | | `FleetSpec` implements `RunLifecycle!LifeSpec` |
| `OutcomesComeLast` † | | `TerminalEventIsLast` |
| `TimeoutsAreFinal` † | | `TimedOutNeverCompletes` |
| `RequestsStopAttempts` † | | `CancelledAttemptsDoNotComplete` |
| `RetriesFollowFailures` † | | `RetriesAreExplained` |
| `OperationsRefineFleet` | | health page and canary change nothing of the fleet |
| `StaleReportsAreSafe` | | `StaleWorkersHaveNoHeartbeat` |
| `CanaryTellsTheTruth` | | `CanaryIsHonest` |
| `CompletionsAreWhole` | `IsolatedExecution_proofs` | `CompletedRunsAreWhole`, holes where an append raised included |
| `RequestsAreHonoured` | | `EarlyRequestsAreHonoured` |
| `ResultsArrive` | | `ResultsAreNotLost` |
| `RelaysStop` | | `NoLateWrites` |
| `IsolationRefinesLifecycle` | | `IsoSpec` implements `RunLifecycle!LifeSpec` |
| `ListHasNoGap` | `RunDetails_proofs` | `NoEventIsSkipped` |
| `OutcomesAreReal` | | `PageIsNotAhead` |
| `ExecutionTypesCorrect` | `RuntimeExecution_proofs` | `ExecTypeOK`: types, and calls nest three deep at most |
| `CancellationsArePrompt` | | `CancelIsPrompt` |
| `FailuresOfTheModelAreTold` | | `ModelFailuresAreTold`, of the calls that `generate_model_response` makes |
| `TrailsTellTheStack` | | `TrailTellsStack`: events nest as calls do |
| `PagesReadTheTrail` | | `PageReadsTheTrail` |
| `SuccessRatesAreReal` | `Dashboard_proofs` | `SuccessRateIsReal` |
| `CountersTell` | | `CountsTell`, of which `CountsAreRight` is that it comes to hold, whenever nobody is about to count |
| `ReportsAreComplete` | `UsageLog_proofs` | `LogIsComplete`, the total included |
| `RollingFiguresAreFair` | | `RollingCountsTheCall` |
| `AnswersAreLostForAReason` | | `AnswersAreLostToTroubles` |

The arguments.

**The store.** `RunStore_proofs` has one invariant of rows and logs, `StoreInv`,
with one lemma per operation that keeps it. It is stronger than the properties:
it relates the count of starts, the last lifecycle event and the row's columns
at once, because a claim, say, keeps the attempt bound only if the log and the
row agreed before. The store's theorems follow for the most general clients.
Further lemmas say what each operation does to a row, what any call of a worker
or a client does (`StoreCall`), and which step of `RunLifecycle` it is: it moves
one run (`OneMoves`) or none (`NoneMoves`). The fleet and isolation share them.

**The in-memory store.** `MemoryRefinesPostgres` needs little of an invariant, the types of rows and
order, because every operation of the in-memory store is, seen through `Seen`,
an operation of `RunStore` at the same row or none: a claim before the schedule is a claim of a run
scheduled for now, and what a refresh does to a run that is over is not seen. So every promise in
`StoreClients` that asks for neither schedule nor idle lease is kept by it too.

**The fleet** has four invariants, because it promises less the more goes wrong.
`SaneInv` survives everything: types, the store's promises, and a worker that
has a run has one that was claimed. So does `AccountInv`. A run that somebody executes is an orphan
when its lease ran out, or when its owner neither has a heartbeat thread nor is in the few
transactions before and after it (`Orphan`, `Guards`). `Accounted` charges an orphan
the attempt that its takeover will be, so that the inequality of attempts against retries, deaths and raising
calls is kept by the claim itself, which turns the charge into an attempt. It has to be
shown that nothing else makes an orphan: a tick does not, because a thread wakes up before the lease
it keeps is over (`BeatInTime`), nor does a second worker at the same run, since it can refresh only
what it owns and a requeue or an outcome leaves nobody to be an orphan. `FleetInv` needs that nothing raises, and adds what a
worker believes: whoever holds a
run is its owner, for the attempt of its snapshot, its heartbeat wakes up before
the lease ends, and the lease is positive. Mutual exclusion is not inductive
without the heartbeat's part (time could pass the lease), nor without the
attempt's part (a requeue in the last attempt would leave a run that nobody
may claim). `HoldersOwnTheirRuns` is what makes `_finish_run`
and `requeue_run` safe though they ask nothing: so finality and the refinement follow, with
one lemma per action that says which abstract step it is or that it is none.
`HistoryInv` relates a log to the holder's place in `run_once`: what follows a
timeout, a request or a failure in the log depends on where the worker is when it
is written and on nobody else writing, which is `FleetInv`. A run that exceeded its time never
completes because the clock of its age goes on over retries; a retry, and a failure, is
explained because the report and the requeue or outcome are two transactions of one holder with nothing
but cancel requests in between, and a failure has used up the attempts because the holder's attempt is
the row's.

**Operations.** A step of the health page or of the canary is a step of the fleet or leaves it
alone, so the invariants carry over, `FleetInv` only as long as `faults = 0`.
`QuietOK` bounds the time since the last mark: the first refresh marks nothing, so the claim's
time and the first beat add up to less than `LeaseSeconds + RefreshSeconds`, which is where the
assumption on `StaleAfter` comes from. The canary's verdict is true because outcomes are final when
nothing raises; that a completed run has its events holds in any case.

**Isolation.** `IsoInv` says that the log, the relay's hand, the queue and the child
together hold the three messages of the child in order: if the first `n`
chapters of the attempt are in the log or lost (`Attempting`), the relay has taken `n` or `n + 1`, the queue holds
the next ones and the child has put as many as its place in `run_workflow` says (`Pipeline`). A
child that came to its end put all three; a kill loses a suffix. `drain` joins the relay, so that a
`completed` that is applied means that both chapters were written or lost, or that the store was
slow, and then the write is in `late`, for a run that failed (`LateOK`). `Tells` carries the
places of the chapters that were told as a function, which makes "nothing but cancel requests besides" provable when the log grows.

**The page.** `DetailsInv` says that every status on its way to the page was true when it was
read and that an outcome stays one (`StillTrue`), that the log has an outcome only when the
run is over (`OutcomeIsLate`), and that the list ends where the wire begins and the wire where the
server's cursor is (`GapFree`), which a page that waits for its load has not begun to
disturb (`Untouched`); the button that starts the stream too early is the exception, and
it is stated as one (`early`).

**The executor.** `ShapeOK` says what a stack of calls looks like: a workflow, a node in it, a tool
or a model in that, all but the innermost waiting to be left (`StackOK`), with an exception raised
only where one can be (`RaisedOK`) and a status that goes with the request (`StatusOK`). The other
properties are invariants beside it, each one about the trail and the innermost call. `PromptOK`
says how much may still follow a request from each step of a call, which is less the nearer the next
check is. `CallsOK` counts: in every attempt, the calls of the model that began are those that were
answered, those told as failed and the one that is open. `RefusalsOK` counts the calls that a configuration
error refused: they never began, one is told at the end of the attempt that it ends, and none before. `NodesOK` and `FailuresOK` are about what the
page reads: in the first attempt what has started is open or has ended; an attempt tells of one
failed model at most, and of what it then fails for; and once a timeout was told, every later attempt
ends at its first check, because `started_at` survives retries. The graphs enter by a few lemmas only
(a successor is a node or the end, a route has a category, results are states, and no body
raises what only a check or the graph's construction raises), so the proofs hold for every graph that
has these. That the last of finitely many events exists (`LatestIs`), which `findActiveNode` and
`buildFailureSummary` depend on, comes from the well-foundedness of the naturals.

**The usage log.** `LogInv` is about files that are whole: every head followed by its own tail, as far
as the file goes. The tails of a whole file are what was logged, one each (`FileOK`); numbers are given
once, so no two lines are the same entry (`NumbersOK`); and an entry that is still being
written is in the file and not logged (`WritesOK`). So a begun line of a whole file is its last line,
for if it had a tail it would be logged (`HeadIsLast`): whoever ends it keeps the file whole. A line that
nobody ends is harmless until the next append, which puts a head after a head, and no file with that
in it is ever whole again. `Readable` is whole and of even length, and as long as nothing was cut short
(`CalmOK`) the length is odd only while a process is between the two pieces. That there are as many lines as
entries is a bijection, between the places of the tails and the entries, and along it the two sums agree.

What the library's folds compute is proved from their definition: a fold is a choice of a function on
all subsets that is right at the empty set and, at every other set, by the set without some element.
That there is such a function and what it gives for a larger set are inductions, stated of sets of numbers instead
of predicates, which the provers cannot instantiate (`NatSets`: a set that has 0 and with every number
the next one has all numbers). So a sum of natural numbers is one, takes in a new element (`SumTakes`) and grows
with the set (`SumGrows`), which is what the total and the rolling figure need. `FiguresOK` is the invariant that
says of a printed figure what `RollingCountsTheCall` says: it was fair when it was read, and later
appends only add to what it is compared with.

**Brackets.** `Open` folds the trail, the begun calls pushed and the ended ones popped, and the same induction gives the one
fact the proof needs, that an event appended is the last to count (`OpenAppend`). `BracketsOK`
says that the brackets left open are the frames of the stack that have been reported and not ended, in
order: every action pushes, pops or changes the innermost frame, and reports exactly when the fold
says so. That the first frame is the workflow's and names no node is a part of the
invariant, because its end is reported after the nodes are gone and has to find the bracket that its start left.

**The dashboard.** `PlaneOK` says of every call in progress that the outcomes it carries are the runs' and
that the list it carries tells no decided run twice (`Honest`), which stays true because a decided run stays
decided. `ShownOK` says the same of the page; what makes it inductive is that at most one call of the form is under way
and that a list is longer than the log of runs by one only while none is. The counts are cardinalities of
index sets, injected into the runs that have the outcome. `CountsOK` adds up what is told of a run, counted, owed by a worker, or about to
be counted by a cancel request (`Told`): it is one more than the late requests, or less if a worker died, a request
failed between its commit and its count, or the run was decided under isolation. The calls about to count form a finite set that each step changes by one element at most
(`SetMoves`), so that nothing bounds how many there are.

Each inductive invariant was checked as an invariant of small instances before it was proved.

Only model-checked: liveness, since the prover has no fairness rule for it and no ENABLED: `RunsComeToRest`,
`ExecuteReturns`, `ChildrenAreAccountedFor`, `EventsArrive`, `OutcomeIsShown`, `ViewsSettle`, `CountsAreRight` (its safety half is
`CountersTell`) and `AttemptsEnd`. Every other property of the runs is a theorem.
`StoreTypeOK`, `StartIsRemembered` and `ExecTypeOK` are proved and have no run of their own (the last
is a part of `TrailTellsStack`).

## 5. Where code and documents, or code and intention, disagree

With a run that shows it (details in PROJECT.json):

1. RT:637, stale work of a last attempt is not recovered.
2. IS:270, errors and timeouts of an isolated child are not retried.

Seen while modelling, visible in the modules, without a run of their own:

- WM:224: a heartbeat whose refresh raises ends silently; after a takeover the
  first worker overwrites the second one's outcome.
- PG:63: the page reads the run and its events with two requests at once and opens the stream after
  the last event; a run that completes between the two may be shown as running for ever.
- `workflows/react.py`:161: `demo.react` uses no tool for the example of the README, whose two steps it announces.
- WM:231: marks come from the heartbeat thread only while `execute()` runs, and the refresh before it
  marks nothing. With the defaults, a worker that is slow in the steps around it can be reported stale (45 s
  since its last mark) with up to 15 s of its lease of 30 s left: `StaleReportsAreSafe` is that it has no
  heartbeat thread then, not that it lost its run.
- A worker that hangs in a provider call is not reported as stale, since the heartbeat
  thread keeps marking (WM:231); docs/operations.md:58 gives a hung provider as a reason of `stale`.
- With isolation, which is the default, what the child and the isolated executor decide is counted in
  no `run_terminal_total` that anybody scrapes, and `runs_started` neither; alerts on failed runs see only what `run_once` itself fails.
- AM:182: a cancel request for a run that is over counts its outcome again.
- The API's gauges change with requests to the API only, and `queue_oldest_age_seconds` counts from
  `created_at`, also for runs that are scheduled for later or wait for a retry.
- AM:152, AM:181: `list_runs` may raise after the run was created or cancelled: the client gets a 500 for what
  was done, and a cancelled run is never counted in `run_terminal_total`.
- UT:81: a usage log with a line that was never finished makes every later model call of every process
  fail with a `ValueError`, after the answer was paid for (`AnswersAreLostToTroubles`).
- `anthropic_react.py`:354 and :359 print a warning to `sys.stderr`, and the module does not import
  `sys`: any file error of the usage log ends in a `NameError` that fails the call, after the answer was
  paid for. `anthropic.py` imports it and only warns.
- IS:152: an event whose `append_event` raises in the relay is logged and dropped, and the result behind it is
  applied: a completed run may have a hole in its story (`CompletedRunsAreWhole`, exception `lost`).
- The in-memory store claims runs before `scheduled_at` and refreshes leases of decided runs (RT:261).
- IS:371: an isolated child never sees a cancel request made after the claim
  (README.md:216 says the runtime stops at the next check), so the run completes.
- IS:288: a child killed while its feeder thread writes to the queue can leave the parent
  waiting in `join_thread()` for ever (`ExecuteReturns` names it as the exception).
- IS:244: a store that keeps the relay busy for more than five seconds loses the child's
  result; the run fails although it completed (`ResultsAreNotLost`, exception `slow`).
- An overdue isolated child is failed without `run.timeout_exceeded`, which
  apps/worker/README.md:34 announces.
- PG:46, PG:50: snapshot answers overtake each other or get lost; the last one wins.
- PG:67: the refresh button, pressed before the page has loaded, starts the stream too
  early; the load then overwrites what it brought.
- `anthropic_react.py`:450: the comparison in `route_after_reason` is never true, so
  the model is asked once and `max_tool_calls` is never reached; `respond`
  then replaces the model's text by one about the last tool.
- `anthropic_react.py`:291 and `anthropic.py` class an answer with a status of 500 or more
  differently: one workflow fails where the other retries.
- `anthropic.py`:190 and `anthropic_react.py`:311 catch `APITimeoutError` behind its base class
  `APIConnectionError`: a provider that does not answer in time is a `connection_error`, never a
  `timeout_error`. Both are retried, so that only the explanation is wrong.
- RH:165: `summarizeRunMetrics` adds the usage of events to the stored usage that already has it.
- RH:398: `findActiveNode` does not find a node that is visited a second time.
- `buildFailureSummary` prefers a model failure of an earlier attempt to the
  error the run failed for (`FailureShownIsTheLast` names it as the exception).
- EX:465: a cancel request or a deadline that is noticed after a model answered is
  reported as `model.failed`.

## 6. What is not modelled

- Texts, prompts, prices and token counts; the parts of the API and the page that only
  format them.
- Sums of tokens per run (`summarizeRunMetrics`); the usage log's cache and latency columns and averages.
- HTTP, node, tool and model metrics, durations, logs and traces: nothing reads them back.
- Authentication, the operator session and the proxy beyond
  what the pages see: they keep no state that the runs' state depends on.
- Migrations: the schema is what `RunStore` assumes; DDL under concurrency is PostgreSQL's.
- Deployment, containers, alerts: configuration.
- PostgreSQL itself is taken to be serialisable per row, with `skip locked` as described above; clocks of
  processes and database are taken to agree.
- Isolation and the fleet are not composed: `IsolatedExecution` has one worker, whose lease lives while
  it executes, which is what the fleet's heartbeat provides.

## 7. Plan

Order of the modules, the most important behaviour first. Done: 1 to 10.

1. `RunStore`, `StoreClients` and their proofs.
2. `RunLifecycle`, `WorkerFleet`, proofs of the invariant, refinement.
3. `IsolatedExecution`, checked against `RunLifecycle` too.
4. `RunDetails`.
5. `Workflows`, `RuntimeExecution`.
6. The page's summaries in `RuntimeExecution`.
7. `InMemoryStore`, as a refinement of `StoreClients`, checked and proved.
8. `ControlPlane`, `Dashboard`: the API's steps, metrics, the dashboard's polling.
9. `Operations`: health pages and the canary over the fleet.
10. `UsageLog`.
11. Isolation composed with two workers, to see what a slow relay does to another worker's attempt.
12. A `RunSummaries` module of operators: usage totals and retry history,
    against reference definitions over bounded event lists.

Every safety property of the runs is proved. Theorems that could be added are about less than the runs ask: what of the fleet survives
an `execute()` whose store calls raise, between `SaneInv` and `AccountInv`, which survive everything, and `FleetInv`, which needs that none does.
