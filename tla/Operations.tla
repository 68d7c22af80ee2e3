----------------------------- MODULE Operations -----------------------------
(***************************************************************************)
(* What operators look at, over the fleet: the /health page of every       *)
(* worker (WorkerHealthMonitor in main.py of apps/worker) and the          *)
(* production canary (scripts/production_canary.py), which looks at one    *)
(* worker's page, submits a run and waits for it.                          *)
(*                                                                         *)
(* Left out: the API's health page, which always says ok, the web proxy    *)
(* the canary goes through, and the ids and instants on the health page.   *)
(***************************************************************************)
EXTENDS WorkerFleet

CONSTANTS
  StaleAfter,     \* AGENT_HARNESS_WORKER_HEALTH_STALE_SECONDS
  CanaryTimeout,  \* AGENT_HARNESS_CANARY_TIMEOUT_SECONDS
  Watched         \* the worker behind the canary's worker_health_url

\* The defaults are 10, 30 and 45 seconds; nothing in the code enforces it.
ASSUME OperationsAssumption ==
  /\ StaleAfter \in Nat /\ LeaseSeconds + RefreshSeconds <= StaleAfter + 1
  /\ CanaryTimeout \in Nat
  /\ Watched \in Workers

VARIABLES
  quiet,    \* quiet[w]: ticks since the last mark of w's monitor
  canary    \* where the canary is, see CanaryState

opsVars == <<vars, quiet, canary>>

\* left is the time to the deadline, status what the canary read of its run.
CanaryVerdict == {"passed", "unhealthy", "overdue", "not_completed", "events_missing"}
CanaryState == [pc     : {"check", "create", "wait", "fetch", "recheck"} \union CanaryVerdict,
                run    : Runs \union {None},
                left   : 0 .. CanaryTimeout,
                status : Terminal \union {None}]

OpsInit ==
  /\ FleetInit
  /\ quiet = [w \in Workers |-> 0]
  /\ canary = [pc |-> "check", run |-> None, left |-> CanaryTimeout, status |-> None]

\* snapshot(): a process that is down does not answer at all.
IsUp(w)    == worker[w].pc # "down"
IsStale(w) == quiet[w] > StaleAfter

-----------------------------------------------------------------------------
(* The monitor *)

Mark(w) == quiet' = [quiet EXCEPT ![w] = 0]

\* mark_heartbeat at the top of run_once, which finds nothing to do.
PollInVain(w) ==
  /\ worker[w].pc = "idle" /\ quiet[w] > 0
  /\ Mark(w)
  /\ UNCHANGED <<vars, canary>>

\* mark_run_started.
ClaimMarks(w) == Claim(w) /\ Mark(w) /\ UNCHANGED canary

\* mark_run_finished, in the finally clause of run_once.
WorkMarks(w) ==
  /\ Work(w)
  /\ IF worker'[w].pc = "idle" THEN Mark(w) ELSE UNCHANGED quiet
  /\ UNCHANGED canary

\* Mutant: the heartbeat thread does not know the monitor.
HeartbeatMarksNothing(w) == Heartbeat(w) /\ UNCHANGED <<quiet, canary>>

\* The heartbeat thread marks after a refresh, and ends without one after a None.
HeartbeatMarks(w) ==
  /\ Heartbeat(w)
  /\ IF worker'[w].beat # None THEN Mark(w) ELSE UNCHANGED quiet
  /\ UNCHANGED canary

\* A new process has a new monitor.
RestartMarks(w) == Restart(w) /\ Mark(w) /\ UNCHANGED canary

\* Nobody marks when something raises or dies.
Trouble(w) ==
  /\ HeartbeatRaises(w) \/ ExecutionStoreRaises(w) \/ Crash(w)
  /\ UNCHANGED <<quiet, canary>>

\* The poll interval is shorter than a tick.
OpsTime ==
  /\ \A w \in Workers : worker[w].pc = "idle" => quiet[w] = 0
  /\ Time
  /\ quiet' = [w \in Workers |-> IF IsStale(w) THEN quiet[w] ELSE quiet[w] + 1]
  /\ canary' = [canary EXCEPT !.left = IF canary.pc = "wait" THEN Sooner(@) ELSE @]

-----------------------------------------------------------------------------
(* The canary *)

Says(pc) == canary' = [canary EXCEPT !.pc = pc]

\* verify_worker_health, before the run and after it.
VerifyWorkerHealth ==
  /\ \/ canary.pc = "check" /\ Says(IF IsUp(Watched) /\ ~IsStale(Watched) THEN "create" ELSE "unhealthy")
     \/ canary.pc = "recheck" /\ Says(IF IsUp(Watched) /\ ~IsStale(Watched) THEN "passed" ELSE "unhealthy")
  /\ UNCHANGED <<vars, quiet>>

\* create_canary_run, with the max_attempts of the API's default.
CreateCanaryRun ==
  /\ canary.pc = "create"
  /\ \E r \in Runs :
       /\ CreateRun(r, MaxAttempts, 0)
       /\ canary' = [canary EXCEPT !.pc = "wait", !.run = r]
  /\ UNCHANGED <<worker, cancels, crashes, faults, quiet>>

\* wait_for_run_completion: the deadline is looked at before every poll.
WaitForRunCompletion ==
  /\ canary.pc = "wait"
  /\ \/ canary.left = 0 /\ Says("overdue")
     \/ /\ canary.left > 0 /\ runs[canary.run].status \in Terminal
        /\ canary' = [canary EXCEPT !.pc = "fetch", !.status = runs[canary.run].status]
  /\ UNCHANGED <<vars, quiet>>

\* fetch_run_events and validate_terminal_run: the events are read in a second
\* request, and judged with the status of the first.
FetchAndValidate ==
  /\ canary.pc = "fetch"
  /\ Says(IF canary.status # "completed" THEN "not_completed"
          ELSE IF Logged(canary.run, "run.started") = {} \/ Logged(canary.run, "run.completed") = {}
               THEN "events_missing"
          ELSE "recheck")
  /\ UNCHANGED <<vars, quiet>>

CanaryStep == VerifyWorkerHealth \/ CreateCanaryRun \/ WaitForRunCompletion \/ FetchAndValidate

-----------------------------------------------------------------------------
OpsNext ==
  \/ CanaryStep
  \/ \E r \in Runs : Cancel(r) /\ UNCHANGED <<quiet, canary>>
  \/ \E w \in Workers : \/ PollInVain(w) \/ ClaimMarks(w) \/ WorkMarks(w) \/ HeartbeatMarks(w)
                        \/ RestartMarks(w) \/ Trouble(w)
  \/ OpsTime

OpsSpec == OpsInit /\ [][OpsNext]_opsVars

-----------------------------------------------------------------------------
OpsTypeOK ==
  /\ FleetTypeOK
  /\ quiet \in [Workers -> 0 .. StaleAfter + 1]
  /\ canary \in CanaryState

\* A worker that is reported stale does not execute under a lease: either the
\* lease is over, or its heartbeat thread is, because the execution has ended and
\* its outcome is late, or because a refresh raised.  While the thread goes on it
\* marks often enough, although the first refresh marks nothing.  In the late
\* case only the end of a lease is left, and nothing at all if the threshold is
\* nearly twice the lease, which the defaults (45 and 30) are not.  So restarting
\* a stale worker costs no running work.  The other side of it is that a worker
\* which hangs in a node, in a provider call say, is not reported for as long as
\* its heartbeat thread goes on.
StaleWorkersHaveNoHeartbeat ==
  /\ OpsTypeOK
  /\ \A w \in Workers :
       Holds(w) /\ IsStale(w) /\ Refreshable(worker[w].run, w) /\ RunOf(w).lease > 0 =>
         /\ worker[w].pc # "claimed" /\ worker[w].beat = None
         /\ RunOf(w).lease + StaleAfter < 2 * LeaseSeconds - 1

\* The canary's verdict is about the run as it stays: it passes only if the run is
\* completed, fails for its outcome only if the run is not, and never misses an
\* event, although it reads the status, the events and the worker's health in
\* different requests.  If a store call raised, another worker may overwrite
\* the outcome meanwhile.
CanaryIsHonest ==
  /\ canary.pc # "events_missing"
  /\ faults = 0 =>
       /\ canary.pc \in {"recheck", "passed"} => runs[canary.run].status = "completed"
       /\ canary.pc = "not_completed" => runs[canary.run].status \in {"failed", "cancelled"}
=============================================================================
