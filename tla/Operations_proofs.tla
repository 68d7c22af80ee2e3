-------------------------- MODULE Operations_proofs --------------------------
(***************************************************************************)
(* The fleet and what operators are told of it, for every number of runs,  *)
(* workers, attempts, cancel requests and crashes, and for every lease,    *)
(* refresh interval, threshold and canary timeout.                         *)
(*                                                                         *)
(* The fleet: whatever raises, types and the store's promises are kept     *)
(* (SaneInv) and every attempt is accounted for (AccountInv).  As long as  *)
(* no store call raises (MaxFaults = 0), a worker that holds a run owns it *)
(* (FleetInv), its log tells what happened (HistoryInv), decided runs stay *)
(* decided, and the fleet implements RunLifecycle.                         *)
(*                                                                         *)
(* The monitors, in the last part: a worker reported stale has no          *)
(* heartbeat, and the canary's verdict is true.                            *)
(***************************************************************************)
EXTENDS Operations, RunStore_proofs

\* What one worker keeps: it owns what it holds; while its heartbeat runs, the
\* lease outlasts the time to the next beat; and who saw the cancel request
\* still sees it.
WorkerOK(w) ==
  /\ worker[w] \in WorkerState
  /\ Holds(w) => /\ worker[w].run \in Runs
                 /\ RunOf(w).status \in Active
                 /\ RunOf(w).worker_id = w
                 /\ RunOf(w).attempt_count = worker[w].attempt
                 /\ RunOf(w).lease \in 1 .. LeaseSeconds
  /\ worker[w].pc \in Executing =>
       /\ worker[w].beat \in 0 .. RefreshSeconds
       /\ worker[w].beat < RunOf(w).lease
  /\ worker[w].pc \notin Executing => worker[w].beat = None
  /\ worker[w].pc = "cancelled" => RunOf(w).status = "cancelling"

\* What one run keeps in a fleet, beyond what the store gives.
RunOK(row) ==
  /\ row.status = "queued" => row.attempt_count < row.max_attempts
  /\ row.completed <=> row.status \in Terminal
  /\ row.status = "cancelling" => row.cancel_requested
  /\ row.status = "absent" => row.attempt_count = 0 /\ ~row.cancel_requested

CountersOK ==
  /\ cancels \in [Runs -> 0 .. MaxCancels]
  /\ crashes \in 0 .. MaxCrashes
  /\ faults \in 0 .. MaxFaults

FleetInv ==
  /\ StoreInv
  /\ worker \in [Workers -> WorkerState]
  /\ \A w \in Workers : WorkerOK(w)
  /\ \A r \in Runs : RunOK(runs[r])
  /\ CountersOK

USE RunStoreAssumption, WorkerFleetAssumption

LEMMA FleetInitInv == FleetInit => FleetInv
<1> SUFFICES ASSUME FleetInit PROVE FleetInv
  OBVIOUS
<1>1. StoreInv
  BY StoreInitInv DEF FleetInit
<1>2. Idle \in WorkerState
  BY DEF Idle, WorkerState
<1>3. worker \in [Workers -> WorkerState]
  BY <1>2 DEF FleetInit
<1>4. ASSUME NEW w \in Workers PROVE WorkerOK(w)
  <2>1. worker[w] = Idle
    BY DEF FleetInit
  <2>2. worker[w].pc = "idle" /\ worker[w].beat = None
    BY <2>1 DEF Idle
  <2> QED BY <1>2, <2>1, <2>2 DEF WorkerOK, Holds, Holding, Executing, Settling
<1>5. ASSUME NEW r \in Runs PROVE RunOK(runs[r])
  BY DEF FleetInit, StoreInit, NoRow, RunOK, Terminal
<1>6. CountersOK
  BY DEF FleetInit, CountersOK
<1> QED BY <1>1, <1>3, <1>4, <1>5, <1>6 DEF FleetInv

LEMMA CountersStep ==
  ASSUME CountersOK, [FleetNext]_vars
  PROVE  CountersOK'
<1>1. CASE UNCHANGED <<cancels, crashes, faults>>
  BY <1>1 DEF CountersOK
<1>2. ASSUME NEW r \in Runs, Submit(r) \/ Cancel(r) PROVE CountersOK'
  <2>1. CASE Submit(r)
    BY <1>1, <2>1 DEF Submit
  <2>2. CASE Cancel(r)
    BY <2>2 DEF Cancel, CountersOK
  <2> QED BY <1>2, <2>1, <2>2
<1>3. ASSUME NEW w \in Workers, Claim(w) PROVE CountersOK'
  BY <1>1, <1>3 DEF Claim
<1>4. ASSUME NEW w \in Workers, Work(w) PROVE CountersOK'
  <2>1. CASE EnterExecution(w)
    BY <1>1, <2>1 DEF EnterExecution
  <2>2. CASE Execute(w)
    BY <1>1, <2>2 DEF Execute, CheckPasses, CheckRaises, Report, BodyRaises, Complete
  <2>3. CASE Settle(w)
    BY <1>1, <2>3 DEF Settle, SettleCancelled, SettleRejected, SettleRetryable, Report
  <2> QED BY <1>4, <2>1, <2>2, <2>3 DEF Work
<1>5. ASSUME NEW w \in Workers, Heartbeat(w) PROVE CountersOK'
  BY <1>1, <1>5 DEF Heartbeat
<1>6. ASSUME NEW w \in Workers, HeartbeatRaises(w) PROVE CountersOK'
  BY <1>6 DEF HeartbeatRaises, MayRaise, CountersOK
<1>7. ASSUME NEW w \in Workers, ExecutionStoreRaises(w) PROVE CountersOK'
  BY <1>7 DEF ExecutionStoreRaises, MayRaise, CountersOK
<1>8. ASSUME NEW w \in Workers, Crash(w) PROVE CountersOK'
  BY <1>8 DEF Crash, CountersOK
<1>9. ASSUME NEW w \in Workers, Restart(w) PROVE CountersOK'
  BY <1>1, <1>9 DEF Restart
<1>10. CASE Time
  BY <1>1, <1>10 DEF Time
<1>11. CASE UNCHANGED vars
  BY <1>1, <1>11 DEF vars
<1> QED BY <1>2, <1>3, <1>4, <1>5, <1>6, <1>7, <1>8, <1>9, <1>10, <1>11 DEF FleetNext

-----------------------------------------------------------------------------
(* Whatever raises: the calls the fleet makes and the types it keeps *)

\* The part of the invariant that errors of store calls leave alone: what a
\* worker holds was claimed once, and only its heartbeat context has a thread.
WorkerSane(w) ==
  /\ Holds(w) => worker[w].run \in Runs /\ RunOf(w).attempt_count > 0
  /\ worker[w].pc \notin Executing => worker[w].beat = None

SaneInv ==
  /\ StoreInv
  /\ \A r \in Runs : runs[r].status = "completed" => runs[r].attempt_count > 0
  /\ worker \in [Workers -> WorkerState]
  /\ \A w \in Workers : WorkerSane(w)
  /\ CountersOK

\* The backoff is a delay the store can keep.
LEMMA RetryDelayType ==
  ASSUME StoreInv, NEW r \in Runs, NEW attempt \in 0 .. MaxAttempts
  PROVE  RetryDelay(r, attempt) \in 0 .. MaxDelay
<1>1. Backoff * attempt \in Nat /\ Backoff * attempt <= Backoff * MaxAttempts
  OBVIOUS
<1>2. runs[r].age = None \/ runs[r].age \in Nat
  BY RowType DEF Row
<1>3. Backoff * attempt <= MaxDelay
  BY <1>1
<1> QED BY <1>1, <1>2, <1>3 DEF RetryDelay

\* Only a process that holds a run has a heartbeat thread.
LEMMA BeatsHold ==
  ASSUME SaneInv, NEW w \in Workers, worker[w].beat # None
  PROVE  worker[w].pc \in Executing /\ Holds(w) /\ worker[w].run \in Runs
  BY DEF SaneInv, WorkerSane, Holds, Holding

\* A holder's writes are calls about a run that was claimed.
LEMMA HolderCall ==
  ASSUME SaneInv, NEW w \in Workers, Holds(w),
         WorkerWrites(worker[w].run) \/ RefreshIfOurs(w) \/ UNCHANGED storeVars
  PROVE  [StoreCall]_storeVars
<1>1. worker[w].run \in Runs /\ runs[worker[w].run].attempt_count > 0
  BY DEF SaneInv, WorkerSane, RunOf
<1> QED BY <1>1 DEF StoreCall, RefreshIfOurs

\* What execute() and the except clauses write is about the run they hold.
LEMMA WorkWrites ==
  ASSUME SaneInv, NEW w \in Workers, Execute(w) \/ Settle(w)
  PROVE  Holds(w) /\ (WorkerWrites(worker[w].run) \/ UNCHANGED storeVars)
<1>1. Holds(w)
  BY DEF Execute, CheckPasses, CheckRaises, Report, BodyRaises, Complete,
         Settle, SettleCancelled, SettleRejected, SettleRetryable,
         Holds, Holding, Executing, Settling
<1>2. CASE Execute(w)
  BY <1>1, <1>2 DEF Execute, CheckPasses, CheckRaises, BodyRaises, Report, Complete,
                    WorkerWrites, ReportEvents, storeVars
<1>3. CASE SettleRetryable(w)
  <2>1. CASE worker[w].attempt < RunOf(w).max_attempts
    <3>1. /\ StoreInv /\ worker[w].run \in Runs
          /\ worker[w].attempt \in Nat /\ RunOf(w).max_attempts \in 0 .. MaxAttempts
      BY <1>1, RowType DEF SaneInv, WorkerSane, WorkerState, RunOf, Row
    <3>2. worker[w].attempt \in 0 .. MaxAttempts
      BY <2>1, <3>1
    <3>3. RetryDelay(worker[w].run, worker[w].attempt) \in 0 .. MaxDelay
      BY <3>1, <3>2, RetryDelayType
    <3> QED BY <1>1, <1>3, <2>1, <3>3 DEF SettleRetryable, WorkerWrites
  <2>2. CASE ~(worker[w].attempt < RunOf(w).max_attempts)
    BY <1>1, <1>3, <2>2 DEF SettleRetryable, WorkerWrites
  <2> QED BY <2>1, <2>2
<1>4. CASE Settle(w) /\ ~SettleRetryable(w)
  BY <1>1, <1>4 DEF Settle, SettleCancelled, SettleRejected, Report, WorkerWrites, ReportEvents
<1> QED BY <1>2, <1>3, <1>4

LEMMA WorkIsCall ==
  ASSUME SaneInv, NEW w \in Workers, Work(w)
  PROVE  [StoreCall]_storeVars
<1>1. CASE EnterExecution(w)
  BY <1>1, HolderCall DEF EnterExecution, Holds, Holding, Settling
<1>2. CASE Execute(w) \/ Settle(w)
  BY <1>2, WorkWrites, HolderCall
<1> QED BY <1>1, <1>2 DEF Work

\* The fleet is a client of the store: all it does to the rows and the logs is
\* what the store's operations do.
LEMMA FleetStepIsCall ==
  ASSUME SaneInv, [FleetNext]_vars
  PROVE  [StoreCall]_storeVars
<1>1. ASSUME NEW r \in Runs, Submit(r) \/ Cancel(r) PROVE StoreCall
  BY <1>1 DEF Submit, Cancel, StoreCall
<1>2. ASSUME NEW w \in Workers, Claim(w) PROVE StoreCall
  BY <1>2 DEF Claim, StoreCall
<1>3. ASSUME NEW w \in Workers, Work(w) PROVE [StoreCall]_storeVars
  BY <1>3, WorkIsCall
<1>4. ASSUME NEW w \in Workers, Heartbeat(w) PROVE [StoreCall]_storeVars
  <2>1. worker[w].beat # None
    BY <1>4 DEF Heartbeat, HeartbeatDue
  <2>2. RefreshIfOurs(w)
    BY <1>4 DEF Heartbeat, RefreshIfOurs
  <2> QED BY <2>1, <2>2, BeatsHold, HolderCall
<1>5. ASSUME NEW w \in Workers, ExecutionStoreRaises(w) PROVE [StoreCall]_storeVars
  <2>1. Holds(w)
    BY <1>5 DEF ExecutionStoreRaises, Holds, Holding
  <2> QED BY <1>5, <2>1, HolderCall DEF ExecutionStoreRaises, WorkerWrites
<1>6. ASSUME NEW w \in Workers, HeartbeatRaises(w) \/ Crash(w) \/ Restart(w)
      PROVE  UNCHANGED storeVars
  BY <1>6 DEF HeartbeatRaises, Crash, Restart, storeVars
<1>7. CASE Time
  BY <1>7 DEF Time, StoreCall
<1>8. CASE UNCHANGED vars
  BY <1>8 DEF vars, storeVars
<1> QED BY <1>1, <1>2, <1>3, <1>4, <1>5, <1>6, <1>7, <1>8 DEF FleetNext

\* What a step does to the state of one process: it comes to hold a run by a claim
\* only, and to have a thread by entering the execution.
ProcessStep(w) ==
  /\ worker'[w] \in WorkerState
  /\ Holds(w)' => \/ Holds(w) /\ worker'[w].run = worker[w].run
                  \/ \E r \in Runs, locked \in SUBSET Runs :
                       ClaimNextRun(r, w, locked) /\ worker'[w].run = r
  /\ worker'[w].pc \notin Executing => worker'[w].beat = None
ProcessesStep == worker' \in [Workers -> WorkerState] /\ \A w \in Workers : ProcessStep(w)

LEMMA OneProcess ==
  ASSUME SaneInv, NEW w \in Workers, NEW st \in WorkerState,
         worker' = [worker EXCEPT ![w] = st],
         st.pc \in Holding => \/ Holds(w) /\ st.run = worker[w].run
                              \/ \E r \in Runs, locked \in SUBSET Runs :
                                   ClaimNextRun(r, w, locked) /\ st.run = r,
         st.pc \notin Executing => st.beat = None
  PROVE  ProcessesStep
<1>1. worker' \in [Workers -> WorkerState] /\ worker'[w] = st
  BY DEF SaneInv
<1>2. ASSUME NEW v \in Workers PROVE ProcessStep(v)
  <2>1. CASE v = w
    BY <1>1, <2>1 DEF ProcessStep, Holds
  <2>2. CASE v # w
    <3>1. worker'[v] = worker[v] /\ WorkerSane(v)
      BY <2>2 DEF SaneInv
    <3> QED BY <1>1, <3>1 DEF ProcessStep, Holds, WorkerSane
  <2> QED BY <2>1, <2>2
<1> QED BY <1>1, <1>2 DEF ProcessesStep

\* A holder that moves on keeps its run.
LEMMA HolderMoves ==
  ASSUME SaneInv, NEW w \in Workers, Holds(w), NEW to \in Holding,
         NEW beat \in (0 .. RefreshSeconds) \union {None},
         to \notin Executing => beat = None,
         worker' = [worker EXCEPT ![w].pc = to, ![w].beat = beat]
  PROVE  ProcessesStep
<1> DEFINE st == [worker[w] EXCEPT !.pc = to, !.beat = beat]
<1>1. worker[w] \in WorkerState
  BY DEF SaneInv
<1>2. st \in WorkerState /\ st.pc = to /\ st.run = worker[w].run /\ st.beat = beat
  BY <1>1 DEF WorkerState
<1>3. worker' = [worker EXCEPT ![w] = st]
  BY DEF SaneInv
<1> HIDE DEF st
<1> QED BY <1>2, <1>3, OneProcess

LEMMA HolderGoes ==
  ASSUME SaneInv, NEW w \in Workers, NEW to,
         \/ /\ Goto(w, to)
            /\ \/ worker[w].pc \in Executing /\ to \in Executing
               \/ worker[w].pc \in Settling /\ to \in Settling
         \/ LeaveFor(w, to) /\ worker[w].pc \in Executing /\ to \in Settling
  PROVE  ProcessesStep
<1>1. worker[w] \in WorkerState /\ WorkerSane(w) /\ Holds(w) /\ to \in Holding
  BY DEF SaneInv, Holds, Holding
<1>2. None \in (0 .. RefreshSeconds) \union {None}
  OBVIOUS
<1>3. CASE LeaveFor(w, to)
  BY <1>1, <1>2, <1>3, HolderMoves DEF LeaveFor
<1>4. CASE ~LeaveFor(w, to)
  <2> DEFINE st == [worker[w] EXCEPT !.pc = to]
  <2>1. st \in WorkerState /\ st.pc = to /\ st.run = worker[w].run /\ st.beat = worker[w].beat
    BY <1>1 DEF WorkerState
  <2>2. worker' = [worker EXCEPT ![w] = st]
    BY <1>4 DEF Goto, SaneInv
  <2>3. to \notin Executing => worker[w].beat = None
    BY <1>1, <1>4 DEF WorkerSane, Executing, Settling
  <2> HIDE DEF st
  <2> QED BY <1>1, <2>1, <2>2, <2>3, OneProcess
<1> QED BY <1>3, <1>4

LEMMA WorkProcess ==
  ASSUME SaneInv, NEW w \in Workers, Work(w)
  PROVE  ProcessesStep
<1>1. Idle \in WorkerState /\ Idle.pc \notin Holding /\ Idle.beat = None
  BY DEF Idle, WorkerState, Holding, Executing, Settling
<1>2. CASE Release(w)
  BY <1>1, <1>2, OneProcess DEF Release
<1>3. CASE EnterExecution(w)
  <2>1. Holds(w) /\ "begin" \in Holding
    BY <1>3 DEF EnterExecution, Holds, Holding, Executing, Settling
  <2>2. RefreshSeconds \in (0 .. RefreshSeconds) \union {None} /\ "begin" \in Executing
    BY DEF Executing
  <2> QED BY <1>3, <2>1, <2>2, HolderMoves DEF EnterExecution
<1>4. CASE Execute(w)
  BY <1>2, <1>4, HolderGoes DEF Execute, CheckPasses, CheckRaises, Report, BodyRaises, Complete,
                               Executing, Settling
<1>5. CASE Settle(w)
  BY <1>2, <1>5, HolderGoes
     DEF Settle, SettleCancelled, SettleRejected, SettleRetryable, Report, Executing, Settling
<1> QED BY <1>3, <1>4, <1>5 DEF Work

LEMMA FleetProcess ==
  ASSUME SaneInv, [FleetNext]_vars
  PROVE  ProcessesStep
<1>1. CASE UNCHANGED worker
  BY <1>1 DEF SaneInv, WorkerSane, ProcessStep, ProcessesStep, Holds
<1>2. ASSUME NEW r \in Runs, Submit(r) \/ Cancel(r) PROVE ProcessesStep
  BY <1>1, <1>2 DEF Submit, Cancel
<1>3. ASSUME NEW w \in Workers, Claim(w) PROVE ProcessesStep
  <2>1. PICK r \in Runs, locked \in SUBSET Runs :
          /\ ClaimNextRun(r, w, locked)
          /\ worker' = [worker EXCEPT ![w] =
               [Idle EXCEPT !.pc = "claimed", !.run = r, !.attempt = runs[r].attempt_count + 1]]
    BY <1>3 DEF Claim
  <2> DEFINE st == [Idle EXCEPT !.pc = "claimed", !.run = r, !.attempt = runs[r].attempt_count + 1]
  <2>2. runs[r].attempt_count + 1 \in Nat
    BY RowType DEF SaneInv, Row
  <2>3. st \in WorkerState /\ st.pc = "claimed" /\ st.run = r /\ st.beat = None
    BY <2>2 DEF Idle, WorkerState, Holding, Settling
  <2>4. worker' = [worker EXCEPT ![w] = st]
    BY <2>1
  <2> HIDE DEF st
  <2> QED BY <2>1, <2>3, <2>4, OneProcess
<1>4. ASSUME NEW w \in Workers, Heartbeat(w) \/ HeartbeatRaises(w) PROVE ProcessesStep
  <2>1. worker[w].pc \in Executing /\ Holds(w) /\ worker[w] \in WorkerState
    BY <1>4, BeatsHold DEF Heartbeat, HeartbeatRaises, HeartbeatDue, SaneInv
  <2>2. PICK beat \in (0 .. RefreshSeconds) \union {None} : worker' = [worker EXCEPT ![w].beat = beat]
    <3>1. RefreshSeconds \in 0 .. RefreshSeconds
      OBVIOUS
    <3> QED BY <1>4, <3>1 DEF Heartbeat, HeartbeatRaises
  <2>3. [worker[w] EXCEPT !.pc = worker[w].pc] = worker[w]
    BY <2>1 DEF WorkerState
  <2>4. worker' = [worker EXCEPT ![w].pc = worker[w].pc, ![w].beat = beat]
    BY <2>2, <2>3 DEF SaneInv
  <2>5. worker[w].pc \in Holding
    BY <2>1 DEF Holding
  <2> QED BY <2>1, <2>4, <2>5, HolderMoves
<1>5. ASSUME NEW w \in Workers, ExecutionStoreRaises(w) PROVE ProcessesStep
  BY <1>5, HolderGoes DEF ExecutionStoreRaises, Settling
<1>6. ASSUME NEW w \in Workers, Crash(w) \/ Restart(w) PROVE ProcessesStep
  <2>1. PICK st \in WorkerState :
          worker' = [worker EXCEPT ![w] = st] /\ st.pc \notin Holding /\ st.beat = None
    <3>1. [Idle EXCEPT !.pc = "down"] \in WorkerState /\ Idle \in WorkerState
      BY DEF Idle, WorkerState
    <3>2. /\ [Idle EXCEPT !.pc = "down"].pc \notin Holding /\ Idle.pc \notin Holding
          /\ [Idle EXCEPT !.pc = "down"].beat = None /\ Idle.beat = None
      BY DEF Idle, Holding, Executing, Settling
    <3> QED BY <1>6, <3>1, <3>2 DEF Crash, Restart, Release
  <2> QED BY <2>1, OneProcess
<1>7. CASE Time
  <2>1. ASSUME NEW w \in Workers
        PROVE  /\ worker'[w] \in WorkerState
               /\ worker'[w].pc = worker[w].pc /\ worker'[w].run = worker[w].run
               /\ worker[w].beat = None => worker'[w].beat = None
    <3>1. worker[w] \in WorkerState /\ worker[w].beat # 0
      BY <1>7 DEF SaneInv, Time, Punctual, HeartbeatDue
    <3>2. worker'[w] = [worker[w] EXCEPT !.beat = IF @ = None THEN None ELSE @ - 1]
      BY <1>7 DEF Time
    <3>3. (IF worker[w].beat = None THEN None ELSE worker[w].beat - 1)
            \in (0 .. RefreshSeconds) \union {None}
      <4> DEFINE b == worker[w].beat
      <4>1. b \in (0 .. RefreshSeconds) \union {None} /\ b # 0 /\ RefreshSeconds \in Nat
        BY <3>1 DEF WorkerState
      <4> HIDE DEF b
      <4>2. (IF b = None THEN None ELSE b - 1) \in (0 .. RefreshSeconds) \union {None}
        BY <4>1
      <4> QED BY <4>2 DEF b
    <3> QED BY <3>1, <3>2, <3>3 DEF WorkerState
  <2>2. worker' \in [Workers -> WorkerState]
    BY <1>7, <2>1 DEF Time
  <2> QED BY <2>1, <2>2 DEF ProcessStep, ProcessesStep, SaneInv, WorkerSane, Holds
<1>8. CASE UNCHANGED vars
  BY <1>1, <1>8 DEF vars
<1>9. ASSUME NEW w \in Workers, Work(w) PROVE ProcessesStep
  BY <1>9, WorkProcess
<1> QED BY <1>2, <1>3, <1>4, <1>5, <1>6, <1>7, <1>8, <1>9 DEF FleetNext

LEMMA SaneStep ==
  ASSUME SaneInv, [FleetNext]_vars
  PROVE  SaneInv'
<1>1. [StoreCall]_storeVars /\ StoreInv
  BY FleetStepIsCall DEF SaneInv
<1>2. StoreInv' /\ CountersOK'
  BY <1>1, StoreCallInv, CountersStep DEF SaneInv
<1>3. ASSUME NEW r \in Runs
      PROVE  /\ runs[r].attempt_count \in Nat /\ runs'[r].attempt_count \in Nat
             /\ RowStep(runs[r], runs'[r])
  BY <1>1, <1>2, StoreCallRow, RowType DEF StoreInv, Row
<1>4. ASSUME NEW r \in Runs, runs'[r].status = "completed" PROVE runs'[r].attempt_count > 0
  BY <1>3, <1>4 DEF RowStep, SaneInv
<1>5. worker' \in [Workers -> WorkerState] /\ \A w \in Workers : ProcessStep(w)
  BY FleetProcess DEF ProcessesStep
<1>6. ASSUME NEW w \in Workers PROVE WorkerSane(w)'
  <2>1. ASSUME Holds(w)' PROVE worker'[w].run \in Runs /\ runs'[worker'[w].run].attempt_count > 0
    <3>1. CASE Holds(w) /\ worker'[w].run = worker[w].run
      <4>1. worker[w].run \in Runs /\ runs[worker[w].run].attempt_count > 0
        BY <3>1 DEF SaneInv, WorkerSane, RunOf
      <4> QED BY <1>3, <3>1, <4>1 DEF RowStep
    <3>2. ASSUME NEW r \in Runs, NEW locked, ClaimNextRun(r, w, locked), worker'[w].run = r
          PROVE  worker'[w].run \in Runs /\ runs'[worker'[w].run].attempt_count > 0
      BY <1>1, <1>3, <3>2, ClaimNextRunRow
    <3> QED BY <1>5, <2>1, <3>1, <3>2 DEF ProcessStep
  <2> QED BY <1>5, <2>1 DEF WorkerSane, ProcessStep, RunOf
<1> QED BY <1>2, <1>4, <1>5, <1>6 DEF SaneInv

LEMMA SaneInit == FleetInit => SaneInv
<1> SUFFICES ASSUME FleetInit PROVE SaneInv
  OBVIOUS
<1>1. StoreInv /\ CountersOK /\ worker \in [Workers -> WorkerState]
  BY FleetInitInv DEF FleetInv
<1>2. ASSUME NEW r \in Runs PROVE runs[r].status # "completed"
  BY DEF FleetInit, StoreInit, NoRow
<1>3. ASSUME NEW w \in Workers PROVE WorkerSane(w)
  BY DEF FleetInit, Idle, WorkerSane, Holds, Holding, Executing, Settling
<1> QED BY <1>1, <1>2, <1>3 DEF SaneInv

LEMMA SaneInvariant == FleetSpec => []SaneInv
  BY SaneInit, SaneStep, PTL DEF FleetSpec

-----------------------------------------------------------------------------
(* One worker, one run *)

\* Two workers do not hold the same run.
LEMMA HoldersDiffer ==
  ASSUME FleetInv, NEW v \in Workers, NEW w \in Workers, v # w, Holds(v), Holds(w)
  PROVE  worker[v].run # worker[w].run
  BY DEF FleetInv, WorkerOK, RunOf

\* A step of w that writes at most the run w holds leaves the other workers and
\* the other runs as right as they were.
LEMMA HeldStep ==
  ASSUME FleetInv, NEW w \in Workers, Holds(w), StoreInv', CountersOK',
         NEW st \in WorkerState, worker' = [worker EXCEPT ![w] = st],
         \A q \in Runs : q # worker[w].run => runs'[q] = runs[q],
         WorkerOK(w)', RunOK(runs'[worker[w].run])
  PROVE  FleetInv'
<1>1. worker' \in [Workers -> WorkerState]
  BY DEF FleetInv
<1>2. ASSUME NEW v \in Workers PROVE WorkerOK(v)'
  <2>1. CASE v = w
    BY <2>1
  <2>2. CASE v # w
    <3>1. worker'[v] = worker[v] /\ WorkerOK(v)
      BY <2>2 DEF FleetInv
    <3>2. CASE Holds(v)
      <4>1. worker[v].run # worker[w].run /\ worker[v].run \in Runs
        BY <2>2, <3>1, <3>2, HoldersDiffer DEF WorkerOK
      <4>2. runs'[worker[v].run] = runs[worker[v].run]
        BY <4>1
      <4> QED BY <3>1, <4>2 DEF WorkerOK, Holds, RunOf
    <3>3. CASE ~Holds(v)
      BY <3>1, <3>3 DEF WorkerOK, Holds, RunOf, Holding, Executing, Settling
    <3> QED BY <3>2, <3>3
  <2> QED BY <2>1, <2>2
<1>3. ASSUME NEW r \in Runs PROVE RunOK(runs'[r])
  <2>1. CASE r = worker[w].run
    BY <2>1
  <2>2. CASE r # worker[w].run
    BY <2>2 DEF FleetInv
  <2> QED BY <2>1, <2>2
<1> QED BY <1>1, <1>2, <1>3 DEF FleetInv

\* w lets go of its run, having written a decided or a queued row.
LEMMA ReleaseStep ==
  ASSUME FleetInv, NEW w \in Workers, Holds(w), StoreInv', CountersOK', Release(w),
         \A q \in Runs : q # worker[w].run => runs'[q] = runs[q],
         RunOK(runs'[worker[w].run])
  PROVE  FleetInv'
<1>1. Idle \in WorkerState /\ Idle.pc = "idle" /\ Idle.beat = None
  BY DEF Idle, WorkerState
<1>2. worker' = [worker EXCEPT ![w] = Idle]
  BY DEF Release
<1>3. worker'[w] = Idle
  BY <1>2 DEF FleetInv
<1>4. WorkerOK(w)'
  BY <1>1, <1>3 DEF WorkerOK, Holds, Holding, Executing, Settling
<1> QED BY <1>1, <1>2, <1>4, HeldStep

\* w moves on within, or without, the heartbeat context; the rows stay.
LEMMA GotoStep ==
  ASSUME FleetInv, NEW w \in Workers, NEW to, StoreInv', CountersOK',
         Goto(w, to), runs' = runs,
         \/ worker[w].pc \in Executing /\ to \in Executing
         \/ worker[w].pc \in Settling /\ to \in Settling \ {"cancelled"}
  PROVE  FleetInv'
<1> DEFINE st == [worker[w] EXCEPT !.pc = to]
<1>1. Holds(w) /\ WorkerOK(w) /\ worker[w] \in WorkerState
  BY DEF Holds, Holding, FleetInv
<1>2. /\ st \in WorkerState
      /\ st.pc = to /\ st.run = worker[w].run /\ st.attempt = worker[w].attempt
      /\ st.beat = worker[w].beat
  BY <1>1 DEF WorkerState, Holding
<1>3. worker' = [worker EXCEPT ![w] = st]
  BY DEF Goto
<1>4. worker'[w] = st
  BY <1>3 DEF FleetInv
<1> HIDE DEF st
<1>5. to \in Holding /\ worker[w].pc \in Holding
  BY DEF Holding
<1>6. WorkerOK(w)'
  BY <1>1, <1>2, <1>4, <1>5 DEF WorkerOK, Holds, RunOf, Executing, Settling
<1>7. worker[w].run \in Runs
  BY <1>1 DEF WorkerOK
<1>8. RunOK(runs'[worker[w].run])
  BY <1>7 DEF FleetInv
<1> QED BY <1>1, <1>2, <1>3, <1>6, <1>8, HeldStep

\* w leaves the heartbeat context to settle an outcome; the rows stay.
LEMMA LeaveStep ==
  ASSUME FleetInv, NEW w \in Workers, NEW to \in Settling, StoreInv', CountersOK',
         LeaveFor(w, to), runs' = runs, worker[w].pc \in Executing,
         to = "cancelled" => RunOf(w).status = "cancelling"
  PROVE  FleetInv'
<1> DEFINE st == [worker[w] EXCEPT !.pc = to, !.beat = None]
<1>1. Holds(w) /\ WorkerOK(w) /\ worker[w] \in WorkerState
  BY DEF Holds, Holding, FleetInv
<1>2. /\ st \in WorkerState
      /\ st.pc = to /\ st.run = worker[w].run /\ st.attempt = worker[w].attempt
      /\ st.beat = None
  BY <1>1 DEF WorkerState, Holding
<1>3. worker' = [worker EXCEPT ![w] = st]
  BY DEF LeaveFor, FleetInv
<1>4. worker'[w] = st
  BY <1>3 DEF FleetInv
<1> HIDE DEF st
<1>5. to \in Holding /\ worker[w].pc \in Holding /\ to \notin Executing
  BY DEF Holding, Executing, Settling
<1>6. WorkerOK(w)'
  BY <1>1, <1>2, <1>4, <1>5 DEF WorkerOK, Holds, RunOf
<1>7. worker[w].run \in Runs
  BY <1>1 DEF WorkerOK
<1>8. RunOK(runs'[worker[w].run])
  BY <1>7 DEF FleetInv
<1> QED BY <1>1, <1>2, <1>3, <1>6, <1>8, HeldStep

-----------------------------------------------------------------------------
(* The steps of a worker *)

\* A worker writes the outcome of a run it holds.
LEMMA FinishHeld ==
  ASSUME FleetInv, NEW w \in Workers, Holds(w), CountersOK', Release(w),
         NEW status, NEW event, FinishRun(worker[w].run, status, event),
         <<status, event>> \in {<<"completed", "run.completed">>, <<"failed", "run.failed">>,
                                <<"cancelled", "run.cancelled">>}
  PROVE  FleetInv'
<1>1. StoreInv /\ worker[w].run \in Runs
  BY DEF FleetInv, WorkerOK
<1>2. StoreInv'
  BY <1>1, FinishRunInv
<1>3. status \in Terminal
  BY DEF Terminal
<1>4. /\ runs'[worker[w].run].status = status
      /\ runs'[worker[w].run].completed
      /\ \A q \in Runs : q # worker[w].run => runs'[q] = runs[q]
  BY <1>1, FinishRunRow
<1>5. RunOK(runs'[worker[w].run])
  BY <1>3, <1>4 DEF RunOK, Terminal
<1> QED BY <1>2, <1>4, <1>5, ReleaseStep

\* A worker gives a run it holds back to the queue: it has attempts left.
LEMMA RequeueHeld ==
  ASSUME FleetInv, NEW w \in Workers, Holds(w), CountersOK', Release(w),
         NEW delay \in 0 .. MaxDelay, RequeueRun(worker[w].run, delay),
         worker[w].attempt < RunOf(w).max_attempts
  PROVE  FleetInv'
<1> DEFINE r == worker[w].run
<1>1. /\ StoreInv /\ r \in Runs /\ RunOK(runs[r])
      /\ runs[r].status \in Active
      /\ runs[r].attempt_count < runs[r].max_attempts
  BY DEF FleetInv, WorkerOK, RunOf
<1>2. StoreInv'
  BY <1>1, RequeueRunInv
<1>3. /\ runs'[r].status = "queued"
      /\ Same(runs[r], runs'[r], {"attempt_count", "max_attempts", "cancel_requested", "completed"})
      /\ \A q \in Runs : q # r => runs'[q] = runs[q]
  BY <1>1, RequeueRunRow DEF Same
<1>4. ~runs'[r].completed
  BY <1>1, <1>3 DEF RunOK, Same, Active, Terminal
<1>5. runs'[r].attempt_count < runs'[r].max_attempts
  BY <1>1, <1>3 DEF Same
<1>6. RunOK(runs'[r])
  BY <1>3, <1>4, <1>5 DEF RunOK, Terminal
<1> QED BY <1>2, <1>3, <1>6, ReleaseStep

\* A refresh of a held lease, whatever the worker does next.
LEMMA RefreshHeld ==
  ASSUME FleetInv, NEW w \in Workers, Holds(w), CountersOK',
         RefreshLease(worker[w].run, w),
         NEW to \in Executing,
         worker' = [worker EXCEPT ![w].pc = to, ![w].beat = RefreshSeconds]
  PROVE  FleetInv'
<1> DEFINE r == worker[w].run
           st == [worker[w] EXCEPT !.pc = to, !.beat = RefreshSeconds]
<1>1. WorkerOK(w) /\ worker[w] \in WorkerState /\ StoreInv /\ r \in Runs /\ RunOK(runs[r])
  BY DEF FleetInv, WorkerOK
<1>2. /\ st \in WorkerState
      /\ st.pc = to /\ st.run = r /\ st.attempt = worker[w].attempt
      /\ st.beat = RefreshSeconds
  <2>1. to \in Holding /\ RefreshSeconds \in 0 .. RefreshSeconds
    BY DEF Holding
  <2> QED BY <1>1, <2>1 DEF WorkerState
<1>3. worker' = [worker EXCEPT ![w] = st]
  BY DEF FleetInv
<1>4. worker'[w] = st
  BY <1>3 DEF FleetInv
<1>5. StoreInv'
  BY <1>1, RefreshLeaseInv
<1>6. /\ runs'[r].lease = LeaseSeconds
      /\ Same(runs[r], runs'[r], Fields \ {"lease"})
      /\ \A q \in Runs : q # r => runs'[q] = runs[q]
  BY <1>1, RefreshLeaseRow
<1>7. /\ runs'[r].status = runs[r].status
      /\ runs'[r].worker_id = runs[r].worker_id
      /\ runs'[r].attempt_count = runs[r].attempt_count
      /\ runs'[r].max_attempts = runs[r].max_attempts
      /\ runs'[r].cancel_requested = runs[r].cancel_requested
      /\ runs'[r].completed = runs[r].completed
  BY <1>6 DEF Same, Fields
<1> HIDE DEF st
<1>8. WorkerOK(w)'
  <2>1. to \in Holding /\ to # "cancelled"
    BY DEF Holding, Executing
  <2>2. /\ worker'[w] \in WorkerState /\ worker'[w].pc = to /\ worker'[w].run = r
        /\ worker'[w].attempt = worker[w].attempt /\ worker'[w].beat = RefreshSeconds
    BY <1>2, <1>4
  <2>3. /\ runs[r].status \in Active /\ runs[r].worker_id = w
        /\ runs[r].attempt_count = worker[w].attempt
    BY <1>1 DEF WorkerOK, RunOf
  <2>4. /\ RunOf(w)'.status \in Active /\ RunOf(w)'.worker_id = w
        /\ RunOf(w)'.attempt_count = worker'[w].attempt
        /\ RunOf(w)'.lease = LeaseSeconds
    BY <1>6, <1>7, <2>2, <2>3 DEF RunOf
  <2>5. /\ LeaseSeconds \in 1 .. LeaseSeconds /\ RefreshSeconds < LeaseSeconds
        /\ RefreshSeconds \in 0 .. RefreshSeconds
    OBVIOUS
  <2> HIDE DEF r
  <2> QED BY <1>1, <2>1, <2>2, <2>4, <2>5 DEF WorkerOK, Holds
<1>9. RunOK(runs'[r])
  BY <1>1, <1>7 DEF RunOK
<1> QED BY <1>2, <1>3, <1>5, <1>6, <1>8, <1>9, HeldStep

\* A report goes to the log only.
LEMMA ReportHeld ==
  ASSUME FleetInv, NEW w \in Workers, NEW from, NEW to, NEW type \in ReportEvents,
         CountersOK', Report(w, from, type, to),
         \/ from \in Executing /\ to \in Executing
         \/ from \in Settling /\ to \in Settling \ {"cancelled"}
  PROVE  FleetInv'
<1>1. worker[w].pc = from /\ Holds(w)
  BY DEF Report, Holds, Holding
<1>2. StoreInv /\ worker[w].run \in Runs
  BY <1>1 DEF FleetInv, WorkerOK
<1>3. StoreInv'
  BY <1>2, AppendEventInv DEF Report
<1>4. runs' = runs /\ Goto(w, to)
  BY DEF Report, AppendEvent
<1> QED BY <1>1, <1>3, <1>4, GotoStep

LEMMA EnterExecutionInv ==
  ASSUME FleetInv, NEW w \in Workers, CountersOK', EnterExecution(w)
  PROVE  FleetInv'
<1>1. Holds(w) /\ WorkerOK(w)
  BY DEF EnterExecution, Holds, Holding, Settling, FleetInv
<1>2. Refreshable(worker[w].run, w)
  BY <1>1 DEF Refreshable, WorkerOK, RunOf
<1>3. RefreshLease(worker[w].run, w)
  BY <1>2 DEF EnterExecution, RefreshIfOurs
<1>4. "begin" \in Executing
  BY DEF Executing
<1> QED BY <1>1, <1>3, <1>4, RefreshHeld DEF EnterExecution

LEMMA ExecuteInv ==
  ASSUME FleetInv, NEW w \in Workers, CountersOK', Execute(w)
  PROVE  FleetInv'
<1>1. StoreInv /\ (UNCHANGED storeVars => StoreInv')
  BY StoreUnchangedInv DEF FleetInv
<1>2. ASSUME NEW from \in Executing, NEW to \in Executing, CheckPasses(w, from, to)
      PROVE  FleetInv'
  BY <1>1, <1>2, GotoStep DEF CheckPasses, storeVars
<1>3. CASE Report(w, "begun", "workflow.started", "body")
  BY <1>3, ReportHeld DEF ReportEvents, Executing
<1>4. CASE Report(w, "ended", "workflow.completed", "complete")
  BY <1>4, ReportHeld DEF ReportEvents, Executing
<1>5. CASE CheckRaises(w)
  <2>1. worker[w].pc \in Executing /\ runs' = runs /\ StoreInv'
    BY <1>1, <1>5 DEF CheckRaises, Executing, storeVars
  <2>2. CASE IsCancelling(w) /\ LeaveFor(w, "cancelled")
    BY <2>1, <2>2, LeaveStep DEF IsCancelling, Settling
  <2>3. CASE LeaveFor(w, "timed_out")
    BY <2>1, <2>3, LeaveStep DEF Settling
  <2> QED BY <1>5, <2>2, <2>3 DEF CheckRaises
<1>6. CASE BodyRaises(w)
  <2>1. worker[w].pc \in Executing /\ runs' = runs /\ StoreInv'
    BY <1>1, <1>6 DEF BodyRaises, Executing, storeVars
  <2>2. CASE LeaveFor(w, "errored")
    BY <2>1, <2>2, LeaveStep DEF Settling
  <2>3. CASE LeaveFor(w, "rejected")
    BY <2>1, <2>3, LeaveStep DEF Settling
  <2> QED BY <1>6, <2>2, <2>3 DEF BodyRaises
<1>7. CASE Complete(w)
  BY <1>7, FinishHeld DEF Complete, MarkRunCompleted, Holds, Holding, Executing
<1> QED BY <1>2, <1>3, <1>4, <1>5, <1>6, <1>7 DEF Execute, Executing

LEMMA SettleInv ==
  ASSUME FleetInv, NEW w \in Workers, CountersOK', Settle(w)
  PROVE  FleetInv'
<1>1. CASE SettleCancelled(w)
  BY <1>1, FinishHeld DEF SettleCancelled, MarkRunCancelled, Holds, Holding, Settling
<1>2. CASE SettleRejected(w)
  BY <1>2, FinishHeld DEF SettleRejected, MarkRunFailed, Holds, Holding, Settling
<1>3. CASE Report(w, "timed_out", "run.timeout_exceeded", "settle")
  BY <1>3, ReportHeld DEF ReportEvents, Settling
<1>4. CASE Report(w, "errored", "run.execution_failed", "settle")
  BY <1>4, ReportHeld DEF ReportEvents, Settling
<1>5. CASE SettleRetryable(w)
  <2>1. Holds(w) /\ Release(w)
    BY <1>5 DEF SettleRetryable, Holds, Holding, Settling
  <2>2. CASE worker[w].attempt < RunOf(w).max_attempts
    <3> DEFINE delay == RetryDelay(worker[w].run, worker[w].attempt)
    <3>1. RequeueRun(worker[w].run, delay)
      BY <1>5, <2>2 DEF SettleRetryable
    <3>2. worker[w].attempt \in 0 .. MaxAttempts
      <4>1. /\ worker[w].run \in Runs
            /\ worker[w].attempt = RunOf(w).attempt_count
            /\ RunOf(w).attempt_count \in Nat
            /\ RunOf(w).max_attempts \in 0 .. MaxAttempts
        BY <2>1, RowType DEF FleetInv, WorkerOK, RunOf, Row
      <4> QED BY <2>2, <4>1
    <3>3. delay \in 0 .. MaxDelay
      BY <2>1, <3>2, RetryDelayType DEF FleetInv, WorkerOK
    <3> QED BY <2>1, <2>2, <3>1, <3>3, RequeueHeld
  <2>3. CASE ~(worker[w].attempt < RunOf(w).max_attempts)
    BY <1>5, <2>1, <2>3, FinishHeld DEF SettleRetryable, MarkRunFailed
  <2> QED BY <2>2, <2>3
<1> QED BY <1>1, <1>2, <1>3, <1>4, <1>5 DEF Settle

-----------------------------------------------------------------------------
(* The steps around a worker *)

\* A step that leaves the workers alone and, of each row somebody holds, all
\* that its holder relies on.
LEMMA OutsideStep ==
  ASSUME FleetInv, StoreInv', CountersOK', worker' = worker,
         NEW r \in Runs, \A q \in Runs : q # r => runs'[q] = runs[q],
         RunOK(runs'[r]),
         runs[r].status \in Active =>
           /\ runs'[r].status \in Active
           /\ runs[r].status = "cancelling" => runs'[r].status = "cancelling"
           /\ Same(runs[r], runs'[r], {"worker_id", "attempt_count", "lease"})
  PROVE  FleetInv'
<1>1. ASSUME NEW v \in Workers PROVE WorkerOK(v)'
  <2>1. WorkerOK(v)
    BY DEF FleetInv
  <2>2. CASE ~Holds(v)
    BY <2>1, <2>2 DEF WorkerOK, Holds, Holding, Executing, Settling
  <2>3. CASE Holds(v) /\ worker[v].run # r
    <3>1. runs'[worker[v].run] = runs[worker[v].run]
      BY <2>1, <2>3 DEF WorkerOK
    <3> QED BY <2>1, <3>1 DEF WorkerOK, Holds, RunOf
  <2>4. CASE Holds(v) /\ worker[v].run = r
    <3>1. /\ runs[r].status \in Active /\ runs'[r].status \in Active
          /\ runs[r].status = "cancelling" => runs'[r].status = "cancelling"
          /\ runs'[r].worker_id = runs[r].worker_id
          /\ runs'[r].attempt_count = runs[r].attempt_count
          /\ runs'[r].lease = runs[r].lease
      BY <2>1, <2>4 DEF WorkerOK, RunOf, Same
    <3> QED BY <2>1, <2>4, <3>1 DEF WorkerOK, Holds, RunOf
  <2> QED BY <2>2, <2>3, <2>4
<1>2. ASSUME NEW q \in Runs PROVE RunOK(runs'[q])
  <2>1. CASE q = r
    BY <2>1
  <2>2. CASE q # r
    BY <2>2 DEF FleetInv
  <2> QED BY <2>1, <2>2
<1> QED BY <1>1, <1>2 DEF FleetInv

LEMMA SubmitInv ==
  ASSUME FleetInv, NEW r \in Runs, CountersOK', Submit(r)
  PROVE  FleetInv'
<1>1. PICK attempts \in 1 .. MaxAttempts, delay \in 0 .. MaxDelay : CreateRun(r, attempts, delay)
  BY DEF Submit
<1>2. StoreInv /\ StoreInv'
  BY <1>1, CreateRunInv DEF FleetInv
<1>3. /\ runs[r].status = "absent"
      /\ runs'[r].status = "queued"
      /\ runs'[r].max_attempts = attempts
      /\ runs'[r].attempt_count = 0
      /\ ~runs'[r].cancel_requested
      /\ ~runs'[r].completed
      /\ \A q \in Runs : q # r => runs'[q] = runs[q]
  BY <1>1, <1>2, CreateRunRow
<1>4. RunOK(runs'[r])
  BY <1>3 DEF RunOK, Terminal
<1>5. runs[r].status \notin Active /\ worker' = worker
  BY <1>3 DEF Active, Submit
<1> QED BY <1>2, <1>3, <1>4, <1>5, OutsideStep

LEMMA CancelInv ==
  ASSUME FleetInv, NEW r \in Runs, CountersOK', Cancel(r)
  PROVE  FleetInv'
<1>1. CancelRun(r) /\ worker' = worker /\ StoreInv /\ RunOK(runs[r])
  BY DEF Cancel, FleetInv
<1>2. StoreInv'
  BY <1>1, CancelRunInv
<1>3. /\ runs'[r].cancel_requested
      /\ Same(runs[r], runs'[r], {"attempt_count", "max_attempts"})
      /\ \A q \in Runs : q # r => runs'[q] = runs[q]
  BY <1>1, CancelRunRow DEF Same
<1>4. CASE runs[r].status = "queued"
  <2>1. runs'[r].status = "cancelled" /\ runs'[r].completed
    BY <1>1, <1>4, CancelRunRow DEF Active
  <2>2. RunOK(runs'[r]) /\ runs[r].status \notin Active
    BY <1>4, <2>1 DEF RunOK, Terminal, Active
  <2> QED BY <1>1, <1>2, <1>3, <2>2, OutsideStep
<1>5. CASE runs[r].status # "queued"
  <2>1. /\ runs[r].status \in Active
        /\ runs'[r].status = "cancelling"
        /\ Same(runs[r], runs'[r], {"worker_id", "lease", "completed"})
    BY <1>1, <1>5, CancelRunRow
  <2>2. ~runs'[r].completed
    BY <1>1, <2>1 DEF RunOK, Same, Active, Terminal
  <2>3. RunOK(runs'[r])
    BY <1>3, <2>1, <2>2 DEF RunOK, Terminal
  <2>4. Same(runs[r], runs'[r], {"worker_id", "attempt_count", "lease"})
    BY <1>3, <2>1 DEF Same
  <2>5. runs'[r].status \in Active
    BY <2>1 DEF Active
  <2> QED BY <1>1, <1>2, <1>3, <2>1, <2>3, <2>4, <2>5, OutsideStep
<1> QED BY <1>4, <1>5

\* Nobody holds a run that can be claimed.
LEMMA ClaimInv ==
  ASSUME FleetInv, NEW w \in Workers, CountersOK', Claim(w)
  PROVE  FleetInv'
<1>1. PICK r \in Runs, locked \in SUBSET Runs :
        /\ ClaimNextRun(r, w, locked)
        /\ worker' = [worker EXCEPT ![w] =
             [Idle EXCEPT !.pc = "claimed", !.run = r, !.attempt = runs[r].attempt_count + 1]]
  BY DEF Claim
<1> DEFINE st == [Idle EXCEPT !.pc = "claimed", !.run = r, !.attempt = runs[r].attempt_count + 1]
<1>2. StoreInv /\ StoreInv' /\ RunOK(runs[r]) /\ runs[r] \in Row
  <2>1. StoreInv /\ RunOK(runs[r])
    BY DEF FleetInv
  <2>2. StoreInv'
    BY <1>1, <2>1, ClaimNextRunInv
  <2>3. runs[r] \in Row
    BY <2>1, RowType DEF StoreInv, StoreTypeOK
  <2> QED BY <2>1, <2>2, <2>3
<1>3. /\ runs[r].status = "queued" \/ (runs[r].status \in Active /\ runs[r].lease = 0)
      /\ runs'[r].status = IF runs[r].cancel_requested THEN "cancelling" ELSE "running"
      /\ runs'[r].worker_id = w
      /\ runs'[r].attempt_count = runs[r].attempt_count + 1
      /\ runs'[r].lease = LeaseSeconds
      /\ Same(runs[r], runs'[r], {"max_attempts", "cancel_requested", "completed"})
      /\ \A q \in Runs : q # r => runs'[q] = runs[q]
  BY <1>1, <1>2, ClaimNextRunRow
<1>4. runs[r].attempt_count \in Nat
  BY <1>2 DEF Row
<1>5. /\ st \in WorkerState
      /\ st.pc = "claimed" /\ st.run = r /\ st.attempt = runs[r].attempt_count + 1
      /\ st.beat = None
  <2>1. Idle \in WorkerState
    BY DEF Idle, WorkerState
  <2>2. "claimed" \in Holding /\ runs[r].attempt_count + 1 \in Nat
    BY <1>4 DEF Holding, Settling
  <2>3. st \in WorkerState
    BY <2>1, <2>2 DEF WorkerState
  <2>4. /\ st.pc = "claimed" /\ st.run = r /\ st.attempt = runs[r].attempt_count + 1
        /\ st.beat = None
    BY DEF Idle
  <2> QED BY <2>3, <2>4
<1>6. worker' = [worker EXCEPT ![w] = st] /\ worker'[w] = st
  BY <1>1 DEF FleetInv
<1> HIDE DEF st
<1>7. runs'[r].status \in Active
  BY <1>3 DEF Active
<1>8. WorkerOK(w)'
  BY <1>3, <1>5, <1>6, <1>7 DEF WorkerOK, Holds, RunOf, Holding, Executing, Settling
<1>9. ASSUME NEW v \in Workers, v # w PROVE WorkerOK(v)'
  <2>1. WorkerOK(v) /\ worker'[v] = worker[v]
    BY <1>6, <1>9 DEF FleetInv
  <2>2. CASE Holds(v)
    <3>1. worker[v].run # r
      BY <1>3, <2>1, <2>2 DEF WorkerOK, RunOf, Active
    <3>2. runs'[worker[v].run] = runs[worker[v].run]
      BY <1>3, <2>1, <2>2, <3>1 DEF WorkerOK
    <3> QED BY <2>1, <3>2 DEF WorkerOK, Holds, RunOf
  <2>3. CASE ~Holds(v)
    BY <2>1, <2>3 DEF WorkerOK, Holds, Holding, Executing, Settling
  <2> QED BY <2>2, <2>3
<1>10. RunOK(runs'[r])
  <2>1. ~runs'[r].completed
    BY <1>2, <1>3 DEF RunOK, Same, Active, Terminal
  <2>2. runs'[r].status = "cancelling" => runs'[r].cancel_requested
    BY <1>3 DEF Same
  <2> QED BY <1>7, <2>1, <2>2 DEF RunOK, Active, Terminal
<1>11. ASSUME NEW q \in Runs PROVE RunOK(runs'[q])
  BY <1>3, <1>10 DEF FleetInv
<1>12. worker' \in [Workers -> WorkerState]
  BY <1>5, <1>6 DEF FleetInv
<1> QED BY <1>2, <1>8, <1>9, <1>11, <1>12 DEF FleetInv

LEMMA HeartbeatInv ==
  ASSUME FleetInv, NEW w \in Workers, CountersOK', Heartbeat(w)
  PROVE  FleetInv'
<1>1. WorkerOK(w) /\ worker[w] \in WorkerState /\ worker[w].beat = 0
  BY DEF FleetInv, Heartbeat, HeartbeatDue
<1>2. worker[w].pc \in Executing
  BY <1>1 DEF WorkerOK
<1>3. Holds(w)
  BY <1>2 DEF Holds, Holding
<1>4. Refreshable(worker[w].run, w)
  BY <1>1, <1>3 DEF Refreshable, WorkerOK, RunOf
<1>5. /\ RefreshLease(worker[w].run, w)
      /\ worker' = [worker EXCEPT ![w].beat = RefreshSeconds]
  BY <1>4 DEF Heartbeat
<1>6. worker' = [worker EXCEPT ![w].pc = worker[w].pc, ![w].beat = RefreshSeconds]
  <2>1. [worker[w] EXCEPT !.pc = worker[w].pc] = worker[w]
    BY <1>1 DEF WorkerState
  <2> QED BY <1>5, <2>1 DEF FleetInv
<1> QED BY <1>2, <1>3, <1>5, <1>6, RefreshHeld

\* A process that dies, or comes back, holds nothing.
LEMMA ReplaceInv ==
  ASSUME FleetInv, NEW w \in Workers, CountersOK', UNCHANGED storeVars,
         NEW st \in WorkerState, worker' = [worker EXCEPT ![w] = st],
         st.pc \in {"idle", "down"}, st.beat = None
  PROVE  FleetInv'
<1>1. StoreInv' /\ runs' = runs
  BY StoreUnchangedInv DEF FleetInv, storeVars
<1>2. worker' \in [Workers -> WorkerState] /\ worker'[w] = st
  BY DEF FleetInv
<1>3. ASSUME NEW v \in Workers PROVE WorkerOK(v)'
  <2>1. CASE v = w
    BY <1>2, <2>1 DEF WorkerOK, Holds, Holding, Executing, Settling
  <2>2. CASE v # w
    <3>1. worker'[v] = worker[v] /\ WorkerOK(v)
      BY <2>2 DEF FleetInv
    <3> QED BY <1>1, <3>1 DEF WorkerOK, Holds, RunOf
  <2> QED BY <2>1, <2>2
<1> QED BY <1>1, <1>2, <1>3 DEF FleetInv

LEMMA CrashInv ==
  ASSUME FleetInv, NEW w \in Workers, CountersOK', Crash(w)
  PROVE  FleetInv'
<1> DEFINE st == [Idle EXCEPT !.pc = "down"]
<1>1. st \in WorkerState /\ st.pc = "down" /\ st.beat = None
  BY DEF Idle, WorkerState
<1>2. worker' = [worker EXCEPT ![w] = st] /\ UNCHANGED storeVars
  BY DEF Crash, storeVars
<1> QED BY <1>1, <1>2, ReplaceInv

LEMMA RestartInv ==
  ASSUME FleetInv, NEW w \in Workers, CountersOK', Restart(w)
  PROVE  FleetInv'
<1>1. Idle \in WorkerState /\ Idle.pc = "idle" /\ Idle.beat = None
  BY DEF Idle, WorkerState
<1>2. worker' = [worker EXCEPT ![w] = Idle] /\ UNCHANGED storeVars
  BY DEF Restart, Release, storeVars
<1> QED BY <1>1, <1>2, ReplaceInv

\* A tick takes one from the lease and from the time to the next beat; it does
\* not come while a beat is due or a settling worker's lease is at its last tick.
LEMMA TimeInv ==
  ASSUME FleetInv, CountersOK', Time
  PROVE  FleetInv'
<1>1. StoreInv /\ StoreInv' /\ Tick
  BY TickInv DEF Time, FleetInv
<1>2. ASSUME NEW r \in Runs
      PROVE  /\ runs'[r].lease = IF runs[r].lease = None THEN None ELSE Sooner(runs[r].lease)
             /\ runs'[r].status = runs[r].status
             /\ runs'[r].attempt_count = runs[r].attempt_count
             /\ runs'[r].max_attempts = runs[r].max_attempts
             /\ runs'[r].worker_id = runs[r].worker_id
             /\ runs'[r].cancel_requested = runs[r].cancel_requested
             /\ runs'[r].completed = runs[r].completed
  BY <1>1, TickRow DEF Same, Fields
<1>3. ASSUME NEW r \in Runs PROVE RunOK(runs'[r])
  BY <1>2 DEF FleetInv, RunOK
<1>4. ASSUME NEW w \in Workers PROVE WorkerOK(w)' /\ worker'[w] \in WorkerState
  <2>1. WorkerOK(w) /\ worker[w] \in WorkerState /\ Punctual(w)
    BY DEF FleetInv, Time
  <2>2. worker'[w] = [worker[w] EXCEPT !.beat = IF @ = None THEN None ELSE @ - 1]
    BY DEF Time
  <2>3. /\ worker'[w].pc = worker[w].pc
        /\ worker'[w].run = worker[w].run
        /\ worker'[w].attempt = worker[w].attempt
        /\ worker'[w].beat = IF worker[w].beat = None THEN None ELSE worker[w].beat - 1
    BY <2>1, <2>2 DEF WorkerState
  <2>4. worker'[w].beat \in (0 .. RefreshSeconds) \union {None}
    BY <2>1, <2>3 DEF Punctual, HeartbeatDue, WorkerState
  <2>5. worker'[w] \in WorkerState
    BY <2>1, <2>2, <2>4 DEF WorkerState
  <2>6. CASE ~Holds(w)
    BY <2>1, <2>3, <2>5, <2>6 DEF WorkerOK, Holds, Holding, Executing, Settling
  <2>7. CASE worker[w].pc \in Executing
    <3>1. /\ worker[w].run \in Runs
          /\ worker[w].beat \in 1 .. RefreshSeconds
          /\ RunOf(w).lease \in 1 .. LeaseSeconds
          /\ worker[w].beat < RunOf(w).lease
      BY <2>1, <2>7 DEF WorkerOK, Holds, Holding, Punctual, HeartbeatDue
    <3>2. RunOf(w)'.lease = RunOf(w).lease - 1 /\ RunOf(w)'.lease \in 1 .. LeaseSeconds
      BY <1>2, <2>3, <3>1 DEF RunOf, Sooner
    <3>3. worker'[w].beat = worker[w].beat - 1
      BY <2>3, <3>1
    <3>4. worker'[w].beat \in 0 .. RefreshSeconds /\ worker'[w].beat < RunOf(w)'.lease
      BY <3>1, <3>2, <3>3
    <3> QED BY <1>2, <2>1, <2>3, <2>5, <2>7, <3>1, <3>2, <3>4
            DEF WorkerOK, Holds, RunOf, Holding
  <2>8. CASE worker[w].pc \in Settling
    <3>1. /\ worker[w].run \in Runs
          /\ RunOf(w).lease \in 1 .. LeaseSeconds
          /\ Refreshable(worker[w].run, w)
      BY <2>1, <2>8 DEF WorkerOK, Holds, Holding, Refreshable, RunOf
    <3>2. RunOf(w).lease # 1
      BY <2>1, <2>8, <3>1 DEF Punctual
    <3>3. RunOf(w)'.lease = RunOf(w).lease - 1 /\ RunOf(w)'.lease \in 1 .. LeaseSeconds
      BY <1>2, <2>3, <3>1, <3>2 DEF RunOf, Sooner
    <3>4. worker[w].pc \notin Executing
      BY <2>8 DEF Settling, Executing
    <3> QED BY <1>2, <2>1, <2>3, <2>5, <2>8, <3>1, <3>3, <3>4
            DEF WorkerOK, Holds, RunOf, Holding
  <2> QED BY <2>5, <2>6, <2>7, <2>8 DEF Holds, Holding
<1>5. worker' \in [Workers -> WorkerState]
  BY <1>4 DEF Time
<1> QED BY <1>1, <1>3, <1>4, <1>5 DEF FleetInv

-----------------------------------------------------------------------------
(* Every step *)

\* As long as no store call has raised: the two actions of such errors count.
LEMMA FleetStepInv ==
  ASSUME FleetInv, [FleetNext]_vars, faults' = 0
  PROVE  FleetInv'
<1>1. CountersOK'
  BY CountersStep DEF FleetInv
<1>2. faults \in Nat
  BY DEF FleetInv, CountersOK
<1>3. ASSUME NEW r \in Runs, Submit(r) \/ Cancel(r) PROVE FleetInv'
  BY <1>1, <1>3, SubmitInv, CancelInv
<1>4. ASSUME NEW w \in Workers, Claim(w) PROVE FleetInv'
  BY <1>1, <1>4, ClaimInv
<1>5. ASSUME NEW w \in Workers, Work(w) PROVE FleetInv'
  BY <1>1, <1>5, EnterExecutionInv, ExecuteInv, SettleInv DEF Work
<1>6. ASSUME NEW w \in Workers, Heartbeat(w) PROVE FleetInv'
  BY <1>1, <1>6, HeartbeatInv
<1>7. ASSUME NEW w \in Workers, HeartbeatRaises(w) \/ ExecutionStoreRaises(w) PROVE FALSE
  BY <1>2, <1>7 DEF HeartbeatRaises, ExecutionStoreRaises
<1>8. ASSUME NEW w \in Workers, Crash(w) \/ Restart(w) PROVE FleetInv'
  BY <1>1, <1>8, CrashInv, RestartInv
<1>9. CASE Time
  BY <1>1, <1>9, TimeInv
<1>10. CASE UNCHANGED vars
  <2>1. UNCHANGED <<runs, log, order, worker, cancels, crashes, faults>>
    BY <1>10 DEF vars
  <2>2. StoreInv'
    BY <2>1, StoreUnchangedInv DEF FleetInv, storeVars
  <2>3. \A w \in Workers : WorkerOK(w)'
    BY <2>1 DEF FleetInv, WorkerOK, Holds, RunOf
  <2> QED BY <1>1, <2>1, <2>2, <2>3 DEF FleetInv
<1> QED BY <1>3, <1>4, <1>5, <1>6, <1>7, <1>8, <1>9, <1>10 DEF FleetNext

\* Errors of store calls are counted for ever.
LEMMA FaultsGrow ==
  ASSUME CountersOK, [FleetNext]_vars, faults' = 0
  PROVE  faults = 0
<1>1. CASE UNCHANGED faults
  BY <1>1
<1>2. ASSUME NEW w \in Workers, HeartbeatRaises(w) \/ ExecutionStoreRaises(w)
      PROVE  faults' # 0
  BY <1>2 DEF HeartbeatRaises, ExecutionStoreRaises, CountersOK
<1>3. ASSUME ~UNCHANGED faults
      PROVE  \E w \in Workers : HeartbeatRaises(w) \/ ExecutionStoreRaises(w)
  BY <1>3 DEF FleetNext, vars, Submit, Cancel, Claim, Work, EnterExecution, Execute, CheckPasses,
              CheckRaises, Report, BodyRaises, Complete, Settle, SettleCancelled,
              SettleRejected, SettleRetryable, Heartbeat, Crash, Restart, Time
<1> QED BY <1>1, <1>2, <1>3

LEMMA FaultFreeInvariant == FleetSpec => [](CountersOK /\ (faults = 0 => FleetInv))
<1>1. CountersOK /\ (faults = 0 => FleetInv) /\ [FleetNext]_vars
        => (CountersOK /\ (faults = 0 => FleetInv))'
  BY CountersStep, FaultsGrow, FleetStepInv
<1>2. FleetInit => CountersOK /\ (faults = 0 => FleetInv)
  BY FleetInitInv DEF FleetInv
<1> QED BY <1>1, <1>2, PTL DEF FleetSpec

LEMMA FleetInvariant ==
  ASSUME MaxFaults = 0
  PROVE  FleetSpec => []FleetInv
<1>1. CountersOK /\ (faults = 0 => FleetInv) => FleetInv
  BY DEF CountersOK
<1> QED BY <1>1, FaultFreeInvariant, PTL

-----------------------------------------------------------------------------
(* The theorems *)

\* Every variable keeps its type, whatever raises.
THEOREM FleetTypeCorrect == FleetSpec => []FleetTypeOK
<1>1. SaneInv => FleetTypeOK
  BY DEF SaneInv, FleetTypeOK, StoreInv, StoreTypeOK, CountersOK
<1> QED BY <1>1, SaneInvariant, PTL

\* Whatever raises, the rows and the logs the workers leave behind agree: two
\* workers may then execute one run, but never beyond its attempts, never as
\* running after a cancel request, and never with a log that tells another status.
THEOREM FleetKeepsStorePromises ==
  FleetSpec => [](LeaseMatchesStatus /\ AttemptsMatchLog /\ StatusFollowsLog /\ CancelRequestSticks)
<1>1. SaneInv => LeaseMatchesStatus /\ AttemptsMatchLog /\ StatusFollowsLog /\ CancelRequestSticks
  BY StoreInvPromises DEF SaneInv
<1> QED BY <1>1, SaneInvariant, PTL

\* A worker that holds a run owns it in the store, under a live lease.
THEOREM HoldersOwnWhatTheyHold ==
  ASSUME MaxFaults = 0
  PROVE  FleetSpec => []HoldersOwnTheirRuns
<1>1. FleetInv => HoldersOwnTheirRuns
  BY DEF FleetInv, HoldersOwnTheirRuns, WorkerOK
<1> QED BY <1>1, FleetInvariant, PTL

\* No run is requeued that claim_next_run would never hand out again.
THEOREM QueuedRunsHaveAttemptsLeft ==
  ASSUME MaxFaults = 0
  PROVE  FleetSpec => []QueuedHasAttemptsLeft
<1>1. FleetInv => QueuedHasAttemptsLeft
  BY DEF FleetInv, QueuedHasAttemptsLeft, RunOK
<1> QED BY <1>1, FleetInvariant, PTL

-----------------------------------------------------------------------------
(* Every step moves one run or none *)

\* A worker that finishes the run it holds decides it; "cancelled" only if
\* that was asked for.
LEMMA FinishMoves ==
  ASSUME FleetInv, NEW w \in Workers, Holds(w), NEW status, NEW event,
         FinishRun(worker[w].run, status, event),
         \/ status \in {"completed", "failed"}
         \/ status = "cancelled" /\ worker[w].pc = "cancelled"
  PROVE  OneMoves
<1> DEFINE r == worker[w].run
<1>1. r \in Runs /\ runs[r].status \in Active /\ StoreInv
  BY DEF FleetInv, WorkerOK, RunOf
<1>2. worker[w].pc = "cancelled" => runs[r].cancel_requested
  BY <1>1 DEF FleetInv, WorkerOK, RunOf, RunOK
<1> QED BY <1>1, <1>2, FinishRunMoves

LEMMA RetryableMoves ==
  ASSUME FleetInv, NEW w \in Workers, SettleRetryable(w)
  PROVE  OneMoves
<1> DEFINE r == worker[w].run
<1>1. Holds(w)
  BY DEF SettleRetryable, Holds, Holding, Settling
<1>2. /\ r \in Runs /\ runs[r].status \in Active /\ StoreInv
      /\ runs[r].attempt_count = worker[w].attempt
  BY <1>1 DEF FleetInv, WorkerOK, RunOf
<1>3. CASE worker[w].attempt < RunOf(w).max_attempts
  <2>1. RequeueRun(r, RetryDelay(r, worker[w].attempt))
    BY <1>3 DEF SettleRetryable
  <2> QED BY <1>2, <1>3, <2>1, RequeueRunMoves DEF RunOf
<1>4. CASE ~(worker[w].attempt < RunOf(w).max_attempts)
  BY <1>1, <1>4, FinishMoves DEF SettleRetryable, MarkRunFailed
<1> QED BY <1>3, <1>4

LEMMA WorkMoves ==
  ASSUME FleetInv, NEW w \in Workers, Work(w)
  PROVE  OneMoves \/ NoneMoves
<1>1. CASE EnterExecution(w)
  <2>1. worker[w].run \in Runs /\ StoreInv
    BY <1>1 DEF EnterExecution, FleetInv, WorkerOK, Holds, Holding, Settling
  <2> QED BY <1>1, <2>1, RefreshMovesNone, RowsUnchangedMovesNone
          DEF EnterExecution, RefreshIfOurs, storeVars
<1>2. CASE Execute(w)
  <2>1. CASE Complete(w)
    BY <2>1, FinishMoves DEF Complete, MarkRunCompleted, Holds, Holding, Executing
  <2>2. CASE ~Complete(w)
    BY <1>2, <2>2, RowsUnchangedMovesNone
       DEF Execute, CheckPasses, CheckRaises, Report, AppendEvent, BodyRaises
  <2> QED BY <2>1, <2>2
<1>3. CASE Settle(w)
  <2>1. CASE SettleCancelled(w)
    BY <2>1, FinishMoves DEF SettleCancelled, MarkRunCancelled, Holds, Holding, Settling
  <2>2. CASE SettleRejected(w)
    BY <2>2, FinishMoves DEF SettleRejected, MarkRunFailed, Holds, Holding, Settling
  <2>3. CASE SettleRetryable(w)
    BY <2>3, RetryableMoves
  <2>4. CASE ~(SettleCancelled(w) \/ SettleRejected(w) \/ SettleRetryable(w))
    BY <1>3, <2>4, RowsUnchangedMovesNone DEF Settle, Report, AppendEvent
  <2> QED BY <2>1, <2>2, <2>3, <2>4
<1> QED BY <1>1, <1>2, <1>3 DEF Work

LEMMA StepMoves ==
  ASSUME FleetInv, [FleetNext]_vars, faults' = 0
  PROVE  OneMoves \/ NoneMoves
<1>1. faults \in Nat /\ StoreInv
  BY DEF FleetInv, CountersOK
<1>2. ASSUME NEW r \in Runs, Submit(r) \/ Cancel(r) PROVE OneMoves
  BY <1>1, <1>2, CreateRunMoves, CancelRunMoves DEF Submit, Cancel
<1>3. ASSUME NEW w \in Workers, Claim(w) PROVE OneMoves
  BY <1>1, <1>3, ClaimNextRunMoves DEF Claim
<1>4. ASSUME NEW w \in Workers, Work(w) PROVE OneMoves \/ NoneMoves
  BY <1>4, WorkMoves
<1>5. ASSUME NEW w \in Workers, Heartbeat(w) PROVE NoneMoves
  <2>1. worker[w].run \in Runs \/ worker[w].beat = None
    BY DEF FleetInv, WorkerOK, Holds, Holding
  <2>2. worker[w].run \in Runs
    BY <1>5, <2>1 DEF Heartbeat, HeartbeatDue
  <2> QED BY <1>1, <1>5, <2>2, RefreshMovesNone, RowsUnchangedMovesNone DEF Heartbeat, storeVars
<1>6. ASSUME NEW w \in Workers, HeartbeatRaises(w) \/ ExecutionStoreRaises(w) PROVE FALSE
  BY <1>1, <1>6 DEF HeartbeatRaises, ExecutionStoreRaises
<1>7. ASSUME NEW w \in Workers, Crash(w) \/ Restart(w) PROVE NoneMoves
  BY <1>7, RowsUnchangedMovesNone DEF Crash, Restart
<1>8. CASE Time
  BY <1>1, <1>8, TickMovesNone DEF Time
<1>9. CASE UNCHANGED vars
  BY <1>9, RowsUnchangedMovesNone DEF vars
<1> QED BY <1>2, <1>3, <1>4, <1>5, <1>6, <1>7, <1>8, <1>9 DEF FleetNext

-----------------------------------------------------------------------------
(* Decided runs stay decided *)

LEMMA DecidedStay ==
  ASSUME FleetInv, [FleetNext]_vars, faults' = 0, NEW r \in Runs, runs[r].status \in Terminal
  PROVE  runs'[r].status = runs[r].status
<1>1. CASE NoneMoves
  BY <1>1 DEF NoneMoves, Same, LifeFields
<1>2. CASE OneMoves
  <2>1. PICK q \in Runs : /\ Moved(runs[q], runs'[q])
                          /\ \A p \in Runs : p # q => runs'[p] = runs[p]
    BY <1>2 DEF OneMoves
  <2>2. runs[q].status \notin Terminal
    BY <2>1 DEF Moved, Submitted, Attempted, CancelAsked, Retried, Decided, Active, Terminal
  <2> QED BY <2>1, <2>2
<1> QED BY <1>1, <1>2, StepMoves

\* With MaxFaults = 0 no store call ever raises.
LEMMA NoFaults ==
  ASSUME MaxFaults = 0, FleetInv
  PROVE  faults = 0
  BY DEF FleetInv, CountersOK

\* No worker writes to a run that was decided, though the statements of the
\* store would let it: completed, failed and cancelled are final.
THEOREM DecisionsAreFinal ==
  ASSUME MaxFaults = 0
  PROVE  FleetSpec => TerminalIsFinal
<1>1. FleetInv /\ (faults = 0)' /\ [FleetNext]_vars
        => [\A r \in Runs : runs[r].status \in Terminal => runs'[r].status = runs[r].status]_vars
  BY DecidedStay
<1>2. FleetInv => faults = 0
  BY NoFaults
<1> QED BY <1>1, <1>2, FleetInvariant, PTL DEF FleetSpec, TerminalIsFinal

-----------------------------------------------------------------------------
(* The refinement *)

\* Every behaviour of the fleet, seen through its rows, is one of RunLifecycle.
THEOREM FleetRefinesLifecycle ==
  ASSUME MaxFaults = 0
  PROVE  FleetSpec => ImplementsLifecycle
<1>1. FleetInv /\ (faults = 0)' /\ [FleetNext]_vars => [Life!LifeNext]_(Life!lifeVars)
  <2> SUFFICES ASSUME FleetInv, (faults = 0)', [FleetNext]_vars
               PROVE  Life!LifeNext \/ UNCHANGED Life!lifeVars
    OBVIOUS
  <2>1. OneMoves \/ NoneMoves
    BY StepMoves
  <2> QED BY <2>1, LifeStep
<1>2. FleetInv => faults = 0
  BY NoFaults
<1>3. FleetInit => Life!LifeInit
  BY InitLife DEF FleetInit
<1> QED BY <1>1, <1>2, <1>3, FleetInvariant, PTL
        DEF FleetSpec, ImplementsLifecycle, Life!LifeSpec

-----------------------------------------------------------------------------
(***************************************************************************)
(* What the logs of a fleet tell, as long as no store call raises          *)
(* (MaxFaults = 0): the last event of a decided run is its outcome, a run  *)
(* that timed out never completes, cancel requests and retries are told    *)
(* in their place.                                                         *)
(***************************************************************************)

\* The places of an event type in a log.
Places(events, type) == {i \in DOMAIN events : events[i] = type}

TerminalEvents == {"run.completed", "run.failed", "run.cancelled"}
FailureEvents  == {"run.timeout_exceeded", "run.execution_failed"}

\* A workflow began although a cancel request had come before.
Overtaken(events) ==
  \E i \in Places(events, "run.cancel_requested"), j \in Places(events, "workflow.started") : i < j

\* The events up to place n end with one of types and, behind it, nothing but
\* cancel requests: with the report of a failure, or with the beginning of the
\* workflow.
EndsWith(types, events, n) ==
  \E j \in 1 .. n : /\ events[j] \in types
                    /\ \A k \in j + 1 .. n : events[k] = "run.cancel_requested"
Explained(events, n) == EndsWith(FailureEvents, events, n)
Begun(events, n)     == EndsWith({"workflow.started"}, events, n)

\* Why a run fails, when its row is this and its log ends at place n.
GoodReason(row, events, n) ==
  \/ Explained(events, n) /\ row.attempt_count = row.max_attempts
  \/ Begun(events, n)

\* What a row and its log keep of what happened.
HistoryOK(row, events) ==
  /\ row.status \in Terminal => events # <<>> /\ events[Len(events)] \in TerminalEvents
  /\ Places(events, "run.timeout_exceeded") # {} =>
       row.age \in Nat /\ row.age > Timeout /\ row.status # "completed"
  /\ Places(events, "run.cancel_requested") # {} => row.cancel_requested
  /\ Overtaken(events) => row.status # "completed"
  /\ \A i \in Places(events, "run.cancel_requested"), j \in Places(events, "workflow.started") :
       i < j => Places(events, "run.started") \intersect (i .. j) = {}
  /\ \A i \in Places(events, "run.retry_scheduled") : Explained(events, i - 1)
  /\ \A i \in Places(events, "run.failed") :
       row.status = "failed" /\ GoodReason(row, events, i - 1)

\* What a worker at pc keeps of the run it holds: how far it may have come
\* after a timeout or a request, and what it has reported before it settles.
HolderOK(pc, row, events) ==
  /\ row.age \in Nat
  /\ pc = "timed_out" => row.age > Timeout
  /\ Places(events, "run.timeout_exceeded") # {} => pc \notin {"begun", "body", "ended", "complete"}
  /\ pc = "begun" =>
       \A i \in Places(events, "run.cancel_requested"), k \in Places(events, "run.started") : k < i
  /\ Overtaken(events) => pc \notin {"ended", "complete"}
  /\ pc = "settle" => Explained(events, Len(events))
  /\ pc \in {"body", "rejected"} => Begun(events, Len(events))

HistoryInv ==
  /\ \A r \in Runs : HistoryOK(runs[r], log[r])
  /\ \A w \in Workers : Holds(w) => HolderOK(worker[w].pc, RunOf(w), log[worker[w].run])

-----------------------------------------------------------------------------
(* Logs that grow *)

LEMMA PlacesOfAppend ==
  ASSUME NEW events \in Seq(EventType), NEW type \in EventType, NEW u
  PROVE  /\ Places(events, u) \subseteq 1 .. Len(events)
         /\ Places(Append(events, type), u) =
              Places(events, u) \union (IF type = u THEN {Len(events) + 1} ELSE {})
  BY Appended DEF Places

LEMMA EndsOfAppend ==
  ASSUME NEW types, NEW events \in Seq(EventType), NEW type \in EventType,
         NEW i \in 0 .. Len(events)
  PROVE  EndsWith(types, Append(events, type), i) <=> EndsWith(types, events, i)
<1>1. \A j \in 1 .. i : Append(events, type)[j] = events[j]
  BY Appended
<1> QED BY <1>1 DEF EndsWith

\* A log ends with the event it grows by, and a cancel request adds to what is
\* behind the last other event.
LEMMA EndsAnew ==
  ASSUME NEW types, NEW events \in Seq(EventType), NEW type \in EventType
  PROVE  /\ type \in types
              => EndsWith(types, Append(events, type), Len(Append(events, type)))
         /\ type = "run.cancel_requested" /\ EndsWith(types, events, Len(events))
              => EndsWith(types, Append(events, type), Len(Append(events, type)))
<1> DEFINE n == Len(events)
           longer == Append(events, type)
<1>1. /\ n \in Nat /\ Len(longer) = n + 1 /\ longer[n + 1] = type
      /\ \A i \in 1 .. n : longer[i] = events[i]
  BY Appended
<1> HIDE DEF longer
<1>2. ASSUME type \in types PROVE EndsWith(types, longer, n + 1)
  BY <1>1, <1>2 DEF EndsWith
<1>3. ASSUME type = "run.cancel_requested", EndsWith(types, events, n)
      PROVE  EndsWith(types, longer, n + 1)
  <2>1. PICK j \in 1 .. n : /\ events[j] \in types
                            /\ \A k \in j + 1 .. n : events[k] = "run.cancel_requested"
    BY <1>3 DEF EndsWith
  <2>2. longer[j] \in types /\ j \in 1 .. n + 1
    BY <1>1, <2>1
  <2>3. ASSUME NEW k \in j + 1 .. n + 1 PROVE longer[k] = "run.cancel_requested"
    BY <1>1, <1>3, <2>1, <2>3
  <2> QED BY <2>2, <2>3 DEF EndsWith
<1> QED BY <1>1, <1>2, <1>3 DEF longer

LEMMA OvertakenOfAppend ==
  ASSUME NEW events \in Seq(EventType), NEW type \in EventType
  PROVE  /\ Overtaken(events) => Overtaken(Append(events, type))
         /\ Overtaken(Append(events, type)) =>
              \/ Overtaken(events)
              \/ /\ type = "workflow.started"
                 /\ Places(events, "run.cancel_requested") # {}
  BY PlacesOfAppend DEF Overtaken

\* What an event and the row written with it must satisfy for the history to
\* stay right.
Continues(events, type, new) ==
  /\ new.status \in Terminal => type \in TerminalEvents
  /\ Places(events, "run.timeout_exceeded") # {} \/ type = "run.timeout_exceeded" =>
       new.age \in Nat /\ new.age > Timeout /\ new.status # "completed"
  /\ Places(events, "run.cancel_requested") # {} \/ type = "run.cancel_requested" =>
       new.cancel_requested
  /\ Overtaken(events) => new.status # "completed"
  /\ type = "workflow.started" =>
       /\ new.status # "completed"
       /\ \A i \in Places(events, "run.cancel_requested"), k \in Places(events, "run.started") :
            k < i
  /\ type = "run.retry_scheduled" => Explained(events, Len(events))
  /\ Places(events, "run.failed") = {}
  /\ type = "run.failed" => new.status = "failed" /\ GoodReason(new, events, Len(events))

LEMMA HistoryOfAppend ==
  ASSUME NEW events \in Seq(EventType), NEW type \in EventType, NEW old, NEW new,
         HistoryOK(old, events), Continues(events, type, new)
  PROVE  HistoryOK(new, Append(events, type))
<1> DEFINE n == Len(events)
           longer == Append(events, type)
<1>1. n \in Nat /\ Len(longer) = n + 1 /\ longer[n + 1] = type /\ longer # <<>>
  BY Appended
<1>2. \A u : /\ Places(events, u) \subseteq 1 .. n
             /\ Places(longer, u) = Places(events, u) \union (IF type = u THEN {n + 1} ELSE {})
  BY PlacesOfAppend
<1>3. \A i \in 0 .. n : /\ Explained(longer, i) <=> Explained(events, i)
                        /\ Begun(longer, i) <=> Begun(events, i)
  BY EndsOfAppend DEF Explained, Begun
<1>4. Overtaken(longer) => Overtaken(events) \/ type = "workflow.started"
  BY OvertakenOfAppend
<1> HIDE DEF longer, n
<1>5. new.status \in Terminal => longer # <<>> /\ longer[Len(longer)] \in TerminalEvents
  BY <1>1 DEF Continues
<1>6. Places(longer, "run.timeout_exceeded") # {} =>
        new.age \in Nat /\ new.age > Timeout /\ new.status # "completed"
  BY <1>2 DEF Continues
<1>7. Places(longer, "run.cancel_requested") # {} => new.cancel_requested
  BY <1>2 DEF Continues
<1>8. Overtaken(longer) => new.status # "completed"
  BY <1>4 DEF Continues
<1>9. ASSUME NEW i \in Places(longer, "run.cancel_requested"),
             NEW j \in Places(longer, "workflow.started"), i < j
      PROVE  Places(longer, "run.started") \intersect (i .. j) = {}
  <2>1. i \in Nat /\ j \in Nat /\ j <= n + 1
    BY <1>1, <1>2
  <2>2. i \in Places(events, "run.cancel_requested")
    BY <1>1, <1>2, <1>9, <2>1
  <2>3. CASE j \in Places(events, "workflow.started")
    <3>1. Places(events, "run.started") \intersect (i .. j) = {} /\ j <= n
      BY <1>2, <1>9, <2>2, <2>3 DEF HistoryOK
    <3> QED BY <1>1, <1>2, <2>1, <3>1
  <2>4. CASE type = "workflow.started" /\ j = n + 1
    <3>1. \A k \in Places(events, "run.started") : k < i
      BY <2>2, <2>4 DEF Continues
    <3>2. Places(longer, "run.started") = Places(events, "run.started")
      BY <1>2, <2>4
    <3> QED BY <1>2, <2>1, <3>1, <3>2
  <2> QED BY <1>2, <2>3, <2>4
<1>10. ASSUME NEW i \in Places(longer, "run.retry_scheduled") PROVE Explained(longer, i - 1)
  <2>1. CASE i \in Places(events, "run.retry_scheduled")
    <3>1. Explained(events, i - 1) /\ i - 1 \in 0 .. n
      BY <1>1, <1>2, <2>1 DEF HistoryOK
    <3> QED BY <1>3, <3>1
  <2>2. CASE type = "run.retry_scheduled" /\ i = n + 1
    <3>1. Explained(events, n) /\ i - 1 = n
      BY <1>1, <2>2 DEF Continues, n
    <3> QED BY <1>1, <1>3, <3>1
  <2> QED BY <1>2, <2>1, <2>2
<1>11. ASSUME NEW i \in Places(longer, "run.failed")
       PROVE  new.status = "failed" /\ GoodReason(new, longer, i - 1)
  <2>1. type = "run.failed" /\ i = n + 1
    BY <1>2, <1>11 DEF Continues
  <2>2. new.status = "failed" /\ GoodReason(new, events, n) /\ i - 1 = n
    BY <1>1, <2>1 DEF Continues, n
  <2> QED BY <1>1, <1>3, <2>2 DEF GoodReason
<1> QED BY <1>5, <1>6, <1>7, <1>8, <1>9, <1>10, <1>11 DEF HistoryOK, longer

-----------------------------------------------------------------------------
(* One run, and whoever holds it *)

\* A step about run r leaves the histories of the others alone.
LEMMA HistoryFrame ==
  ASSUME FleetInv, HistoryInv, worker' \in [Workers -> WorkerState],
         NEW r \in Runs,
         \A q \in Runs : q # r => runs'[q] = runs[q] /\ log'[q] = log[q],
         HistoryOK(runs'[r], log'[r]),
         \A v \in Workers : Holds(v)' =>
           \/ worker'[v].run = r /\ HolderOK(worker'[v].pc, runs'[r], log'[r])
           \/ worker'[v].run # r /\ worker'[v] = worker[v]
  PROVE  HistoryInv'
<1>1. ASSUME NEW q \in Runs PROVE HistoryOK(runs'[q], log'[q])
  BY DEF HistoryInv
<1>2. ASSUME NEW v \in Workers, Holds(v)'
      PROVE  HolderOK(worker'[v].pc, runs'[worker'[v].run], log'[worker'[v].run])
  <2>1. CASE worker'[v].run = r
    BY <1>2, <2>1
  <2>2. CASE worker'[v].run # r
    <3>1. worker'[v] = worker[v] /\ Holds(v)
      BY <1>2, <2>2 DEF Holds
    <3>2. worker[v].run \in Runs /\ HolderOK(worker[v].pc, RunOf(v), log[worker[v].run])
      BY <3>1 DEF FleetInv, WorkerOK, HistoryInv
    <3> QED BY <2>2, <3>1, <3>2 DEF RunOf
  <2> QED BY <2>1, <2>2
<1> QED BY <1>1, <1>2 DEF HistoryInv, RunOf

\* A step of the worker that holds a run: nobody else holds it.
LEMMA HolderFrame ==
  ASSUME FleetInv, HistoryInv, NEW w \in Workers, Holds(w),
         NEW st \in WorkerState, worker' = [worker EXCEPT ![w] = st],
         \A q \in Runs : q # worker[w].run => runs'[q] = runs[q] /\ log'[q] = log[q],
         HistoryOK(runs'[worker[w].run], log'[worker[w].run]),
         st.pc \in Holding =>
           /\ st.run = worker[w].run
           /\ HolderOK(st.pc, runs'[worker[w].run], log'[worker[w].run])
  PROVE  HistoryInv'
<1> DEFINE r == worker[w].run
<1>1. r \in Runs
  BY DEF FleetInv, WorkerOK
<1>2. worker' \in [Workers -> WorkerState] /\ worker'[w] = st
  BY DEF FleetInv
<1>3. ASSUME NEW v \in Workers, Holds(v)'
      PROVE  \/ worker'[v].run = r /\ HolderOK(worker'[v].pc, runs'[r], log'[r])
             \/ worker'[v].run # r /\ worker'[v] = worker[v]
  <2>1. CASE v = w
    BY <1>2, <1>3, <2>1 DEF Holds
  <2>2. CASE v # w
    <3>1. worker'[v] = worker[v] /\ Holds(v)
      BY <1>3, <2>2 DEF Holds, FleetInv
    <3> QED BY <2>2, <3>1, HoldersDiffer
  <2> QED BY <2>1, <2>2
<1> QED BY <1>1, <1>2, <1>3, HistoryFrame

\* What HistoryInv says of a run that is held.
LEMMA HeldHistory ==
  ASSUME FleetInv, HistoryInv, NEW w \in Workers, Holds(w)
  PROVE  LET r == worker[w].run IN
         /\ r \in Runs /\ runs[r].status \in Active /\ runs[r] \in Row /\ RowOK(runs[r])
         /\ log[r] \in Seq(EventType)
         /\ HistoryOK(runs[r], log[r]) /\ HolderOK(worker[w].pc, runs[r], log[r])
<1>1. worker[w].run \in Runs /\ RunOf(w).status \in Active
  BY DEF FleetInv, WorkerOK
<1> QED BY <1>1, RowType DEF FleetInv, StoreInv, HistoryInv, RunOf

\* Both predicates see five columns of a row only.
LEMMA SameHistory ==
  ASSUME NEW old, NEW new, NEW events,
         new.status = old.status, new.age = old.age,
         new.cancel_requested = old.cancel_requested,
         new.attempt_count = old.attempt_count, new.max_attempts = old.max_attempts
  PROVE  /\ HistoryOK(old, events) => HistoryOK(new, events)
         /\ \A pc : HolderOK(pc, old, events) => HolderOK(pc, new, events)
  BY DEF HistoryOK, HolderOK, GoodReason

\* A run that has not failed tells of no failure.
LEMMA NoneFailed ==
  ASSUME NEW row, NEW events, HistoryOK(row, events), row.status # "failed"
  PROVE  Places(events, "run.failed") = {}
  BY DEF HistoryOK

\* A step of a holder that writes nothing to the log, and of its row at most what
\* the history does not see.
LEMMA QuietStep ==
  ASSUME FleetInv, HistoryInv, NEW w \in Workers, Holds(w),
         NEW st \in WorkerState, worker' = [worker EXCEPT ![w] = st],
         \A q \in Runs : q # worker[w].run => runs'[q] = runs[q], log' = log,
         Same(runs[worker[w].run], runs'[worker[w].run],
              {"status", "age", "cancel_requested", "attempt_count", "max_attempts"}),
         st.pc \in Holding =>
           /\ st.run = worker[w].run
           /\ HolderOK(st.pc, RunOf(w), log[worker[w].run])
  PROVE  HistoryInv'
<1> DEFINE r == worker[w].run
<1>1. r \in Runs /\ HistoryOK(runs[r], log[r])
  BY HeldHistory
<1>2. /\ runs'[r].status = runs[r].status
      /\ runs'[r].age = runs[r].age
      /\ runs'[r].cancel_requested = runs[r].cancel_requested
      /\ runs'[r].attempt_count = runs[r].attempt_count
      /\ runs'[r].max_attempts = runs[r].max_attempts
  BY DEF Same
<1>3. HistoryOK(runs'[r], log'[r])
  BY <1>1, <1>2, SameHistory
<1>4. ASSUME st.pc \in Holding PROVE HolderOK(st.pc, runs'[r], log'[r])
  <2>1. HolderOK(st.pc, runs[r], log[r]) /\ log' = log
    BY <1>4 DEF RunOf
  <2> HIDE DEF r
  <2> QED BY <1>2, <2>1 DEF HolderOK
<1> QED BY <1>3, <1>4, HolderFrame

\* A step of a holder that logs an event with the row it writes.
LEMMA LoggedStep ==
  ASSUME FleetInv, HistoryInv, NEW w \in Workers, Holds(w),
         NEW st \in WorkerState, worker' = [worker EXCEPT ![w] = st],
         \A q \in Runs : q # worker[w].run => runs'[q] = runs[q],
         NEW type \in EventType, InsertEvent(worker[w].run, type),
         Continues(log[worker[w].run], type, runs'[worker[w].run]),
         st.pc \in Holding =>
           /\ st.run = worker[w].run
           /\ HolderOK(st.pc, runs'[worker[w].run], Append(log[worker[w].run], type))
  PROVE  HistoryInv'
<1> DEFINE r == worker[w].run
<1>1. r \in Runs /\ HistoryOK(runs[r], log[r]) /\ log[r] \in Seq(EventType)
  BY HeldHistory
<1>2. log'[r] = Append(log[r], type) /\ \A q \in Runs : q # r => log'[q] = log[q]
  BY <1>1 DEF InsertEvent, FleetInv, StoreInv
<1>3. HistoryOK(runs'[r], log'[r])
  BY <1>1, <1>2, HistoryOfAppend
<1> QED BY <1>2, <1>3, HolderFrame

\* A worker that holds nothing afterwards, and nothing written.
LEMMA IdleStep ==
  ASSUME FleetInv, HistoryInv, NEW w \in Workers, UNCHANGED storeVars,
         NEW st \in WorkerState, worker' = [worker EXCEPT ![w] = st], st.pc \notin Holding
  PROVE  HistoryInv'
<1>1. worker'[w] = st /\ runs' = runs /\ log' = log
  BY DEF FleetInv, storeVars
<1>2. ASSUME NEW v \in Workers, Holds(v)'
      PROVE  HolderOK(worker[v].pc, RunOf(v), log[worker[v].run]) /\ worker'[v] = worker[v]
  <2>1. v # w /\ worker'[v] = worker[v] /\ Holds(v)
    BY <1>1, <1>2 DEF Holds, FleetInv
  <2> QED BY <2>1 DEF HistoryInv
<1> QED BY <1>1, <1>2 DEF HistoryInv, RunOf

-----------------------------------------------------------------------------
(* The steps of a holder *)

\* The events the fleet writes, and the statuses of runs that are held.
LEMMA EventKinds ==
  /\ ReportEvents \subseteq EventType /\ LifecycleEvents \subseteq EventType
  /\ {"run.started", "run.cancel_requested", "run.retry_scheduled", "run.completed",
      "run.failed", "run.cancelled"} \subseteq LifecycleEvents
  /\ FailureEvents \subseteq ReportEvents
  /\ {"workflow.started", "workflow.completed"} \subseteq ReportEvents
  /\ Active \intersect Terminal = {} /\ "queued" \notin Terminal \union Active
  BY DEF EventType, LifecycleEvents, ReportEvents, FailureEvents, Active, Terminal

\* A worker that moves on and leaves the row alone.
LEMMA MoveOn ==
  ASSUME FleetInv, HistoryInv, NEW w \in Workers, Holds(w), NEW to \in Holding,
         Goto(w, to) \/ LeaveFor(w, to), runs' = runs, log' = log,
         HolderOK(to, RunOf(w), log[worker[w].run])
  PROVE  HistoryInv'
<1>1. worker[w] \in WorkerState
  BY DEF FleetInv
<1>2. CASE Goto(w, to)
  <2> DEFINE st == [worker[w] EXCEPT !.pc = to]
  <2>1. st \in WorkerState /\ st.pc = to /\ st.run = worker[w].run
    BY <1>1 DEF WorkerState
  <2>2. worker' = [worker EXCEPT ![w] = st]
    BY <1>2 DEF Goto, FleetInv
  <2> HIDE DEF st
  <2> QED BY <2>1, <2>2, QuietStep DEF Same
<1>3. CASE LeaveFor(w, to)
  <2> DEFINE st == [worker[w] EXCEPT !.pc = to, !.beat = None]
  <2>1. st \in WorkerState /\ st.pc = to /\ st.run = worker[w].run
    BY <1>1 DEF WorkerState
  <2>2. worker' = [worker EXCEPT ![w] = st]
    BY <1>3 DEF LeaveFor, FleetInv
  <2> HIDE DEF st
  <2> QED BY <2>1, <2>2, QuietStep DEF Same
<1> QED BY <1>2, <1>3

\* The first refresh and the heartbeat's refreshes write the lease only.
LEMMA RefreshHistory ==
  ASSUME FleetInv, HistoryInv, NEW w \in Workers, Holds(w), NEW to \in Executing,
         RefreshLease(worker[w].run, w),
         worker' = [worker EXCEPT ![w].pc = to, ![w].beat = RefreshSeconds],
         HolderOK(to, RunOf(w), log[worker[w].run])
  PROVE  HistoryInv'
<1> DEFINE r == worker[w].run
           st == [worker[w] EXCEPT !.pc = to, !.beat = RefreshSeconds]
<1>1. worker[w] \in WorkerState /\ StoreInv /\ r \in Runs /\ to \in Holding
  BY DEF FleetInv, WorkerOK, Holding
<1>2. st \in WorkerState /\ st.pc = to /\ st.run = r
  <2>1. RefreshSeconds \in 0 .. RefreshSeconds
    OBVIOUS
  <2> QED BY <1>1, <2>1 DEF WorkerState
<1>3. worker' = [worker EXCEPT ![w] = st]
  BY DEF FleetInv
<1>4. /\ Same(runs[r], runs'[r], Fields \ {"lease"})
      /\ \A q \in Runs : q # r => runs'[q] = runs[q]
      /\ log' = log
  BY <1>1, RefreshLeaseRow DEF RefreshLease
<1>5. Same(runs[r], runs'[r],
           {"status", "age", "cancel_requested", "attempt_count", "max_attempts"})
  BY <1>4 DEF Same, Fields
<1> HIDE DEF st
<1> QED BY <1>1, <1>2, <1>3, <1>4, <1>5, QuietStep

\* A report: an event, and no row.
LEMMA ReportHistory ==
  ASSUME FleetInv, HistoryInv, NEW w \in Workers, NEW from \in Holding, NEW to \in Holding,
         NEW type \in ReportEvents, Report(w, from, type, to),
         Continues(log[worker[w].run], type, RunOf(w)),
         HolderOK(to, RunOf(w), Append(log[worker[w].run], type))
  PROVE  HistoryInv'
<1> DEFINE st == [worker[w] EXCEPT !.pc = to]
<1>1. /\ Holds(w) /\ worker[w] \in WorkerState /\ type \in EventType
      /\ InsertEvent(worker[w].run, type) /\ runs' = runs /\ Goto(w, to)
  BY EventKinds DEF Report, AppendEvent, Holds, FleetInv
<1>2. st \in WorkerState /\ st.pc = to /\ st.run = worker[w].run
  BY <1>1 DEF WorkerState
<1>3. worker' = [worker EXCEPT ![w] = st]
  BY <1>1 DEF Goto, FleetInv
<1> HIDE DEF st
<1>4. runs'[worker[w].run] = RunOf(w)
  BY <1>1 DEF RunOf
<1> QED BY <1>1, <1>2, <1>3, <1>4, LoggedStep

\* The outcome of a run: only an attempt that came to its end completes it.
LEMMA FinishHistory ==
  ASSUME FleetInv, HistoryInv, NEW w \in Workers, Holds(w), Release(w),
         NEW status, NEW event, FinishRun(worker[w].run, status, event),
         <<status, event>> \in {<<"completed", "run.completed">>, <<"failed", "run.failed">>,
                                <<"cancelled", "run.cancelled">>},
         status = "completed" => worker[w].pc = "complete",
         status = "failed" => GoodReason(RunOf(w), log[worker[w].run], Len(log[worker[w].run]))
  PROVE  HistoryInv'
<1> DEFINE r == worker[w].run
           events == log[r]
<1>1. /\ StoreInv /\ r \in Runs
      /\ HistoryOK(runs[r], events) /\ HolderOK(worker[w].pc, runs[r], events)
      /\ Places(events, "run.failed") = {}
  BY HeldHistory, NoneFailed DEF FleetInv, Active
<1>2. /\ runs'[r].status = status
      /\ runs'[r].age = runs[r].age
      /\ runs'[r].cancel_requested = runs[r].cancel_requested
      /\ runs'[r].attempt_count = runs[r].attempt_count
      /\ runs'[r].max_attempts = runs[r].max_attempts
      /\ \A q \in Runs : q # r => runs'[q] = runs[q]
  BY <1>1, FinishRunRow DEF Same
<1>3. event \in TerminalEvents /\ event \in EventType /\ InsertEvent(r, event)
  BY EventKinds DEF TerminalEvents, FinishRun
<1>4. Continues(events, event, runs'[r])
  <2>1. Places(events, "run.timeout_exceeded") # {} =>
          runs'[r].age \in Nat /\ runs'[r].age > Timeout /\ runs'[r].status # "completed"
    BY <1>1, <1>2 DEF HistoryOK, HolderOK
  <2>2. Places(events, "run.cancel_requested") # {} => runs'[r].cancel_requested
    BY <1>1, <1>2 DEF HistoryOK
  <2>3. Overtaken(events) => runs'[r].status # "completed"
    BY <1>1, <1>2 DEF HolderOK
  <2>4. event = "run.failed" =>
          runs'[r].status = "failed" /\ GoodReason(runs'[r], events, Len(events))
    BY <1>2 DEF GoodReason, RunOf
  <2> HIDE DEF events
  <2> QED BY <1>1, <1>3, <2>1, <2>2, <2>3, <2>4 DEF Continues, TerminalEvents
<1>5. Idle \in WorkerState /\ Idle.pc \notin Holding /\ worker' = [worker EXCEPT ![w] = Idle]
  BY DEF Idle, WorkerState, Release, Holding, Executing, Settling
<1> QED BY <1>2, <1>3, <1>4, <1>5, LoggedStep

\* A retry: its failure was reported in the step before, but for cancel requests.
LEMMA RequeueHistory ==
  ASSUME FleetInv, HistoryInv, NEW w \in Workers, worker[w].pc = "settle", Release(w),
         NEW delay, RequeueRun(worker[w].run, delay)
  PROVE  HistoryInv'
<1> DEFINE r == worker[w].run
           events == log[r]
<1>1. Holds(w)
  BY DEF Holds, Holding, Settling
<1>2. /\ StoreInv /\ r \in Runs
      /\ HistoryOK(runs[r], events) /\ HolderOK("settle", runs[r], events)
      /\ Places(events, "run.failed") = {}
  BY <1>1, HeldHistory, NoneFailed DEF FleetInv, Active
<1>3. /\ runs'[r].status = "queued"
      /\ runs'[r].age = runs[r].age
      /\ runs'[r].cancel_requested = runs[r].cancel_requested
      /\ \A q \in Runs : q # r => runs'[q] = runs[q]
      /\ InsertEvent(r, "run.retry_scheduled")
  BY <1>2, RequeueRunRow DEF Same, RequeueRun
<1>4. Continues(events, "run.retry_scheduled", runs'[r])
  BY <1>2, <1>3, EventKinds DEF Continues, HistoryOK, HolderOK
<1>5. Idle \in WorkerState /\ Idle.pc \notin Holding /\ worker' = [worker EXCEPT ![w] = Idle]
  BY DEF Idle, WorkerState, Release, Holding, Executing, Settling
<1>6. "run.retry_scheduled" \in EventType
  BY EventKinds
<1> QED BY <1>1, <1>3, <1>4, <1>5, <1>6, LoggedStep

\* A worker enters the execution, or its thread beats: nothing it relies on moves.
LEMMA EnterHistory ==
  ASSUME FleetInv, HistoryInv, NEW w \in Workers, EnterExecution(w) \/ Heartbeat(w)
  PROVE  HistoryInv'
<1>1. worker[w].pc \in Executing \union {"claimed"} /\ Holds(w)
  BY DEF EnterExecution, Heartbeat, HeartbeatDue, FleetInv, WorkerOK, Holds, Holding, Settling
<1>2. Refreshable(worker[w].run, w)
  BY <1>1 DEF FleetInv, WorkerOK, Refreshable, RunOf
<1>3. HolderOK(worker[w].pc, RunOf(w), log[worker[w].run])
  BY <1>1 DEF HistoryInv
<1>4. CASE EnterExecution(w)
  <2>1. RefreshLease(worker[w].run, w) /\ worker[w].pc = "claimed"
    BY <1>2, <1>4 DEF EnterExecution, RefreshIfOurs
  <2>2. HolderOK("begin", RunOf(w), log[worker[w].run]) /\ "begin" \in Executing
    BY <1>3, <2>1 DEF HolderOK, Executing
  <2> QED BY <1>1, <1>4, <2>1, <2>2, RefreshHistory DEF EnterExecution
<1>5. CASE Heartbeat(w)
  <2>1. RefreshLease(worker[w].run, w) /\ worker' = [worker EXCEPT ![w].beat = RefreshSeconds]
    BY <1>2, <1>5 DEF Heartbeat
  <2>2. worker[w].pc \in Executing /\ worker[w] \in WorkerState
    BY <1>5 DEF Heartbeat, HeartbeatDue, FleetInv, WorkerOK
  <2>3. [worker[w] EXCEPT !.pc = worker[w].pc] = worker[w]
    BY <2>2 DEF WorkerState
  <2>4. worker' = [worker EXCEPT ![w].pc = worker[w].pc, ![w].beat = RefreshSeconds]
    BY <2>1, <2>3 DEF FleetInv
  <2> QED BY <1>1, <1>3, <2>1, <2>2, <2>4, RefreshHistory
<1> QED BY <1>4, <1>5

\* _assert_active stands between a timeout, or a cancel request, and whatever the
\* attempt does next.
LEMMA ExecuteHistory ==
  ASSUME FleetInv, HistoryInv, NEW w \in Workers, Execute(w)
  PROVE  HistoryInv'
<1> DEFINE r == worker[w].run
           events == log[r]
<1>1. worker[w].pc \in Executing /\ Holds(w)
  BY DEF Execute, CheckPasses, CheckRaises, Report, BodyRaises, Complete, Executing, Holds, Holding
<1>2. /\ r \in Runs /\ runs[r] \in Row /\ RowOK(runs[r]) /\ events \in Seq(EventType)
      /\ runs[r].status \in Active /\ RunOf(w) = runs[r]
      /\ HistoryOK(runs[r], events) /\ HolderOK(worker[w].pc, runs[r], events)
      /\ Places(events, "run.failed") = {}
  BY <1>1, HeldHistory, NoneFailed DEF RunOf, Active
<1>3. runs[r].status \notin Terminal /\ runs[r].age \in Nat
  BY <1>2, EventKinds DEF HolderOK
<1> HIDE DEF r, events
\* A run that is active and not cancelling was never asked to cancel.
<1>4. ~IsCancelling(w) => Places(events, "run.cancel_requested") = {} /\ ~Overtaken(events)
  <2>1. ~IsCancelling(w) => ~runs[r].cancel_requested
    BY <1>2 DEF IsCancelling, Active, RowOK
  <2> QED BY <1>2, <2>1 DEF HistoryOK, Overtaken
<1>5. ~IsLate(w) => Places(events, "run.timeout_exceeded") = {}
  BY <1>2 DEF IsLate, HistoryOK
<1>6. CASE CheckPasses(w, "begin", "begun") \/ CheckPasses(w, "body", "ended")
  <2>1. PICK to \in {"begun", "ended"} : Goto(w, to) /\ runs' = runs /\ log' = log
    BY <1>6 DEF CheckPasses
  <2>2. ~IsCancelling(w) /\ ~IsLate(w)
    BY <1>6 DEF CheckPasses
  <2>3. HolderOK(to, runs[r], events)
    BY <1>3, <1>4, <1>5, <2>1, <2>2 DEF HolderOK
  <2>4. to \in Holding
    BY <2>1 DEF Holding, Executing
  <2> QED BY <1>1, <1>2, <2>1, <2>3, <2>4, MoveOn DEF r, events
<1>7. CASE Report(w, "begun", "workflow.started", "body")
  <2>1. /\ \A i \in Places(events, "run.cancel_requested"), k \in Places(events, "run.started") :
             k < i
        /\ Places(events, "run.timeout_exceeded") = {}
    BY <1>2, <1>7 DEF HolderOK, Report
  <2>2. Continues(events, "workflow.started", runs[r])
    BY <1>2, <1>3, <2>1 DEF Continues, HistoryOK, Terminal
  <2>3. "workflow.started" \in EventType /\ "workflow.started" \in ReportEvents
    BY EventKinds
  <2>4. Places(Append(events, "workflow.started"), "run.timeout_exceeded") = {}
    BY <1>2, <2>1, <2>3, PlacesOfAppend
  <2>5. HolderOK("body", runs[r], Append(events, "workflow.started"))
    BY <1>2, <1>3, <2>3, <2>4, EndsAnew DEF HolderOK, Begun
  <2>6. {"begun", "body"} \subseteq Holding
    BY DEF Holding, Executing
  <2> QED BY <1>2, <1>7, <2>2, <2>3, <2>5, <2>6, ReportHistory DEF r, events
<1>8. CASE Report(w, "ended", "workflow.completed", "complete")
  <2>1. Places(events, "run.timeout_exceeded") = {} /\ ~Overtaken(events)
    BY <1>2, <1>8 DEF HolderOK, Report
  <2>2. Continues(events, "workflow.completed", runs[r])
    BY <1>2, <1>3, <2>1 DEF Continues, HistoryOK
  <2>3. "workflow.completed" \in EventType /\ "workflow.completed" \in ReportEvents
    BY EventKinds
  <2>4. /\ Places(Append(events, "workflow.completed"), "run.timeout_exceeded") = {}
        /\ ~Overtaken(Append(events, "workflow.completed"))
    BY <1>2, <2>1, <2>3, PlacesOfAppend, OvertakenOfAppend
  <2>5. HolderOK("complete", runs[r], Append(events, "workflow.completed"))
    BY <1>3, <2>4 DEF HolderOK
  <2>6. {"ended", "complete"} \subseteq Holding
    BY DEF Holding, Executing
  <2> QED BY <1>2, <1>8, <2>2, <2>3, <2>5, <2>6, ReportHistory DEF r, events
<1>9. CASE CheckRaises(w)
  <2>1. PICK to \in {"cancelled", "timed_out"} :
          LeaveFor(w, to) /\ runs' = runs /\ log' = log /\ (to = "timed_out" => IsLate(w))
    BY <1>9 DEF CheckRaises
  <2>2. HolderOK(to, runs[r], events)
    BY <1>2, <1>3, <2>1 DEF HolderOK, IsLate
  <2>3. to \in Holding
    BY <2>1 DEF Holding, Settling
  <2> QED BY <1>1, <1>2, <2>1, <2>2, <2>3, MoveOn DEF r, events
<1>10. CASE BodyRaises(w)
  <2>1. PICK to \in {"errored", "rejected"} : LeaveFor(w, to) /\ runs' = runs /\ log' = log
    BY <1>10 DEF BodyRaises
  <2>2. HolderOK(to, runs[r], events)
    <3>1. Begun(events, Len(events))
      BY <1>2, <1>10 DEF BodyRaises, HolderOK
    <3> QED BY <1>3, <2>1, <3>1 DEF HolderOK
  <2>3. to \in Holding
    BY <2>1 DEF Holding, Settling
  <2> QED BY <1>1, <1>2, <2>1, <2>2, <2>3, MoveOn DEF r, events
<1>11. CASE Complete(w)
  BY <1>1, <1>11, FinishHistory DEF Complete, MarkRunCompleted
<1> QED BY <1>6, <1>7, <1>8, <1>9, <1>10, <1>11 DEF Execute

\* The except clauses of run_once.
LEMMA SettleHistory ==
  ASSUME FleetInv, HistoryInv, NEW w \in Workers, Settle(w)
  PROVE  HistoryInv'
<1> DEFINE r == worker[w].run
           events == log[r]
<1>1. worker[w].pc \in Settling /\ Holds(w)
  BY DEF Settle, SettleCancelled, SettleRejected, SettleRetryable, Report, Settling, Holds, Holding
<1>2. /\ r \in Runs /\ events \in Seq(EventType) /\ RunOf(w) = runs[r]
      /\ runs[r].status \in Active
      /\ HistoryOK(runs[r], events) /\ HolderOK(worker[w].pc, runs[r], events)
      /\ Places(events, "run.failed") = {}
  BY <1>1, HeldHistory, NoneFailed DEF RunOf, Active
<1>3. runs[r].status \notin Terminal /\ runs[r].status # "completed" /\ runs[r].age \in Nat
  BY <1>2, EventKinds DEF HolderOK, Active
<1> HIDE DEF r, events
<1>4. ASSUME NEW type \in FailureEvents, NEW from \in Settling, Report(w, from, type, "settle"),
             type = "run.timeout_exceeded" => runs[r].age > Timeout
      PROVE  HistoryInv'
  <2>1. Continues(events, type, runs[r])
    BY <1>2, <1>3, <1>4 DEF Continues, HistoryOK, FailureEvents
  <2>2. type \in EventType /\ type \in ReportEvents
    BY EventKinds
  <2>3. Explained(Append(events, type), Len(Append(events, type)))
    BY <1>2, <1>4, <2>2, EndsAnew DEF Explained
  <2>4. HolderOK("settle", runs[r], Append(events, type))
    BY <1>3, <2>3 DEF HolderOK
  <2>5. from \in Holding /\ "settle" \in Holding
    BY DEF Holding, Settling
  <2> QED BY <1>2, <1>4, <2>1, <2>2, <2>4, <2>5, ReportHistory DEF r, events
<1>5. CASE SettleCancelled(w)
  BY <1>1, <1>5, FinishHistory DEF SettleCancelled, MarkRunCancelled
<1>6. CASE SettleRejected(w)
  <2>1. GoodReason(RunOf(w), events, Len(events))
    BY <1>2, <1>6 DEF SettleRejected, HolderOK, GoodReason
  <2> QED BY <1>1, <1>6, <2>1, FinishHistory DEF SettleRejected, MarkRunFailed, r, events
<1>7. CASE Report(w, "timed_out", "run.timeout_exceeded", "settle")
  <2>1. runs[r].age > Timeout
    BY <1>2, <1>7 DEF HolderOK, Report
  <2> QED BY <1>4, <1>7, <2>1 DEF FailureEvents, Settling
<1>8. CASE Report(w, "errored", "run.execution_failed", "settle")
  BY <1>4, <1>8 DEF FailureEvents, Settling
<1>9. CASE SettleRetryable(w)
  <2>1. worker[w].pc = "settle" /\ Release(w)
    BY <1>9 DEF SettleRetryable
  <2>2. \/ RequeueRun(worker[w].run, RetryDelay(worker[w].run, worker[w].attempt))
        \/ /\ MarkRunFailed(worker[w].run)
           /\ ~(worker[w].attempt < RunOf(w).max_attempts)
    BY <1>9 DEF SettleRetryable
  <2>3. CASE MarkRunFailed(worker[w].run) /\ ~(worker[w].attempt < RunOf(w).max_attempts)
    <3>1. RunOf(w).attempt_count = worker[w].attempt
      BY <1>1 DEF FleetInv, WorkerOK
    <3>2. /\ runs[r].attempt_count \in Nat /\ runs[r].max_attempts \in Nat
          /\ runs[r].attempt_count <= runs[r].max_attempts
      BY <1>2, RowType DEF FleetInv, StoreInv, RowOK, Row
    <3>3. GoodReason(RunOf(w), events, Len(events))
      BY <1>2, <2>1, <2>3, <3>1, <3>2 DEF HolderOK, GoodReason
    <3> QED BY <1>1, <2>1, <2>3, <3>3, FinishHistory DEF MarkRunFailed, r, events
  <2> QED BY <2>1, <2>2, <2>3, RequeueHistory
<1> QED BY <1>5, <1>6, <1>7, <1>8, <1>9 DEF Settle

-----------------------------------------------------------------------------
(* The steps around a worker *)

\* A step that writes one run, and its log, while the workers stand still.
LEMMA OutsideHistory ==
  ASSUME FleetInv, HistoryInv, worker' = worker, NEW r \in Runs,
         \A q \in Runs : q # r => runs'[q] = runs[q] /\ log'[q] = log[q],
         HistoryOK(runs'[r], log'[r]),
         \A pc \in Holding :
           runs[r].status \in Active /\ HolderOK(pc, runs[r], log[r]) => HolderOK(pc, runs'[r], log'[r])
  PROVE  HistoryInv'
<1>1. ASSUME NEW v \in Workers, Holds(v)'
      PROVE  \/ worker'[v].run = r /\ HolderOK(worker'[v].pc, runs'[r], log'[r])
             \/ worker'[v].run # r /\ worker'[v] = worker[v]
  <2>1. Holds(v) /\ worker'[v] = worker[v]
    BY <1>1 DEF Holds
  <2>2. worker[v].pc \in Holding
    BY <2>1 DEF Holds
  <2>3. RunOf(v).status \in Active /\ HolderOK(worker[v].pc, RunOf(v), log[worker[v].run])
    BY <2>1 DEF FleetInv, WorkerOK, HistoryInv
  <2> QED BY <2>1, <2>2, <2>3 DEF RunOf
<1>2. worker' \in [Workers -> WorkerState]
  BY DEF FleetInv
<1> QED BY <1>1, <1>2, HistoryFrame

LEMMA SubmitHistory ==
  ASSUME FleetInv, HistoryInv, NEW r \in Runs, Submit(r)
  PROVE  HistoryInv'
<1> DEFINE events == <<"run.created", "run.queued">>
<1>1. PICK attempts \in 1 .. MaxAttempts, delay \in 0 .. MaxDelay : CreateRun(r, attempts, delay)
  BY DEF Submit
<1>2. /\ runs[r].status = "absent"
      /\ runs'[r].status = "queued"
      /\ \A q \in Runs : q # r => runs'[q] = runs[q]
  BY <1>1, CreateRunRow DEF FleetInv
<1>3. log'[r] = events /\ \A q \in Runs : q # r => log'[q] = log[q]
  BY <1>1 DEF CreateRun, FleetInv, StoreInv
<1>4. /\ Places(events, "run.timeout_exceeded") = {}
      /\ Places(events, "run.cancel_requested") = {}
      /\ Places(events, "run.retry_scheduled") = {}
      /\ Places(events, "run.failed") = {}
  BY DEF Places
<1> HIDE DEF events
<1>5. HistoryOK(runs'[r], log'[r])
  BY <1>2, <1>3, <1>4, EventKinds DEF HistoryOK, Overtaken
<1>6. runs[r].status \notin Active /\ worker' = worker
  BY <1>2 DEF Active, Submit
<1> QED BY <1>2, <1>3, <1>5, <1>6, OutsideHistory

\* A request that comes while the workflow is about to begin comes after the
\* start of that attempt.
LEMMA CancelHistory ==
  ASSUME FleetInv, HistoryInv, NEW r \in Runs, Cancel(r)
  PROVE  HistoryInv'
<1> DEFINE events == log[r]
<1>1. /\ CancelRun(r) /\ worker' = worker /\ StoreInv /\ events \in Seq(EventType)
      /\ HistoryOK(runs[r], events)
  BY DEF Cancel, FleetInv, StoreInv, HistoryInv
<1>2. /\ runs'[r].cancel_requested
      /\ runs'[r].age = runs[r].age
      /\ \A q \in Runs : q # r => runs'[q] = runs[q]
  BY <1>1, CancelRunRow DEF Same
<1>3. CASE CancelQueuedRun(r)
  <2>1. runs[r].status = "queued" /\ InsertEvent(r, "run.cancelled")
    BY <1>3 DEF CancelQueuedRun
  <2>2. runs'[r].status = "cancelled"
    BY <1>1, <2>1, CancelRunRow DEF Active
  <2>3. log'[r] = Append(events, "run.cancelled") /\ \A q \in Runs : q # r => log'[q] = log[q]
    BY <1>1, <2>1 DEF InsertEvent, StoreInv
  <2>4. Continues(events, "run.cancelled", runs'[r])
    BY <1>1, <1>2, <2>1, <2>2, NoneFailed DEF Continues, HistoryOK, TerminalEvents
  <2>5. HistoryOK(runs'[r], log'[r])
    BY <1>1, <2>3, <2>4, EventKinds, HistoryOfAppend
  <2>6. runs[r].status \notin Active
    BY <2>1, EventKinds
  <2> QED BY <1>1, <1>2, <2>3, <2>5, <2>6, OutsideHistory
<1>4. CASE CancelActiveRun(r)
  <2> DEFINE type == "run.cancel_requested"
             longer == Append(events, type)
  <2>1. runs[r].status \in Active /\ InsertEvent(r, type)
    BY <1>4 DEF CancelActiveRun
  <2>2. runs'[r].status = "cancelling"
    BY <1>1, <2>1, EventKinds, CancelRunRow
  <2>3. log'[r] = longer /\ \A q \in Runs : q # r => log'[q] = log[q]
    BY <1>1, <2>1 DEF InsertEvent, StoreInv
  <2>4. Continues(events, type, runs'[r])
    BY <1>1, <1>2, <2>1, <2>2, NoneFailed DEF Continues, HistoryOK, Terminal, Active
  <2>5. type \in EventType
    BY EventKinds
  <2>6. HistoryOK(runs'[r], log'[r])
    BY <1>1, <2>3, <2>4, <2>5, HistoryOfAppend
  <2>7. ASSUME NEW pc \in Holding, HolderOK(pc, runs[r], events)
        PROVE  HolderOK(pc, runs'[r], longer)
    <3>1. runs'[r].age \in Nat /\ (pc = "timed_out" => runs'[r].age > Timeout)
      BY <1>2, <2>7 DEF HolderOK
    <3>2. /\ Places(longer, "run.timeout_exceeded") = Places(events, "run.timeout_exceeded")
          /\ Places(longer, "run.started") = Places(events, "run.started")
          /\ Places(events, "run.started") \subseteq 1 .. Len(events)
          /\ Places(longer, type) = Places(events, type) \union {Len(events) + 1}
      <4>1. \A u : /\ Places(events, u) \subseteq 1 .. Len(events)
                   /\ Places(longer, u) =
                        Places(events, u) \union (IF type = u THEN {Len(events) + 1} ELSE {})
        BY <1>1, <2>5, PlacesOfAppend
      <4> HIDE DEF longer, events
      <4> QED BY <4>1
    <3>3. Overtaken(longer) => Overtaken(events)
      BY <1>1, <2>5, OvertakenOfAppend
    <3>4. /\ pc = "settle" => Explained(longer, Len(longer))
          /\ pc \in {"body", "rejected"} => Begun(longer, Len(longer))
      BY <1>1, <2>5, <2>7, EndsAnew DEF HolderOK, Explained, Begun
    <3>5. Len(events) \in Nat
      BY <1>1
    <3> HIDE DEF longer, events
    <3>6. pc = "begun" => \A i \in Places(longer, type), k \in Places(longer, "run.started") : k < i
      BY <2>7, <3>2, <3>5 DEF HolderOK
    <3> QED BY <2>7, <3>1, <3>2, <3>3, <3>4, <3>6 DEF HolderOK
  <2> HIDE DEF longer
  <2> QED BY <1>1, <1>2, <2>3, <2>6, <2>7, OutsideHistory
<1> QED BY <1>1, <1>3, <1>4 DEF CancelRun

\* Nobody holds the run that is claimed; its first start stays where it was.
LEMMA ClaimHistory ==
  ASSUME FleetInv, HistoryInv, NEW w \in Workers, FleetInv', Claim(w)
  PROVE  HistoryInv'
<1>1. PICK r \in Runs, locked \in SUBSET Runs :
        /\ ClaimNextRun(r, w, locked)
        /\ worker' = [worker EXCEPT ![w] =
             [Idle EXCEPT !.pc = "claimed", !.run = r, !.attempt = runs[r].attempt_count + 1]]
  BY DEF Claim
<1> DEFINE events == log[r]
           type == "run.started"
           longer == Append(events, type)
<1>2. /\ StoreInv /\ events \in Seq(EventType) /\ runs[r] \in Row /\ HistoryOK(runs[r], events)
      /\ type \in EventType
  BY EventKinds DEF FleetInv, StoreInv, HistoryInv
<1>3. /\ runs[r].status = "queued" \/ (runs[r].status \in Active /\ runs[r].lease = 0)
      /\ runs'[r].status = IF runs[r].cancel_requested THEN "cancelling" ELSE "running"
      /\ runs'[r].age = IF runs[r].age = None THEN 0 ELSE runs[r].age
      /\ runs'[r].cancel_requested = runs[r].cancel_requested
      /\ \A q \in Runs : q # r => runs'[q] = runs[q]
  BY <1>1, <1>2, ClaimNextRunRow DEF Same
<1>4. runs'[r].age \in Nat
  BY <1>2, <1>3 DEF Row
<1>5. log'[r] = longer /\ \A q \in Runs : q # r => log'[q] = log[q]
  BY <1>1, <1>2 DEF ClaimNextRun, InsertEvent, StoreInv
<1>6. runs'[r].status \notin Terminal /\ runs'[r].status # "completed"
  BY <1>3 DEF Terminal
<1>7. Continues(events, type, runs'[r])
  <2>1. Places(events, "run.timeout_exceeded") # {} =>
          runs'[r].age \in Nat /\ runs'[r].age > Timeout
    BY <1>2, <1>3, <1>4 DEF HistoryOK
  <2>2. Places(events, "run.cancel_requested") # {} => runs'[r].cancel_requested
    BY <1>2, <1>3 DEF HistoryOK
  <2>3. Places(events, "run.failed") = {}
    BY <1>2, <1>3, NoneFailed DEF Active
  <2> QED BY <1>6, <2>1, <2>2, <2>3 DEF Continues
<1>8. HistoryOK(runs'[r], log'[r])
  BY <1>2, <1>5, <1>7, HistoryOfAppend
<1>9. HolderOK("claimed", runs'[r], log'[r])
  BY <1>4 DEF HolderOK
<1>10. worker' \in [Workers -> WorkerState] /\ worker'[w].pc = "claimed" /\ worker'[w].run = r
  <2>1. worker'[w] = [Idle EXCEPT !.pc = "claimed", !.run = r, !.attempt = runs[r].attempt_count + 1]
    BY <1>1 DEF FleetInv
  <2> QED BY <2>1 DEF FleetInv, Idle
<1>11. ASSUME NEW v \in Workers, Holds(v)'
       PROVE  \/ worker'[v].run = r /\ HolderOK(worker'[v].pc, runs'[r], log'[r])
              \/ worker'[v].run # r /\ worker'[v] = worker[v]
  <2>1. CASE v = w
    BY <1>9, <1>10, <2>1
  <2>2. CASE v # w
    <3>1. worker'[v] = worker[v] /\ Holds(v)
      BY <1>1, <1>11, <2>2 DEF FleetInv, Holds
    <3>2. worker[v].run # r
      BY <1>3, <3>1 DEF FleetInv, WorkerOK, RunOf, Active
    <3> QED BY <3>1, <3>2
  <2> QED BY <2>1, <2>2
<1> QED BY <1>3, <1>5, <1>8, <1>10, <1>11, HistoryFrame

\* Runs grow older, and what was late stays late.
LEMMA TimeHistory ==
  ASSUME FleetInv, HistoryInv, FleetInv', Time
  PROVE  HistoryInv'
<1>1. StoreInv /\ Tick /\ log' = log
  BY DEF FleetInv, Time, Tick
<1>2. ASSUME NEW r \in Runs
      PROVE  /\ runs'[r].status = runs[r].status
             /\ runs'[r].cancel_requested = runs[r].cancel_requested
             /\ runs'[r].attempt_count = runs[r].attempt_count
             /\ runs'[r].max_attempts = runs[r].max_attempts
             /\ runs[r].age \in Nat =>
                  /\ runs'[r].age \in Nat
                  /\ runs[r].age > Timeout => runs'[r].age > Timeout
  <2>1. /\ runs'[r].age = IF runs[r].age = None THEN None ELSE Later(runs[r].age)
        /\ Same(runs[r], runs'[r], Fields \ {"lease", "delay", "age"})
    BY <1>1, TickRow
  <2>2. runs[r].age \in Nat => runs'[r].age = Later(runs[r].age)
    BY <2>1
  <2>3. runs[r].age \in Nat => /\ Later(runs[r].age) \in Nat
                               /\ runs[r].age > Timeout => Later(runs[r].age) > Timeout
    BY DEF Later
  <2> QED BY <2>1, <2>2, <2>3 DEF Same, Fields
<1>3. ASSUME NEW r \in Runs PROVE HistoryOK(runs'[r], log'[r])
  <2>1. HistoryOK(runs[r], log[r])
    BY DEF HistoryInv
  <2> QED BY <1>1, <1>2, <2>1 DEF HistoryOK, GoodReason
<1>4. ASSUME NEW w \in Workers, Holds(w)'
      PROVE  HolderOK(worker'[w].pc, runs'[worker'[w].run], log'[worker'[w].run])
  <2>1. worker[w] \in WorkerState /\ worker'[w] = [worker[w] EXCEPT !.beat = IF @ = None THEN None ELSE @ - 1]
    BY DEF FleetInv, Time
  <2>2. worker'[w].pc = worker[w].pc /\ worker'[w].run = worker[w].run
    BY <2>1 DEF WorkerState
  <2>3. Holds(w) /\ worker[w].run \in Runs /\ HolderOK(worker[w].pc, RunOf(w), log[worker[w].run])
    BY <1>4, <2>2 DEF Holds, FleetInv, WorkerOK, HistoryInv
  <2> QED BY <1>1, <1>2, <2>2, <2>3 DEF HolderOK, RunOf
<1> QED BY <1>3, <1>4 DEF HistoryInv, RunOf

-----------------------------------------------------------------------------
(* Every step *)

LEMMA HistoryInit == FleetInit => HistoryInv
<1> SUFFICES ASSUME FleetInit PROVE HistoryInv
  OBVIOUS
<1>1. ASSUME NEW r \in Runs PROVE HistoryOK(runs[r], log[r])
  <2>1. runs[r] = NoRow /\ log[r] = <<>>
    BY DEF FleetInit, StoreInit
  <2>2. \A u : Places(<<>>, u) = {}
    BY DEF Places
  <2>3. NoRow.status \notin Terminal
    BY DEF NoRow, Terminal
  <2> QED BY <2>1, <2>2, <2>3 DEF HistoryOK, Overtaken
<1>2. ASSUME NEW w \in Workers PROVE ~Holds(w)
  BY DEF FleetInit, Idle, Holds, Holding, Executing, Settling
<1> QED BY <1>1, <1>2 DEF HistoryInv

LEMMA HistoryStep ==
  ASSUME FleetInv, HistoryInv, [FleetNext]_vars, faults' = 0
  PROVE  HistoryInv'
<1>1. FleetInv'
  BY FleetStepInv
<1>2. faults \in Nat
  BY DEF FleetInv, CountersOK
<1>3. ASSUME NEW r \in Runs, Submit(r) \/ Cancel(r) PROVE HistoryInv'
  BY <1>3, SubmitHistory, CancelHistory
<1>4. ASSUME NEW w \in Workers, Claim(w) PROVE HistoryInv'
  BY <1>1, <1>4, ClaimHistory
<1>5. ASSUME NEW w \in Workers, Work(w) PROVE HistoryInv'
  BY <1>5, EnterHistory, ExecuteHistory, SettleHistory DEF Work
<1>6. ASSUME NEW w \in Workers, Heartbeat(w) PROVE HistoryInv'
  BY <1>6, EnterHistory
<1>7. ASSUME NEW w \in Workers, HeartbeatRaises(w) \/ ExecutionStoreRaises(w) PROVE FALSE
  BY <1>2, <1>7 DEF HeartbeatRaises, ExecutionStoreRaises
<1>8. ASSUME NEW w \in Workers, Crash(w) \/ Restart(w) PROVE HistoryInv'
  <2>1. PICK st \in WorkerState :
          worker' = [worker EXCEPT ![w] = st] /\ st.pc \notin Holding
    <3>1. [Idle EXCEPT !.pc = "down"] \in WorkerState /\ Idle \in WorkerState
      BY DEF Idle, WorkerState
    <3>2. [Idle EXCEPT !.pc = "down"].pc \notin Holding /\ Idle.pc \notin Holding
      BY DEF Idle, Holding, Executing, Settling
    <3> QED BY <1>8, <3>1, <3>2 DEF Crash, Restart, Release
  <2>2. UNCHANGED storeVars
    BY <1>8 DEF Crash, Restart, storeVars
  <2> QED BY <2>1, <2>2, IdleStep
<1>9. CASE Time
  BY <1>1, <1>9, TimeHistory
<1>10. CASE UNCHANGED vars
  BY <1>10 DEF vars, HistoryInv, Holds, RunOf
<1> QED BY <1>3, <1>4, <1>5, <1>6, <1>7, <1>8, <1>9, <1>10 DEF FleetNext

LEMMA HistoryInvariant ==
  ASSUME MaxFaults = 0
  PROVE  FleetSpec => [](FleetInv /\ HistoryInv)
<1>1. FleetInv' => faults' = 0
  BY DEF FleetInv, CountersOK
<1>2. FleetInv /\ HistoryInv /\ FleetInv' /\ [FleetNext]_vars => HistoryInv'
  BY <1>1, HistoryStep
<1> QED BY <1>2, HistoryInit, FleetInvariant, PTL DEF FleetSpec

-----------------------------------------------------------------------------
(* The theorems *)

\* The log of a decided run ends with its outcome: no report, request or start
\* comes after it.
THEOREM OutcomesComeLast ==
  ASSUME MaxFaults = 0
  PROVE  FleetSpec => []TerminalEventIsLast
<1>1. HistoryInv => TerminalEventIsLast
  BY DEF HistoryInv, HistoryOK, TerminalEventIsLast, TerminalEvents
<1> QED BY <1>1, HistoryInvariant, PTL

\* A run that timed out once never completes, whatever attempts it has left.
THEOREM TimeoutsAreFinal ==
  ASSUME MaxFaults = 0
  PROVE  FleetSpec => []TimedOutNeverCompletes
<1>1. HistoryInv => TimedOutNeverCompletes
  BY DEF HistoryInv, HistoryOK, TimedOutNeverCompletes, Logged, Places
<1> QED BY <1>1, HistoryInvariant, PTL

\* A cancel request that comes before the workflow of an attempt begins keeps
\* that attempt from completing, and later attempts from beginning.
THEOREM RequestsStopAttempts ==
  ASSUME MaxFaults = 0
  PROVE  FleetSpec => []CancelledAttemptsDoNotComplete
<1>1. HistoryInv => CancelledAttemptsDoNotComplete
  BY DEF HistoryInv, HistoryOK, CancelledAttemptsDoNotComplete, Logged, Places, Overtaken
<1> QED BY <1>1, HistoryInvariant, PTL

\* Every retry follows the report of the failure that caused it, and so does every
\* failure of a run, unless its workflow was rejected.
THEOREM RetriesFollowFailures ==
  ASSUME MaxFaults = 0
  PROVE  FleetSpec => []RetriesAreExplained
<1>1. HistoryInv => RetriesAreExplained
  BY DEF HistoryInv, HistoryOK, RetriesAreExplained, ComesAfter, Logged, Places, GoodReason,
         Explained, Begun, EndsWith, FailureEvents
<1> QED BY <1>1, HistoryInvariant, PTL

-----------------------------------------------------------------------------
(***************************************************************************)
(* Where attempts come from, whatever raises.  A run that somebody executes*)
(* is an orphan once nobody keeps its lease: its lease has run out, or its *)
(* owner has neither a heartbeat thread nor the few transactions before it *)
(* that are left when the thread is stopped.  Only a death or a store call *)
(* that raises makes an orphan, and only an orphan is taken over.          *)
(***************************************************************************)
Guards(w, r) ==
  /\ runs[r].worker_id = w /\ Holds(w) /\ worker[w].run = r
  /\ worker[w].pc \in Settling \/ worker[w].beat # None
Orphan(r) ==
  /\ runs[r].status \in Active
  /\ runs[r].lease = 0 \/ \A w \in Workers : ~Guards(w, r)

Retries(events) == Cardinality(Places(events, "run.retry_scheduled"))
Troubles        == crashes + faults
Waiting         == {"absent", "queued"}

\* The attempts of a run, the takeover that an orphan awaits included, against
\* what they are for.
Accounted(r) ==
  runs[r].attempt_count + (IF Orphan(r) THEN 1 ELSE 0)
    <= Retries(log[r]) + Troubles + (IF runs[r].status \in Waiting THEN 0 ELSE 1)

\* A thread that keeps a lease wakes up before the lease runs out.
BeatInTime(w) ==
  worker[w].beat # None /\ Refreshable(worker[w].run, w) => worker[w].beat < RunOf(w).lease

AccountInv == (\A r \in Runs : Accounted(r)) /\ (\A w \in Workers : BeatInTime(w))

LEMMA RetriesOfAppend ==
  ASSUME NEW events \in Seq(EventType), NEW type \in EventType
  PROVE  /\ Retries(events) \in Nat
         /\ Retries(Append(events, type)) =
              Retries(events) + (IF type = "run.retry_scheduled" THEN 1 ELSE 0)
<1> DEFINE n == Len(events)
           places == Places(events, "run.retry_scheduled")
<1>1. /\ n \in Nat /\ places \subseteq 1 .. n
      /\ Places(Append(events, type), "run.retry_scheduled") =
           places \union (IF type = "run.retry_scheduled" THEN {n + 1} ELSE {})
  BY Appended, PlacesOfAppend
<1> HIDE DEF places
<1>2. IsFiniteSet(places) /\ n + 1 \notin places
  <2>1. IsFiniteSet(1 .. n)
    BY <1>1, FS_Interval
  <2>2. IsFiniteSet(places)
    BY <1>1, <2>1, FS_Subset
  <2>3. n + 1 \notin places
    BY <1>1
  <2> QED BY <2>2, <2>3
<1>3. Cardinality(places) \in Nat /\ Cardinality(places \union {n + 1}) = Cardinality(places) + 1
  BY <1>2, FS_CardinalityType, FS_AddElement
<1>4. /\ Retries(events) = Cardinality(places)
      /\ Retries(Append(events, type)) =
           Cardinality(places \union (IF type = "run.retry_scheduled" THEN {n + 1} ELSE {}))
  BY <1>1 DEF Retries, places
<1>5. CASE type = "run.retry_scheduled"
  BY <1>3, <1>4, <1>5
<1>6. CASE type # "run.retry_scheduled"
  <2>1. places \union {} = places
    OBVIOUS
  <2> QED BY <1>3, <1>4, <1>6, <2>1
<1> QED BY <1>5, <1>6

\* What of a run and of its log is a number.
LEMMA AccountTypes ==
  ASSUME SaneInv, NEW r \in Runs
  PROVE  /\ runs[r] \in Row /\ runs[r].attempt_count \in Nat
         /\ log[r] \in Seq(EventType) /\ Retries(log[r]) \in Nat
         /\ crashes \in Nat /\ faults \in Nat /\ Troubles \in Nat
<1>1. runs[r] \in Row /\ log[r] \in Seq(EventType) /\ crashes \in Nat /\ faults \in Nat
  BY RowType DEF SaneInv, CountersOK, StoreInv
<1>2. "run.started" \in EventType
  BY EventKinds
<1> QED BY <1>1, <1>2, RetriesOfAppend DEF Row, Troubles

LEMMA AccountTypesNext ==
  ASSUME SaneInv', NEW r \in Runs
  PROVE  /\ Retries(log'[r]) \in Nat
         /\ crashes' \in Nat /\ faults' \in Nat /\ Troubles' \in Nat
<1>1. log'[r] \in Seq(EventType) /\ crashes' \in Nat /\ faults' \in Nat
  BY DEF SaneInv, CountersOK, StoreInv
<1>2. "run.started" \in EventType
  BY EventKinds
<1>3. Retries(log'[r]) \in Nat
  BY <1>1, <1>2, RetriesOfAppend
<1>4. \A m, n \in Nat : m + n \in Nat
  OBVIOUS
<1> QED BY <1>1, <1>3, <1>4 DEF Troubles

\* A run that is neither claimed nor requeued stays accounted for, unless it
\* becomes an orphan and nothing happened.
LEMMA StaysAccounted ==
  ASSUME SaneInv, SaneInv', NEW r \in Runs, Accounted(r),
         runs'[r].attempt_count = runs[r].attempt_count,
         runs[r].status \in Waiting \/ runs'[r].status \notin Waiting,
         Retries(log'[r]) >= Retries(log[r]), Troubles' >= Troubles,
         Orphan(r)' => Orphan(r) \/ Troubles' > Troubles
  PROVE  Accounted(r)'
<1>1. /\ runs[r].attempt_count \in Nat /\ Retries(log[r]) \in Nat /\ Troubles \in Nat
      /\ Retries(log'[r]) \in Nat /\ Troubles' \in Nat
  BY AccountTypes, AccountTypesNext
<1> QED BY <1>1 DEF Accounted

\* A worker that guarded a run and still does makes no orphan of it.
LEMMA NoNewOrphan ==
  ASSUME NEW r \in Runs,
         runs'[r].status \in Active => runs[r].status \in Active,
         runs[r].lease # 0 => runs'[r].lease # 0,
         \A w \in Workers : runs[r].status \in Active /\ Guards(w, r) => Guards(w, r)'
  PROVE  Orphan(r)' => Orphan(r)
  BY DEF Orphan

\* A step of one process that leaves the rows alone.
LEMMA ProcessAccount ==
  ASSUME SaneInv, SaneInv', AccountInv, runs' = runs,
         NEW w \in Workers, NEW st \in WorkerState, worker' = [worker EXCEPT ![w] = st],
         \A q \in Runs : Retries(log'[q]) >= Retries(log[q]),
         Troubles' >= Troubles,
         \/ Troubles' > Troubles
         \/ \A q \in Runs : Guards(w, q) /\ runs[q].status \in Active => Guards(w, q)',
         BeatInTime(w)'
  PROVE  AccountInv'
<1>1. \A v \in Workers : v # w => worker'[v] = worker[v]
  BY DEF SaneInv
<1>2. ASSUME NEW q \in Runs PROVE Accounted(q)'
  <2>1. Orphan(q)' => Orphan(q) \/ Troubles' > Troubles
    <3>1. ASSUME ~(Troubles' > Troubles), NEW v \in Workers, runs[q].status \in Active, Guards(v, q)
          PROVE  Guards(v, q)'
      <4>1. CASE v = w
        BY <3>1, <4>1
      <4>2. CASE v # w
        BY <1>1, <3>1, <4>2 DEF Guards, Holds
      <4> QED BY <4>1, <4>2
    <3> QED BY <3>1, NoNewOrphan
  <2> QED BY <2>1, StaysAccounted DEF AccountInv
<1>3. ASSUME NEW v \in Workers PROVE BeatInTime(v)'
  <2>1. CASE v # w
    BY <1>1, <2>1 DEF AccountInv, BeatInTime, Refreshable, RunOf
  <2> QED BY <2>1
<1> QED BY <1>2, <1>3 DEF AccountInv

\* A step about one run that leaves the other runs to who guards them.
LEMMA RowAccount ==
  ASSUME SaneInv, SaneInv', AccountInv, NEW r \in Runs,
         \A q \in Runs : q # r => runs'[q] = runs[q] /\ log'[q] = log[q],
         \A v \in Workers : \/ worker'[v] = worker[v]
                            \/ /\ Holds(v) => worker[v].run = r
                               /\ Holds(v)' => worker'[v].run = r,
         Troubles' >= Troubles, Accounted(r)',
         \A v \in Workers : worker'[v].run = r => BeatInTime(v)'
  PROVE  AccountInv'
<1>2. ASSUME NEW q \in Runs, q # r PROVE Accounted(q)'
  <2>1. ASSUME NEW v \in Workers, Guards(v, q) PROVE Guards(v, q)'
    <3>1. worker'[v] = worker[v]
      BY <1>2, <2>1 DEF Guards
    <3> QED BY <1>2, <2>1, <3>1 DEF Guards, Holds
  <2>2. Orphan(q)' => Orphan(q)
    BY <1>2, <2>1, NoNewOrphan
  <2>3. Retries(log'[q]) >= Retries(log[q])
    BY <1>2, AccountTypes
  <2> QED BY <1>2, <2>2, <2>3, StaysAccounted DEF AccountInv
<1>3. ASSUME NEW v \in Workers PROVE BeatInTime(v)'
  <2>1. CASE worker'[v].run = r
    BY <2>1
  <2>2. CASE worker'[v].run # r /\ worker'[v].beat # None
    <3>1. Holds(v)' /\ worker'[v].run \in Runs
      BY <2>2 DEF SaneInv, WorkerSane, Holds, Holding
    <3>2. worker'[v] = worker[v]
      BY <2>2, <3>1
    <3> QED BY <2>2, <3>1, <3>2 DEF AccountInv, BeatInTime, Refreshable, RunOf
  <2>3. CASE worker'[v].beat = None
    BY <2>3 DEF BeatInTime
  <2> QED BY <2>1, <2>2, <2>3
<1> QED BY <1>2, <1>3 DEF AccountInv

\* The same of a step of one process, which holds no other run before or after it.
LEMMA HolderAccount ==
  ASSUME SaneInv, SaneInv', AccountInv, NEW r \in Runs,
         \A q \in Runs : q # r => runs'[q] = runs[q] /\ log'[q] = log[q],
         NEW w \in Workers, NEW st \in WorkerState, worker' = [worker EXCEPT ![w] = st],
         Holds(w) => worker[w].run = r,
         st.pc \in Holding => st.run = r,
         Troubles' >= Troubles, Accounted(r)',
         \A v \in Workers : worker'[v].run = r => BeatInTime(v)'
  PROVE  AccountInv'
<1>1. \A v \in Workers : \/ worker'[v] = worker[v]
                         \/ /\ Holds(v) => worker[v].run = r
                            /\ Holds(v)' => worker'[v].run = r
  BY DEF SaneInv, Holds
<1> QED BY <1>1, RowAccount

\* A refresh: the lease is whole again, and the thread sleeps for less.
LEMMA RefreshAccount ==
  ASSUME SaneInv, SaneInv', AccountInv, NEW w \in Workers, Holds(w), NEW to \in Executing,
         RefreshIfOurs(w), UNCHANGED <<crashes, faults>>,
         \/ worker' = [worker EXCEPT ![w].pc = to, ![w].beat = RefreshSeconds]
         \/ /\ ~Refreshable(worker[w].run, w)
            /\ worker' = [worker EXCEPT ![w].pc = to, ![w].beat = None]
  PROVE  AccountInv'
<1>r. PICK r \in Runs : r = worker[w].run
  BY DEF SaneInv, WorkerSane
<1>1. StoreInv /\ worker[w] \in WorkerState /\ log' = log /\ Troubles' = Troubles
  BY DEF SaneInv, WorkerSane, RefreshIfOurs, RefreshLease, storeVars, Troubles
<1>2. PICK st \in WorkerState :
        /\ worker' = [worker EXCEPT ![w] = st]
        /\ st.pc = to /\ st.run = r
        /\ st.beat = RefreshSeconds \/ (st.beat = None /\ ~Refreshable(r, w))
  <2>1. to \in Holding /\ RefreshSeconds \in 0 .. RefreshSeconds
    BY DEF Holding
  <2>2. ASSUME NEW beat \in {RefreshSeconds, None}
        PROVE  LET st == [worker[w] EXCEPT !.pc = to, !.beat = beat] IN
               st \in WorkerState /\ st.pc = to /\ st.run = r /\ st.beat = beat
    BY <1>r, <1>1, <2>1, <2>2 DEF WorkerState
  <2>3. \/ worker' = [worker EXCEPT ![w] = [worker[w] EXCEPT !.pc = to, !.beat = RefreshSeconds]]
        \/ /\ ~Refreshable(r, w)
           /\ worker' = [worker EXCEPT ![w] = [worker[w] EXCEPT !.pc = to, !.beat = None]]
    BY <1>r DEF SaneInv
  <2> QED BY <2>2, <2>3
<1>3. worker'[w] = st /\ \A v \in Workers : v # w => worker'[v] = worker[v]
  BY <1>2 DEF SaneInv
<1>4. \A q \in Runs : Retries(log'[q]) >= Retries(log[q])
  BY <1>1, AccountTypes
<1>5. CASE ~Refreshable(r, w)
  <2>1. runs' = runs /\ ~Refreshable(r, w)'
    BY <1>r, <1>5 DEF RefreshIfOurs, RefreshLease, storeVars, Refreshable
  <2>2. ASSUME NEW q \in Runs, Guards(w, q), runs[q].status \in Active PROVE FALSE
    BY <1>r, <1>5, <2>2 DEF Guards, Refreshable
  <2>3. BeatInTime(w)'
    BY <1>2, <1>3, <2>1 DEF BeatInTime, Refreshable
  <2>4. Troubles' >= Troubles
    BY <1>1, AccountTypes
  <2> QED BY <1>2, <1>4, <2>1, <2>2, <2>3, <2>4, ProcessAccount
<1>6. CASE Refreshable(r, w)
  <2>1. RefreshLease(r, w) /\ st.beat = RefreshSeconds
    BY <1>r, <1>2, <1>6 DEF RefreshIfOurs
  <2>2. /\ runs'[r].lease = LeaseSeconds
        /\ runs'[r].status = runs[r].status /\ runs'[r].attempt_count = runs[r].attempt_count
        /\ runs'[r].worker_id = runs[r].worker_id
        /\ \A q \in Runs : q # r => runs'[q] = runs[q]
    BY <1>1, <2>1, RefreshLeaseRow DEF Same, Fields
  <2>3. Guards(w, r)'
    BY <1>2, <1>3, <1>6, <2>1, <2>2 DEF Guards, Holds, Holding, Refreshable
  <2>4. ~Orphan(r)'
    BY <2>2, <2>3 DEF Orphan
  <2>5. Accounted(r)'
    <3>1. Accounted(r) /\ Troubles' >= Troubles /\ Retries(log'[r]) >= Retries(log[r])
      BY <1>1, <1>4, AccountTypes DEF AccountInv
    <3>2. runs[r].status \in Waiting \/ runs'[r].status \notin Waiting
      BY <2>2
    <3> QED BY <2>2, <2>4, <3>1, <3>2, StaysAccounted
  <2>6. ASSUME NEW v \in Workers, worker'[v].run = r PROVE BeatInTime(v)'
    <3>1. CASE v = w
      BY <1>2, <1>3, <2>1, <2>2, <3>1 DEF BeatInTime, RunOf
    <3>2. CASE v # w
      BY <1>6, <2>2, <2>6, <3>2 DEF BeatInTime, Refreshable
    <3> QED BY <3>1, <3>2
  <2>7. Troubles' >= Troubles
    BY <1>1, AccountTypes
  <2>8. \A q \in Runs : q # r => runs'[q] = runs[q] /\ log'[q] = log[q]
    BY <1>1, <2>2
  <2> QED BY <1>r, <1>2, <2>5, <2>6, <2>7, <2>8, HolderAccount
<1> QED BY <1>5, <1>6

\* A claim: of a queued run, or of an orphan, which has an owner again.
LEMMA ClaimAccount ==
  ASSUME SaneInv, SaneInv', AccountInv, NEW w \in Workers, Claim(w)
  PROVE  AccountInv'
<1>1. PICK r \in Runs, locked \in SUBSET Runs :
        /\ ClaimNextRun(r, w, locked)
        /\ worker' = [worker EXCEPT ![w] =
             [Idle EXCEPT !.pc = "claimed", !.run = r, !.attempt = runs[r].attempt_count + 1]]
  BY DEF Claim
<1> DEFINE st == [Idle EXCEPT !.pc = "claimed", !.run = r, !.attempt = runs[r].attempt_count + 1]
<1>2. /\ StoreInv /\ worker[w].pc = "idle" /\ ~Holds(w)
      /\ Troubles' = Troubles /\ Troubles \in Nat
  BY <1>1, AccountTypes DEF SaneInv, Claim, Holds, Holding, Executing, Settling, Troubles
<1>3. worker' = [worker EXCEPT ![w] = st] /\ worker'[w] = st
  BY <1>1 DEF SaneInv
<1>4. st \in WorkerState /\ st.pc = "claimed" /\ st.run = r /\ st.beat = None
  BY <1>3 DEF SaneInv, Idle
<1> HIDE DEF st
<1>5. /\ runs[r].status = "queued" \/ (runs[r].status \in Active /\ runs[r].lease = 0)
      /\ runs'[r].status \in Active
      /\ runs'[r].worker_id = w
      /\ runs'[r].attempt_count = runs[r].attempt_count + 1
      /\ runs'[r].lease = LeaseSeconds
      /\ \A q \in Runs : q # r => runs'[q] = runs[q]
  BY <1>1, <1>2, ClaimNextRunRow DEF Active
<1>6. /\ log'[r] = Append(log[r], "run.started")
      /\ \A q \in Runs : q # r => log'[q] = log[q]
  BY <1>1, <1>2 DEF ClaimNextRun, InsertEvent, StoreInv
<1>7. Guards(w, r)'
  BY <1>3, <1>4, <1>5 DEF Guards, Holds, Holding, Settling
<1>8. ~Orphan(r)'
  BY <1>5, <1>7 DEF Orphan
<1>9. Retries(log'[r]) = Retries(log[r]) /\ Retries(log[r]) \in Nat /\ runs[r].attempt_count \in Nat
  BY <1>6, AccountTypes, RetriesOfAppend, EventKinds
<1>10. Accounted(r)'
  <2>1. Accounted(r)
    BY DEF AccountInv
  <2>2. CASE runs[r].status = "queued"
    BY <1>2, <1>5, <1>8, <1>9, <2>1, <2>2 DEF Accounted, Waiting, Active
  <2>3. CASE runs[r].status \in Active /\ runs[r].lease = 0
    <3>1. Orphan(r)
      BY <2>3 DEF Orphan
    <3> QED BY <1>2, <1>5, <1>8, <1>9, <2>1, <2>3, <3>1 DEF Accounted, Waiting, Active
  <2> QED BY <1>5, <2>2, <2>3
<1>11. ASSUME NEW v \in Workers, worker'[v].run = r PROVE BeatInTime(v)'
  <2>1. CASE v = w
    BY <1>3, <1>4, <2>1 DEF BeatInTime
  <2>2. CASE v # w
    BY <1>5, <1>11, <2>2 DEF BeatInTime, Refreshable
  <2> QED BY <2>1, <2>2
<1>12. /\ Troubles' >= Troubles
       /\ \A q \in Runs : q # r => runs'[q] = runs[q] /\ log'[q] = log[q]
  BY <1>2, <1>5, <1>6
<1> QED BY <1>2, <1>3, <1>4, <1>10, <1>11, <1>12, HolderAccount

\* A holder's outcome or retry: the run is nobody's afterwards.
LEMMA OutcomeAccount ==
  ASSUME SaneInv, SaneInv', AccountInv, NEW w \in Workers, Holds(w),
         NEW status, NEW event, NEW delay,
         \/ FinishRun(worker[w].run, status, event)
         \/ RequeueRun(worker[w].run, delay),
         <<status, event>> \in {<<"completed", "run.completed">>, <<"failed", "run.failed">>,
                                <<"cancelled", "run.cancelled">>},
         NEW st \in WorkerState, worker' = [worker EXCEPT ![w] = st],
         st.pc \in Holding => st.run = worker[w].run,
         Troubles' >= Troubles
  PROVE  AccountInv'
<1>r. PICK r \in Runs : r = worker[w].run
  BY DEF SaneInv, WorkerSane
<1>1. StoreInv /\ Accounted(r) /\ Troubles \in Nat /\ Troubles' \in Nat
  BY AccountTypes, AccountTypesNext DEF SaneInv, AccountInv
<1>2. PICK type \in EventType :
        /\ InsertEvent(r, type)
        /\ runs'[r].status \in Terminal \/ (runs'[r].status = "queued" /\ type = "run.retry_scheduled")
        /\ runs'[r].attempt_count = runs[r].attempt_count
        /\ \A q \in Runs : q # r => runs'[q] = runs[q]
  <2>1. ASSUME FinishRun(r, status, event)
        PROVE  /\ InsertEvent(r, event) /\ runs'[r].status \in Terminal
               /\ runs'[r].attempt_count = runs[r].attempt_count
               /\ \A q \in Runs : q # r => runs'[q] = runs[q]
               /\ event \in EventType
    BY <1>1, <2>1, FinishRunRow, EventKinds DEF FinishRun, Same, Terminal
  <2>2. ASSUME RequeueRun(r, delay)
        PROVE  /\ InsertEvent(r, "run.retry_scheduled") /\ runs'[r].status = "queued"
               /\ runs'[r].attempt_count = runs[r].attempt_count
               /\ \A q \in Runs : q # r => runs'[q] = runs[q]
               /\ "run.retry_scheduled" \in EventType
    BY <1>1, <2>2, RequeueRunRow, EventKinds DEF RequeueRun, Same
  <2> QED BY <1>r, <2>1, <2>2
<1>3. /\ log'[r] = Append(log[r], type)
      /\ \A q \in Runs : q # r => log'[q] = log[q]
  BY <1>1, <1>2 DEF InsertEvent, StoreInv
<1>4. /\ Retries(log[r]) \in Nat /\ runs[r].attempt_count \in Nat
      /\ Retries(log'[r]) = Retries(log[r]) + (IF type = "run.retry_scheduled" THEN 1 ELSE 0)
  BY <1>1, <1>3, AccountTypes, RetriesOfAppend
<1>5. runs'[r].status \notin Active /\ ~Orphan(r)'
  BY <1>2, EventKinds DEF Orphan
<1>6. Accounted(r)'
  <2>1. CASE runs'[r].status \in Terminal
    <3>1. runs'[r].status \notin Waiting
      BY <2>1 DEF Waiting, Terminal
    <3> QED BY <1>1, <1>2, <1>4, <1>5, <3>1 DEF Accounted
  <2>2. CASE type = "run.retry_scheduled"
    BY <1>1, <1>2, <1>4, <1>5, <2>2 DEF Accounted
  <2> QED BY <1>2, <2>1, <2>2
<1>7. ASSUME NEW v \in Workers, worker'[v].run = r PROVE BeatInTime(v)'
  BY <1>5, <1>7 DEF BeatInTime, Refreshable
<1>8. \A q \in Runs : q # r => runs'[q] = runs[q] /\ log'[q] = log[q]
  BY <1>2, <1>3
<1>9. (Holds(w) => worker[w].run = r) /\ (st.pc \in Holding => st.run = r)
  BY <1>r
<1> QED BY <1>6, <1>7, <1>8, <1>9, HolderAccount

\* The API: a run that is new, or a request.
LEMMA ApiAccount ==
  ASSUME SaneInv, SaneInv', AccountInv, NEW r \in Runs, Submit(r) \/ Cancel(r)
  PROVE  AccountInv'
<1>1. /\ StoreInv /\ worker' = worker /\ Troubles' = Troubles /\ Troubles \in Nat /\ Accounted(r)
      /\ Retries(log[r]) \in Nat /\ runs[r].attempt_count \in Nat
  BY AccountTypes DEF SaneInv, Submit, Cancel, Troubles, AccountInv
<1>2. CASE Submit(r)
  <2>1. PICK attempts \in 1 .. MaxAttempts, delay \in 0 .. MaxDelay : CreateRun(r, attempts, delay)
    BY <1>2 DEF Submit
  <2>2. /\ runs'[r].status = "queued" /\ runs'[r].attempt_count = 0
        /\ \A q \in Runs : q # r => runs'[q] = runs[q]
    BY <1>1, <2>1, CreateRunRow
  <2>3. \A q \in Runs : q # r => log'[q] = log[q]
    BY <1>1, <2>1 DEF CreateRun, StoreInv
  <2>4. runs'[r].status \notin Active /\ ~Orphan(r)'
    BY <2>2, EventKinds DEF Orphan
  <2>5. Retries(log'[r]) \in Nat
    BY RetriesOfAppend, EventKinds DEF SaneInv, StoreInv
  <2>6. Accounted(r)'
    BY <1>1, <2>2, <2>4, <2>5 DEF Accounted, Waiting
  <2>7. ASSUME NEW v \in Workers, worker'[v].run = r PROVE BeatInTime(v)'
    BY <2>4, <2>7 DEF BeatInTime, Refreshable
  <2> QED BY <1>1, <2>2, <2>3, <2>6, <2>7, RowAccount
<1>3. CASE Cancel(r)
  <2>1. CancelRun(r)
    BY <1>3 DEF Cancel
  <2>2. /\ \/ runs[r].status = "queued" /\ runs'[r].status = "cancelled"
           \/ /\ runs[r].status \in Active /\ runs'[r].status = "cancelling"
              /\ runs'[r].worker_id = runs[r].worker_id /\ runs'[r].lease = runs[r].lease
        /\ runs'[r].attempt_count = runs[r].attempt_count
        /\ \A q \in Runs : q # r => runs'[q] = runs[q]
    BY <1>1, <2>1, CancelRunRow DEF Same
  <2>3. PICK type \in {"run.cancelled", "run.cancel_requested"} : InsertEvent(r, type)
    BY <2>1 DEF CancelRun, CancelQueuedRun, CancelActiveRun
  <2>4. log'[r] = Append(log[r], type) /\ \A q \in Runs : q # r => log'[q] = log[q]
    BY <1>1, <2>3 DEF InsertEvent, StoreInv
  <2>5. Retries(log'[r]) = Retries(log[r])
    BY <1>1, <2>4, AccountTypes, RetriesOfAppend, EventKinds
  <2>6. Orphan(r)' => Orphan(r)
    BY <1>1, <2>2, EventKinds DEF Orphan, Guards, Holds, Terminal
  <2>7. Accounted(r)'
    BY <1>1, <2>2, <2>5, <2>6, StaysAccounted DEF Waiting
  <2>8. ASSUME NEW v \in Workers, worker'[v].run = r PROVE BeatInTime(v)'
    <3>1. BeatInTime(v)
      BY DEF AccountInv
    <3> QED BY <1>1, <2>2, <2>8, <3>1, EventKinds DEF BeatInTime, Refreshable, RunOf, Terminal
  <2> QED BY <1>1, <2>2, <2>4, <2>7, <2>8, RowAccount
<1> QED BY <1>2, <1>3

\* A tick: a thread that keeps the lease is not due, and a worker that settles is in time.
LEMMA TimeAccount ==
  ASSUME SaneInv, SaneInv', AccountInv, Time
  PROVE  AccountInv'
<1>1. /\ StoreInv /\ Tick /\ log' = log /\ Troubles' = Troubles
      /\ \A w \in Workers : Punctual(w)
  BY DEF SaneInv, Time, Tick, Troubles
<1>2. ASSUME NEW r \in Runs
      PROVE  /\ runs'[r].lease = IF runs[r].lease = None THEN None ELSE Sooner(runs[r].lease)
             /\ runs'[r].status = runs[r].status
             /\ runs'[r].attempt_count = runs[r].attempt_count
             /\ runs'[r].worker_id = runs[r].worker_id
             /\ runs[r].status \in Active => runs[r].lease \in Nat
  BY <1>1, TickRow, RowType DEF Same, Fields, Row, RowOK
<1>3. ASSUME NEW w \in Workers
      PROVE  /\ worker'[w].pc = worker[w].pc /\ worker'[w].run = worker[w].run
             /\ worker'[w].beat = IF worker[w].beat = None THEN None ELSE worker[w].beat - 1
             /\ worker[w].beat # 0
             /\ worker[w].beat \in Nat \union {None}
             /\ worker'[w].beat = None <=> worker[w].beat = None
  <2>1. worker[w] \in WorkerState /\ worker'[w] \in WorkerState /\ worker[w].beat # 0
    BY <1>1 DEF SaneInv, Punctual, HeartbeatDue
  <2>2. worker'[w] = [worker[w] EXCEPT !.beat = IF @ = None THEN None ELSE @ - 1]
    BY DEF Time
  <2>3. worker[w].beat \in (0 .. RefreshSeconds) \union {None}
    BY <2>1 DEF WorkerState
  <2>4. /\ worker'[w].pc = worker[w].pc /\ worker'[w].run = worker[w].run
        /\ worker'[w].beat = IF worker[w].beat = None THEN None ELSE worker[w].beat - 1
    BY <2>1, <2>2 DEF WorkerState
  <2>5. worker[w].beat # None => worker[w].beat - 1 \in Int
    BY <2>3
  <2> QED BY <2>1, <2>3, <2>4, <2>5
<1>4. ASSUME NEW r \in Runs, NEW w \in Workers, runs[r].status \in Active, Guards(w, r)
      PROVE  Guards(w, r)' /\ (runs[r].lease # 0 => runs'[r].lease # 0)
  <2>1. Guards(w, r)'
    BY <1>2, <1>3, <1>4 DEF Guards, Holds
  <2>2. Refreshable(r, w) /\ worker[w].run = r /\ RunOf(w) = runs[r]
    BY <1>4 DEF Guards, Refreshable, RunOf
  <2>3. runs[r].lease # 1
    <3>1. CASE worker[w].pc \in Settling
      BY <1>1, <2>2, <3>1 DEF Punctual
    <3>2. CASE worker[w].beat # None
      <4>1. worker[w].beat < runs[r].lease
        BY <2>2, <3>2 DEF AccountInv, BeatInTime
      <4> QED BY <1>2, <1>3, <1>4, <3>2, <4>1
    <3> QED BY <1>4, <3>1, <3>2 DEF Guards
  <2>4. runs[r].lease # 0 => runs'[r].lease # 0
    BY <1>2, <1>4, <2>3 DEF Sooner
  <2> QED BY <2>1, <2>4
<1>5. ASSUME NEW r \in Runs PROVE Accounted(r)'
  <2>1. Orphan(r)' => Orphan(r)
    <3> SUFFICES ASSUME Orphan(r)', ~Orphan(r) PROVE FALSE
      OBVIOUS
    <3>1. runs[r].status \in Active
      BY <1>2 DEF Orphan
    <3>2. PICK w \in Workers : Guards(w, r) /\ runs[r].lease # 0
      BY <3>1 DEF Orphan
    <3>3. Guards(w, r)' /\ runs'[r].lease # 0
      BY <1>4, <3>1, <3>2
    <3> QED BY <3>3 DEF Orphan
  <2>2. Retries(log'[r]) >= Retries(log[r]) /\ Troubles' >= Troubles
    BY <1>1, AccountTypes
  <2> QED BY <1>2, <2>1, <2>2, StaysAccounted DEF AccountInv
<1>6. ASSUME NEW w \in Workers PROVE BeatInTime(w)'
  <2>1. CASE worker'[w].beat # None /\ Refreshable(worker[w].run, w)'
    <3>1. worker[w].beat # None /\ worker[w].run \in Runs
      BY <1>3, <2>1, BeatsHold
    <3>2. Refreshable(worker[w].run, w) /\ worker[w].beat < RunOf(w).lease
      BY <1>2, <1>3, <2>1, <3>1 DEF Refreshable, AccountInv, BeatInTime
    <3>3. RunOf(w).lease \in Nat /\ RunOf(w).lease # None
      BY <1>2, <3>1, <3>2 DEF Refreshable, RunOf
    <3>4. worker[w].beat \in Nat \ {0} /\ worker'[w].beat = worker[w].beat - 1
      BY <1>3, <3>1
    <3>5. RunOf(w)'.lease = RunOf(w).lease - 1
      BY <1>2, <1>3, <3>1, <3>2, <3>3, <3>4 DEF RunOf, Sooner
    <3> QED BY <3>2, <3>3, <3>4, <3>5 DEF BeatInTime
  <2> QED BY <2>1 DEF BeatInTime
<1> QED BY <1>5, <1>6 DEF AccountInv

LEMMA TroublesType ==
  ASSUME SaneInv, SaneInv'
  PROVE  /\ Troubles \in Nat /\ Troubles' \in Nat
         /\ UNCHANGED <<crashes, faults>> => Troubles' = Troubles /\ Troubles' >= Troubles
<1>1. crashes \in Nat /\ faults \in Nat /\ crashes' \in Nat /\ faults' \in Nat
  BY DEF SaneInv, CountersOK
<1>2. \A m, n \in Nat : m + n \in Nat /\ m + n >= m + n
  OBVIOUS
<1>3. Troubles \in Nat /\ Troubles' \in Nat
  BY <1>1, <1>2 DEF Troubles
<1>4. ASSUME UNCHANGED <<crashes, faults>> PROVE Troubles' = Troubles
  BY <1>4 DEF Troubles
<1>5. Troubles' = Troubles => Troubles' >= Troubles
  BY <1>3
<1> QED BY <1>3, <1>4, <1>5

LEMMA AccountInit == FleetInit => AccountInv
<1> SUFFICES ASSUME FleetInit PROVE AccountInv
  OBVIOUS
<1>1. SaneInv
  BY SaneInit
<1>2. ASSUME NEW r \in Runs PROVE Accounted(r)
  <2>1. runs[r].attempt_count = 0 /\ runs[r].status \notin Active
    BY DEF FleetInit, StoreInit, NoRow, Active
  <2>2. ~Orphan(r)
    BY <2>1 DEF Orphan
  <2>3. Retries(log[r]) \in Nat /\ Troubles \in Nat
    BY <1>1, AccountTypes
  <2> QED BY <2>1, <2>2, <2>3 DEF Accounted
<1>3. \A w \in Workers : worker[w].beat = None
  BY DEF FleetInit, Idle
<1> QED BY <1>2, <1>3 DEF AccountInv, BeatInTime

\* A holder moves on: with the thread it has, or without one to where it settles.
LEMMA MoveAccount ==
  ASSUME SaneInv, SaneInv', AccountInv, runs' = runs, NEW w \in Workers, NEW to,
         \/ /\ Goto(w, to)
            /\ \/ worker[w].pc \in Executing /\ to \in Executing
               \/ worker[w].pc \in Settling /\ to \in Settling
         \/ LeaveFor(w, to) /\ worker[w].pc \in Executing /\ to \in Settling,
         \A q \in Runs : Retries(log'[q]) >= Retries(log[q]),
         Troubles' >= Troubles
  PROVE  AccountInv'
<1> DEFINE st == worker'[w]
<1>1. worker[w] \in WorkerState /\ st \in WorkerState
  BY DEF SaneInv
<1>2. /\ st.pc = to /\ st.run = worker[w].run
      /\ st.beat = worker[w].beat \/ (st.beat = None /\ to \in Settling)
      /\ worker' = [worker EXCEPT ![w] = st]
  <2>1. CASE Goto(w, to)
    BY <1>1, <2>1 DEF Goto, SaneInv, WorkerState
  <2>2. CASE LeaveFor(w, to) /\ to \in Settling
    BY <1>1, <2>2 DEF LeaveFor, SaneInv, WorkerState
  <2> QED BY <2>1, <2>2
<1>3. ASSUME NEW q \in Runs, Guards(w, q) PROVE Guards(w, q)'
  <2>1. to \in Settling \/ (worker[w].pc \in Executing /\ to \in Executing)
    OBVIOUS
  <2>2. to \in Settling \/ worker[w].beat # None
    BY <1>3, <2>1 DEF Guards, Executing, Settling
  <2>3. to \in Holding
    BY <2>1 DEF Holding
  <2> QED BY <1>2, <1>3, <2>2, <2>3 DEF Guards, Holds
<1>4. BeatInTime(w)'
  BY <1>2 DEF AccountInv, BeatInTime, Refreshable, RunOf
<1> HIDE DEF st
<1> QED BY <1>1, <1>2, <1>3, <1>4, ProcessAccount

\* What a worker reports is no retry.
LEMMA ReportAccount ==
  ASSUME SaneInv, SaneInv', AccountInv, NEW w \in Workers, NEW from, NEW to,
         NEW type \in ReportEvents, Report(w, from, type, to),
         \/ from \in Executing /\ to \in Executing
         \/ from \in Settling /\ to \in Settling
  PROVE  AccountInv'
<1>1. /\ worker[w].run \in Runs /\ StoreInv /\ type \in EventType
      /\ type # "run.retry_scheduled"
      /\ InsertEvent(worker[w].run, type) /\ runs' = runs
      /\ Goto(w, to) /\ worker[w].pc = from
  BY EventKinds DEF Report, AppendEvent, ReportEvents, SaneInv, WorkerSane, Holds, Holding
<1>2. ASSUME NEW q \in Runs PROVE Retries(log'[q]) >= Retries(log[q])
  <2>1. log'[q] = log[q] \/ log'[q] = Append(log[q], type)
    BY <1>1 DEF InsertEvent, StoreInv
  <2>2. log[q] \in Seq(EventType)
    BY <1>1 DEF StoreInv
  <2>3. Retries(log[q]) \in Nat /\ Retries(Append(log[q], type)) = Retries(log[q])
    BY <1>1, <2>2, RetriesOfAppend
  <2>4. Retries(log'[q]) = Retries(log[q]) /\ Retries(log[q]) \in Nat
    BY <2>1, <2>3
  <2>5. \A n \in Nat : n >= n
    OBVIOUS
  <2> QED BY <2>4, <2>5
<1>3. Troubles' >= Troubles
  BY TroublesType DEF Report
<1> QED BY <1>1, <1>2, <1>3, MoveAccount

\* One step of run_once and of execute().
LEMMA WorkAccount ==
  ASSUME SaneInv, SaneInv', AccountInv, NEW w \in Workers, Work(w)
  PROVE  AccountInv'
<1>1. Troubles' >= Troubles
  <2>1. UNCHANGED <<crashes, faults>>
    BY DEF Work, EnterExecution, Execute, CheckPasses, CheckRaises, Report, BodyRaises, Complete,
           Settle, SettleCancelled, SettleRejected, SettleRetryable
  <2> QED BY <2>1, TroublesType
<1>2. CASE EnterExecution(w)
  <2>1. /\ Holds(w) /\ "begin" \in Executing /\ UNCHANGED <<crashes, faults>>
        /\ RefreshIfOurs(w)
        /\ worker' = [worker EXCEPT ![w].pc = "begin", ![w].beat = RefreshSeconds]
    BY <1>2 DEF EnterExecution, Holds, Holding, Executing, Settling
  <2> QED BY <2>1, RefreshAccount
<1>3. CASE \/ CheckPasses(w, "begin", "begun") \/ CheckPasses(w, "body", "ended")
           \/ CheckRaises(w) \/ BodyRaises(w)
  <2>1. /\ runs' = runs /\ log' = log
        /\ \E to : \/ Goto(w, to) /\ worker[w].pc \in Executing /\ to \in Executing
                   \/ LeaveFor(w, to) /\ worker[w].pc \in Executing /\ to \in Settling
    BY <1>3 DEF CheckPasses, CheckRaises, BodyRaises, Executing, Settling
  <2>2. \A q \in Runs : Retries(log'[q]) >= Retries(log[q])
    BY <2>1, AccountTypes
  <2> QED BY <1>1, <2>1, <2>2, MoveAccount
<1>4. CASE \/ Report(w, "begun", "workflow.started", "body")
           \/ Report(w, "ended", "workflow.completed", "complete")
           \/ Report(w, "timed_out", "run.timeout_exceeded", "settle")
           \/ Report(w, "errored", "run.execution_failed", "settle")
  <2>1. /\ {"begun", "body", "ended", "complete"} \subseteq Executing
        /\ {"timed_out", "errored", "settle"} \subseteq Settling
        /\ {"workflow.started", "workflow.completed", "run.timeout_exceeded",
            "run.execution_failed"} \subseteq ReportEvents
    BY DEF Executing, Settling, ReportEvents
  <2> QED BY <1>4, <2>1, ReportAccount
<1>5. CASE Complete(w) \/ SettleCancelled(w) \/ SettleRejected(w) \/ SettleRetryable(w)
  <2>1. Holds(w) /\ Release(w)
    BY <1>5 DEF Complete, SettleCancelled, SettleRejected, SettleRetryable, Holds, Holding,
                Executing, Settling
  <2>2. \E status, event, delay :
          /\ \/ FinishRun(worker[w].run, status, event)
             \/ RequeueRun(worker[w].run, delay)
          /\ <<status, event>> \in {<<"completed", "run.completed">>, <<"failed", "run.failed">>,
                                   <<"cancelled", "run.cancelled">>}
    BY <1>5 DEF Complete, SettleCancelled, SettleRejected, SettleRetryable,
                MarkRunCompleted, MarkRunCancelled, MarkRunFailed
  <2>3. Idle \in WorkerState /\ Idle.pc \notin Holding /\ worker' = [worker EXCEPT ![w] = Idle]
    BY <2>1 DEF Idle, WorkerState, Release, Holding, Executing, Settling
  <2> QED BY <1>1, <2>1, <2>2, <2>3, OutcomeAccount
<1> QED BY <1>2, <1>3, <1>4, <1>5 DEF Work, Execute, Settle

\* The thread beats: it sleeps again, or it was not the owner's any more.
LEMMA HeartbeatAccount ==
  ASSUME SaneInv, SaneInv', AccountInv, NEW w \in Workers, Heartbeat(w)
  PROVE  AccountInv'
<1>1. worker[w].pc \in Executing /\ Holds(w) /\ worker[w] \in WorkerState
  BY BeatsHold DEF Heartbeat, HeartbeatDue, SaneInv
<1>2. [worker[w] EXCEPT !.pc = worker[w].pc] = worker[w]
  BY <1>1 DEF WorkerState
<1>3. /\ RefreshIfOurs(w) /\ UNCHANGED <<crashes, faults>>
      /\ \/ worker' = [worker EXCEPT ![w].pc = worker[w].pc, ![w].beat = RefreshSeconds]
         \/ /\ ~Refreshable(worker[w].run, w)
            /\ worker' = [worker EXCEPT ![w].pc = worker[w].pc, ![w].beat = None]
  BY <1>2 DEF Heartbeat, RefreshIfOurs, SaneInv
<1> QED BY <1>1, <1>3, RefreshAccount

\* A process that dies and a store call that raises may make an orphan; each is
\* counted.
LEMMA TroubleAccount ==
  ASSUME SaneInv, SaneInv', AccountInv, NEW w \in Workers,
         Crash(w) \/ HeartbeatRaises(w) \/ ExecutionStoreRaises(w)
  PROVE  AccountInv'
<1>1. Troubles' > Troubles
  <2>1. crashes \in Nat /\ faults \in Nat
    BY DEF SaneInv, CountersOK
  <2>2. \/ crashes' = crashes + 1 /\ faults' = faults
        \/ crashes' = crashes /\ faults' = faults + 1
    BY DEF Crash, HeartbeatRaises, ExecutionStoreRaises
  <2>3. \A m, n \in Nat : (m + 1) + n > m + n /\ m + (n + 1) > m + n
    OBVIOUS
  <2> QED BY <2>1, <2>2, <2>3 DEF Troubles
<1>2. Troubles' >= Troubles
  BY <1>1, TroublesType
<1>3. ASSUME UNCHANGED storeVars, worker'[w].beat = None,
             NEW st \in WorkerState, worker' = [worker EXCEPT ![w] = st]
      PROVE  AccountInv'
  <2>1. runs' = runs /\ log' = log
    BY <1>3 DEF storeVars
  <2>2. \A q \in Runs : Retries(log'[q]) >= Retries(log[q])
    BY <2>1, AccountTypes
  <2>3. BeatInTime(w)'
    BY <1>3 DEF BeatInTime
  <2> QED BY <1>1, <1>2, <1>3, <2>1, <2>2, <2>3, ProcessAccount
<1>4. CASE Crash(w)
  <2> DEFINE st == [Idle EXCEPT !.pc = "down"]
  <2>1. st \in WorkerState /\ st.beat = None
    BY DEF Idle, WorkerState
  <2>2. worker' = [worker EXCEPT ![w] = st] /\ UNCHANGED storeVars
    BY <1>4 DEF Crash, storeVars
  <2> HIDE DEF st
  <2> QED BY <1>3, <2>1, <2>2 DEF SaneInv
<1>5. CASE HeartbeatRaises(w)
  <2>1. worker' = [worker EXCEPT ![w].beat = None] /\ UNCHANGED storeVars
    BY <1>5 DEF HeartbeatRaises, storeVars
  <2>2. worker[w] \in WorkerState
    BY DEF SaneInv
  <2>3. /\ [worker[w] EXCEPT !.beat = None] \in WorkerState
        /\ [worker[w] EXCEPT !.beat = None].beat = None
        /\ worker' = [worker EXCEPT ![w] = [worker[w] EXCEPT !.beat = None]]
    BY <2>1, <2>2 DEF WorkerState, SaneInv
  <2> QED BY <1>3, <2>1, <2>3 DEF SaneInv
<1>6. CASE ExecutionStoreRaises(w)
  <2>1. worker[w].pc \in Executing /\ LeaveFor(w, "errored") /\ "errored" \in Settling
    BY <1>6 DEF ExecutionStoreRaises, Settling
  <2>2. CASE UNCHANGED storeVars
    <3>1. runs' = runs /\ log' = log
      BY <2>2 DEF storeVars
    <3>2. \A q \in Runs : Retries(log'[q]) >= Retries(log[q])
      BY <3>1, AccountTypes
    <3> QED BY <1>2, <2>1, <3>1, <3>2, MoveAccount
  <2>3. CASE MarkRunCompleted(worker[w].run)
    <3>1. Holds(w) /\ worker[w] \in WorkerState
      BY <2>1 DEF Holds, Holding, SaneInv
    <3> DEFINE st == [worker[w] EXCEPT !.pc = "errored", !.beat = None]
    <3>2. st \in WorkerState /\ st.run = worker[w].run
      BY <2>1, <3>1 DEF WorkerState, Holding
    <3>3. worker' = [worker EXCEPT ![w] = st]
      BY <2>1 DEF LeaveFor, SaneInv
    <3>4. FinishRun(worker[w].run, "completed", "run.completed")
      BY <2>3 DEF MarkRunCompleted
    <3> HIDE DEF st
    <3> QED BY <1>2, <3>1, <3>2, <3>3, <3>4, OutcomeAccount
  <2> QED BY <1>6, <2>2, <2>3 DEF ExecutionStoreRaises
<1> QED BY <1>4, <1>5, <1>6

\* A process that is started again held nothing.
LEMMA RestartAccount ==
  ASSUME SaneInv, SaneInv', AccountInv, NEW w \in Workers, Restart(w)
  PROVE  AccountInv'
<1>1. runs' = runs /\ log' = log /\ worker' = [worker EXCEPT ![w] = Idle]
  BY DEF Restart, Release
<1>2. \A q \in Runs : Retries(log'[q]) >= Retries(log[q])
  BY <1>1, AccountTypes
<1>3. Idle \in WorkerState /\ worker'[w].beat = None
  BY <1>1 DEF Idle, WorkerState, SaneInv
<1>4. Troubles' >= Troubles
  BY TroublesType DEF Restart
<1>5. \A q \in Runs : ~Guards(w, q)
  BY DEF Restart, Guards, Holds, Holding, Executing, Settling
<1>6. BeatInTime(w)'
  BY <1>3 DEF BeatInTime
<1> QED BY <1>1, <1>2, <1>3, <1>4, <1>5, <1>6, ProcessAccount

LEMMA AccountStep ==
  ASSUME SaneInv, SaneInv', AccountInv, [FleetNext]_vars
  PROVE  AccountInv'
<1>1. ASSUME NEW r \in Runs, Submit(r) \/ Cancel(r) PROVE AccountInv'
  BY <1>1, ApiAccount
<1>2. ASSUME NEW w \in Workers, Claim(w) PROVE AccountInv'
  BY <1>2, ClaimAccount
<1>3. ASSUME NEW w \in Workers, Work(w) PROVE AccountInv'
  BY <1>3, WorkAccount
<1>4. ASSUME NEW w \in Workers, Heartbeat(w) PROVE AccountInv'
  BY <1>4, HeartbeatAccount
<1>5. ASSUME NEW w \in Workers, Crash(w) \/ HeartbeatRaises(w) \/ ExecutionStoreRaises(w)
      PROVE  AccountInv'
  BY <1>5, TroubleAccount
<1>6. ASSUME NEW w \in Workers, Restart(w) PROVE AccountInv'
  BY <1>6, RestartAccount
<1>7. CASE Time
  BY <1>7, TimeAccount
<1>8. CASE UNCHANGED vars
  BY <1>8 DEF vars, AccountInv, Accounted, Orphan, Guards, Holds, Troubles, BeatInTime,
              Refreshable, RunOf
<1> QED BY <1>1, <1>2, <1>3, <1>4, <1>5, <1>6, <1>7, <1>8 DEF FleetNext

\* Every attempt but the first is accounted for by a retry that was announced, a
\* worker that died or a store call that raised, whatever raises: while a process
\* and its heartbeat thread are there, nobody takes its run over.
THEOREM AttemptsAreExplained == FleetSpec => []AttemptsAreAccountedFor
<1>1. SaneInv /\ AccountInv => AttemptsAreAccountedFor
  <2> SUFFICES ASSUME SaneInv, AccountInv, NEW r \in Runs
               PROVE  runs[r].attempt_count
                        <= 1 + Cardinality(Logged(r, "run.retry_scheduled")) + crashes + faults
    BY DEF AttemptsAreAccountedFor
  <2>1. /\ runs[r].attempt_count \in Nat /\ Retries(log[r]) \in Nat
        /\ crashes \in Nat /\ faults \in Nat
    BY AccountTypes
  <2>2. Retries(log[r]) = Cardinality(Logged(r, "run.retry_scheduled"))
    BY DEF Retries, Places, Logged
  <2>3. Accounted(r)
    BY DEF AccountInv
  <2> QED BY <2>1, <2>2, <2>3 DEF Accounted, Troubles
<1>2. SaneInv /\ SaneInv' /\ AccountInv /\ [FleetNext]_vars => AccountInv'
  BY AccountStep
<1> QED BY <1>1, <1>2, AccountInit, SaneInvariant, PTL DEF FleetSpec

-----------------------------------------------------------------------------
(* What the monitors keep *)

\* How long a worker may have been quiet while it owns its run.  The first refresh
\* marks nothing, so the time the claim took (the lease at claimed) and the time
\* to the first beat add up; a thread that is there marks before it refreshes
\* again; and when there is none, what is left of the lease was granted by a
\* refresh that came within a lease of the last mark.
QuietOK(w) ==
  /\ quiet[w] \in 0 .. StaleAfter + 1
  /\ Holds(w) /\ Refreshable(worker[w].run, w) =>
       /\ worker[w].pc = "claimed" =>
            RunOf(w).lease \in 1 .. LeaseSeconds /\ quiet[w] + RunOf(w).lease <= LeaseSeconds
       /\ worker[w].beat # None =>
            /\ worker[w].beat < RunOf(w).lease
            /\ quiet[w] + worker[w].beat < LeaseSeconds + RefreshSeconds
       /\ worker[w].pc # "claimed" =>
            RunOf(w).lease = 0 \/ quiet[w] + RunOf(w).lease < 2 * LeaseSeconds

\* The log of a completed run holds what the canary looks for.
Told(r) == Logged(r, "run.started") # {} /\ Logged(r, "run.completed") # {}

CanaryOK ==
  /\ canary \in CanaryState
  /\ canary.pc \in {"wait", "fetch", "recheck", "passed", "not_completed"} =>
       canary.run \in Runs /\ Exists(canary.run)
  /\ canary.pc # "events_missing"
  /\ canary.pc = "fetch" => /\ canary.status \in Terminal
                            /\ canary.status = "completed" => Told(canary.run)
  /\ faults = 0 =>
       /\ canary.pc = "fetch" => runs[canary.run].status = canary.status
       /\ canary.pc \in {"recheck", "passed"} => runs[canary.run].status = "completed"
       /\ canary.pc = "not_completed" => runs[canary.run].status \in {"failed", "cancelled"}

OpsInv ==
  /\ SaneInv
  /\ faults = 0 => FleetInv
  /\ quiet \in [Workers -> 0 .. StaleAfter + 1]
  /\ \A w \in Workers : QuietOK(w)
  /\ CanaryOK

USE OperationsAssumption

-----------------------------------------------------------------------------
(* The fleet under the monitors *)

\* The monitors and the canary add nothing to what the fleet may do: the canary
\* submits a run as any client does.
LEMMA OpsStepIsFleetStep == [OpsNext]_opsVars => [FleetNext]_vars
<1> SUFFICES ASSUME [OpsNext]_opsVars PROVE [FleetNext]_vars
  OBVIOUS
<1>1. CASE CreateCanaryRun
  <2>1. MaxAttempts \in 1 .. MaxAttempts /\ 0 \in 0 .. MaxDelay
    OBVIOUS
  <2>2. \E r \in Runs : Submit(r)
    BY <1>1, <2>1 DEF CreateCanaryRun, Submit
  <2> QED BY <2>2 DEF FleetNext
<1>2. CASE VerifyWorkerHealth \/ WaitForRunCompletion \/ FetchAndValidate
  BY <1>2 DEF VerifyWorkerHealth, WaitForRunCompletion, FetchAndValidate
<1>3. ASSUME NEW r \in Runs, Cancel(r) PROVE FleetNext
  BY <1>3 DEF FleetNext
<1>4. ASSUME NEW w \in Workers,
             \/ PollInVain(w) \/ ClaimMarks(w) \/ WorkMarks(w) \/ HeartbeatMarks(w)
             \/ RestartMarks(w) \/ Trouble(w)
      PROVE  [FleetNext]_vars
  BY <1>4 DEF PollInVain, ClaimMarks, WorkMarks, HeartbeatMarks, RestartMarks, Trouble, FleetNext
<1>5. CASE OpsTime
  BY <1>5 DEF OpsTime, FleetNext
<1>6. CASE UNCHANGED opsVars
  BY <1>6 DEF opsVars
<1> QED BY <1>1, <1>2, <1>3, <1>4, <1>5, <1>6 DEF OpsNext, CanaryStep

-----------------------------------------------------------------------------
(* How quiet a worker may be *)

\* w owns r afterwards only if it did before, with the same lease.
RowKept(w, r) == Refreshable(r, w)' => Refreshable(r, w) /\ runs'[r].lease = runs[r].lease

\* Every call but a claim and a refresh by w itself and the tick of the clock.
OthersCall(w) ==
  \/ \E r \in Runs, attempts \in 1 .. MaxAttempts, delay \in 0 .. MaxDelay :
       CreateRun(r, attempts, delay)
  \/ \E r \in Runs : CancelRun(r)
  \/ \E r \in Runs, v \in Workers \ {w}, locked \in SUBSET Runs : ClaimNextRun(r, v, locked)
  \/ \E r \in Runs, v \in Workers \ {w} : RefreshLease(r, v)
  \/ \E r \in Runs : WorkerWrites(r)
  \/ UNCHANGED storeVars

LEMMA OthersKeep ==
  ASSUME StoreInv, NEW w \in Workers, NEW q \in Runs, OthersCall(w)
  PROVE  RowKept(w, q)
<1>1. ASSUME runs'[q] = runs[q] PROVE RowKept(w, q)
  BY <1>1 DEF RowKept, Refreshable
<1>2. ASSUME NEW r \in Runs, NEW attempts \in 1 .. MaxAttempts, NEW delay \in 0 .. MaxDelay,
             CreateRun(r, attempts, delay)
      PROVE  RowKept(w, q)
  <2>1. runs'[r].status = "queued" /\ \A p \in Runs : p # r => runs'[p] = runs[p]
    BY <1>2, CreateRunRow
  <2> QED BY <1>1, <2>1 DEF RowKept, Refreshable, Active
<1>3. ASSUME NEW r \in Runs, CancelRun(r) PROVE RowKept(w, q)
  <2>1. /\ \/ runs'[r].status = "cancelled"
           \/ /\ runs[r].status \in Active
              /\ runs'[r].worker_id = runs[r].worker_id /\ runs'[r].lease = runs[r].lease
        /\ \A p \in Runs : p # r => runs'[p] = runs[p]
    BY <1>3, CancelRunRow DEF Same
  <2> QED BY <1>1, <2>1 DEF RowKept, Refreshable, Active
<1>4. ASSUME NEW r \in Runs, NEW v \in Workers \ {w}, NEW locked \in SUBSET Runs,
             ClaimNextRun(r, v, locked)
      PROVE  RowKept(w, q)
  <2>1. runs'[r].worker_id = v /\ v # w /\ \A p \in Runs : p # r => runs'[p] = runs[p]
    BY <1>4, ClaimNextRunRow
  <2> QED BY <1>1, <2>1 DEF RowKept, Refreshable
<1>5. ASSUME NEW r \in Runs, NEW v \in Workers \ {w}, RefreshLease(r, v) PROVE RowKept(w, q)
  <2>1. /\ v # w /\ runs[r].worker_id = v
        /\ runs'[r].worker_id = runs[r].worker_id /\ \A p \in Runs : p # r => runs'[p] = runs[p]
    BY <1>5, RefreshLeaseRow DEF Same, Fields, RefreshLease, Refreshable
  <2> QED BY <1>1, <2>1 DEF RowKept, Refreshable
<1>6. ASSUME NEW r \in Runs, WorkerWrites(r) PROVE RowKept(w, q)
  <2>1. ASSUME NEW delay, RequeueRun(r, delay) PROVE RowKept(w, q)
    <3>1. runs'[r].status = "queued" /\ \A p \in Runs : p # r => runs'[p] = runs[p]
      BY <2>1, RequeueRunRow
    <3> QED BY <1>1, <3>1 DEF RowKept, Refreshable, Active
  <2>2. ASSUME NEW status \in Terminal, NEW event, FinishRun(r, status, event)
        PROVE  RowKept(w, q)
    <3>1. runs'[r].status = status /\ \A p \in Runs : p # r => runs'[p] = runs[p]
      BY <2>2, FinishRunRow
    <3> QED BY <1>1, <3>1 DEF RowKept, Refreshable, Active, Terminal
  <2>3. ASSUME NEW type, AppendEvent(r, type) PROVE RowKept(w, q)
    BY <1>1, <2>3 DEF AppendEvent
  <2> QED BY <1>6, <2>1, <2>2, <2>3
          DEF WorkerWrites, MarkRunCompleted, MarkRunFailed, MarkRunCancelled, Terminal
<1>7. CASE UNCHANGED storeVars
  BY <1>1, <1>7 DEF storeVars
<1> QED BY <1>2, <1>3, <1>4, <1>5, <1>6, <1>7 DEF OthersCall

\* A worker that goes on with its run, with the thread it had or without, is as
\* quiet as it was.
LEMMA QuietFrame ==
  ASSUME OpsInv, NEW w \in Workers, quiet'[w] \in 0 .. StaleAfter + 1,
         Holds(w)' => /\ Holds(w) /\ worker'[w].run = worker[w].run /\ quiet'[w] = quiet[w]
                      /\ worker'[w].pc = "claimed" <=> worker[w].pc = "claimed"
                      /\ worker'[w].beat \in {worker[w].beat, None}
                      /\ RowKept(w, worker[w].run)
  PROVE  QuietOK(w)'
<1>1. CASE ~(Holds(w) /\ Refreshable(worker[w].run, w))'
  BY <1>1 DEF QuietOK
<1>2. CASE (Holds(w) /\ Refreshable(worker[w].run, w))'
  <2>1. /\ Holds(w) /\ worker'[w].run = worker[w].run /\ quiet'[w] = quiet[w]
        /\ worker'[w].pc = "claimed" <=> worker[w].pc = "claimed"
        /\ worker'[w].beat \in {worker[w].beat, None}
    BY <1>2
  <2>2. Refreshable(worker[w].run, w) /\ RunOf(w)'.lease = RunOf(w).lease
    BY <1>2, <2>1 DEF RowKept, Refreshable, RunOf
  <2>3. QuietOK(w)
    BY DEF OpsInv
  <2> QED BY <2>1, <2>2, <2>3 DEF QuietOK
<1> QED BY <1>1, <1>2

\* Each action of the fleet that is one process's leaves the others' states alone.
LEMMA ActorOnly ==
  ASSUME SaneInv, NEW v \in Workers, NEW w \in Workers, w # v,
         \/ Claim(v) \/ Work(v) \/ Heartbeat(v) \/ HeartbeatRaises(v)
         \/ ExecutionStoreRaises(v) \/ Crash(v) \/ Restart(v)
  PROVE  worker'[w] = worker[w] /\ OthersCall(w)
<1>1. worker \in [Workers -> WorkerState]
  BY DEF SaneInv
<1>2. CASE Claim(v)
  BY <1>1, <1>2 DEF Claim, OthersCall
<1>3. CASE EnterExecution(v)
  <2>1. worker[v].run \in Runs
    BY <1>3 DEF EnterExecution, SaneInv, WorkerSane, Holds, Holding, Settling
  <2> QED BY <1>1, <1>3, <2>1 DEF EnterExecution, RefreshIfOurs, OthersCall
<1>4. CASE Execute(v) \/ Settle(v)
  <2>1. OthersCall(w)
    BY <1>4, WorkWrites DEF OthersCall, SaneInv, WorkerSane
  <2>2. worker'[w] = worker[w]
    BY <1>1, <1>4 DEF Execute, CheckPasses, CheckRaises, Report, BodyRaises, Complete, Settle,
                      SettleCancelled, SettleRejected, SettleRetryable, Goto, LeaveFor, Release
  <2> QED BY <2>1, <2>2
<1>5. CASE Heartbeat(v)
  <2>1. worker[v].run \in Runs
    BY <1>5, BeatsHold DEF Heartbeat, HeartbeatDue
  <2> QED BY <1>1, <1>5, <2>1 DEF Heartbeat, OthersCall
<1>6. CASE ExecutionStoreRaises(v)
  <2>1. worker[v].run \in Runs
    BY <1>6 DEF ExecutionStoreRaises, SaneInv, WorkerSane, Holds, Holding
  <2> QED BY <1>1, <1>6, <2>1 DEF ExecutionStoreRaises, LeaveFor, OthersCall, WorkerWrites
<1>7. CASE HeartbeatRaises(v) \/ Crash(v) \/ Restart(v)
  BY <1>1, <1>7 DEF HeartbeatRaises, Crash, Restart, Release, OthersCall, storeVars
<1> QED BY <1>2, <1>3, <1>4, <1>5, <1>6, <1>7 DEF Work

\* A step of one process: the others are as quiet as they were.
LEMMA ActorQuiet ==
  ASSUME OpsInv, NEW v \in Workers,
         \/ Claim(v) \/ Work(v) \/ Heartbeat(v) \/ HeartbeatRaises(v)
         \/ ExecutionStoreRaises(v) \/ Crash(v) \/ Restart(v),
         Mark(v) \/ UNCHANGED quiet,
         QuietOK(v)'
  PROVE  quiet' \in [Workers -> 0 .. StaleAfter + 1] /\ \A w \in Workers : QuietOK(w)'
<1>1. quiet' \in [Workers -> 0 .. StaleAfter + 1] /\ \A w \in Workers : w # v => quiet'[w] = quiet[w]
  BY DEF OpsInv, Mark
<1>2. ASSUME NEW w \in Workers, w # v PROVE QuietOK(w)'
  <2>1. worker'[w] = worker[w] /\ OthersCall(w)
    BY <1>2, ActorOnly DEF OpsInv
  <2>2. Holds(w) => worker[w].run \in Runs
    BY DEF OpsInv, SaneInv, WorkerSane
  <2>3. Holds(w) => RowKept(w, worker[w].run)
    BY <2>1, <2>2, OthersKeep DEF OpsInv, SaneInv
  <2> QED BY <1>1, <1>2, <2>1, <2>3, QuietFrame DEF Holds
<1> QED BY <1>1, <1>2

LEMMA ClaimQuiet ==
  ASSUME OpsInv, NEW w \in Workers, Claim(w), Mark(w)
  PROVE  QuietOK(w)'
<1>1. PICK r \in Runs, locked \in SUBSET Runs :
        /\ ClaimNextRun(r, w, locked)
        /\ worker' = [worker EXCEPT ![w] =
             [Idle EXCEPT !.pc = "claimed", !.run = r, !.attempt = runs[r].attempt_count + 1]]
  BY DEF Claim
<1>2. worker'[w] = [Idle EXCEPT !.pc = "claimed", !.run = r, !.attempt = runs[r].attempt_count + 1]
  BY <1>1 DEF OpsInv, SaneInv
<1>3. worker'[w].pc = "claimed" /\ worker'[w].run = r /\ worker'[w].beat = None
  BY <1>2 DEF Idle
<1>4. quiet'[w] = 0
  BY DEF Mark, OpsInv
<1>5. runs'[r].lease = LeaseSeconds
  BY <1>1, ClaimNextRunRow DEF OpsInv, SaneInv
<1> QED BY <1>3, <1>4, <1>5 DEF QuietOK, RunOf

\* A refresh of the lease: by the first refresh, which marks nothing, at a time when
\* the lease of the claim is not over, or by the thread, which marks.
LEMMA RefreshQuiet ==
  ASSUME OpsInv, NEW w \in Workers, NEW q \in 0 .. StaleAfter + 1, quiet'[w] = q,
         q < LeaseSeconds, RefreshLease(worker[w].run, w), worker[w].run \in Runs,
         worker'[w].run = worker[w].run, worker'[w].pc # "claimed",
         worker'[w].beat = RefreshSeconds
  PROVE  QuietOK(w)'
<1>1. runs'[worker[w].run].lease = LeaseSeconds
  BY RefreshLeaseRow DEF OpsInv, SaneInv
<1> QED BY <1>1 DEF QuietOK, RunOf

LEMMA EnterQuiet ==
  ASSUME OpsInv, NEW w \in Workers, EnterExecution(w), UNCHANGED quiet
  PROVE  QuietOK(w)'
<1>1. /\ worker[w].pc = "claimed" /\ Holds(w) /\ worker[w].run \in Runs
      /\ worker[w] \in WorkerState /\ QuietOK(w)
  BY DEF EnterExecution, OpsInv, SaneInv, WorkerSane, Holds, Holding, Settling
<1>2. worker'[w] = [worker[w] EXCEPT !.pc = "begin", !.beat = RefreshSeconds]
  BY DEF EnterExecution, OpsInv, SaneInv
<1>3. worker'[w].pc = "begin" /\ worker'[w].run = worker[w].run /\ worker'[w].beat = RefreshSeconds
  BY <1>1, <1>2 DEF WorkerState
<1>4. CASE RefreshLease(worker[w].run, w)
  <2>1. quiet[w] < LeaseSeconds /\ quiet[w] \in 0 .. StaleAfter + 1
    BY <1>1, <1>4 DEF QuietOK, RefreshLease
  <2> QED BY <1>1, <1>3, <1>4, <2>1, RefreshQuiet
<1>5. CASE ~Refreshable(worker[w].run, w) /\ UNCHANGED storeVars
  <2>1. ~Refreshable(worker[w].run, w)'
    BY <1>3, <1>5 DEF Refreshable, storeVars
  <2> QED BY <1>1, <2>1 DEF QuietOK
<1> QED BY <1>4, <1>5 DEF EnterExecution, RefreshIfOurs

LEMMA HeartbeatQuiet ==
  ASSUME OpsInv, NEW w \in Workers, HeartbeatMarks(w)
  PROVE  QuietOK(w)'
<1>1. /\ worker[w].pc \in Executing /\ worker[w].run \in Runs
      /\ worker[w] \in WorkerState /\ QuietOK(w) /\ Heartbeat(w)
  BY BeatsHold DEF HeartbeatMarks, Heartbeat, HeartbeatDue, OpsInv, SaneInv
<1>2. CASE /\ RefreshLease(worker[w].run, w)
           /\ worker' = [worker EXCEPT ![w].beat = RefreshSeconds]
  <2>1. worker'[w] = [worker[w] EXCEPT !.beat = RefreshSeconds]
    BY <1>2 DEF OpsInv, SaneInv
  <2>2. /\ worker'[w].pc = worker[w].pc /\ worker'[w].run = worker[w].run
        /\ worker'[w].beat = RefreshSeconds /\ RefreshSeconds # None
    BY <1>1, <2>1 DEF WorkerState
  <2>3. quiet'[w] = 0
    BY <2>2 DEF HeartbeatMarks, Mark, OpsInv
  <2>4. worker[w].pc # "claimed"
    BY <1>1 DEF Executing
  <2> QED BY <1>1, <1>2, <2>2, <2>3, <2>4, RefreshQuiet
<1>3. CASE /\ ~Refreshable(worker[w].run, w)
           /\ worker' = [worker EXCEPT ![w].beat = None]
           /\ UNCHANGED storeVars
  <2>1. worker'[w] = [worker[w] EXCEPT !.beat = None]
    BY <1>3 DEF OpsInv, SaneInv
  <2>2. worker'[w].run = worker[w].run /\ worker'[w].beat = None
    BY <1>1, <2>1 DEF WorkerState
  <2>3. ~Refreshable(worker[w].run, w)' /\ quiet' = quiet
    BY <1>3, <2>2 DEF Refreshable, storeVars, HeartbeatMarks
  <2> QED BY <1>1, <2>2, <2>3 DEF QuietOK
<1> QED BY <1>1, <1>2, <1>3 DEF Heartbeat

\* The steps that neither claim nor refresh.
LEMMA WritesQuiet ==
  ASSUME OpsInv, NEW w \in Workers, Execute(w) \/ Settle(w) \/ ExecutionStoreRaises(w),
         IF worker'[w].pc = "idle" THEN Mark(w) ELSE UNCHANGED quiet
  PROVE  QuietOK(w)'
<1>1. /\ worker \in [Workers -> WorkerState] /\ worker[w] \in WorkerState /\ WorkerSane(w)
      /\ quiet[w] \in 0 .. StaleAfter + 1
  BY DEF OpsInv, SaneInv
<1>2. /\ Holds(w) /\ worker[w].pc # "claimed"
      /\ WorkerWrites(worker[w].run) \/ UNCHANGED storeVars
  <2>1. CASE Execute(w) \/ Settle(w)
    BY <2>1, WorkWrites
       DEF OpsInv, Execute, CheckPasses, CheckRaises, Report, BodyRaises, Complete, Settle,
           SettleCancelled, SettleRejected, SettleRetryable
  <2>2. CASE ExecutionStoreRaises(w)
    BY <2>2 DEF ExecutionStoreRaises, WorkerWrites, Holds, Holding, Executing
  <2> QED BY <2>1, <2>2
<1>3. worker[w].run \in Runs
  BY <1>1, <1>2 DEF WorkerSane
<1>4. RowKept(w, worker[w].run)
  BY <1>2, <1>3, OthersKeep DEF OthersCall, OpsInv, SaneInv
<1>5. \/ worker'[w].pc = "idle"
      \/ /\ worker'[w].run = worker[w].run /\ worker'[w].pc \notin {"claimed", "idle"}
         /\ worker'[w].beat \in {worker[w].beat, None}
  <2>1. CASE Release(w)
    BY <1>1, <2>1 DEF Release, Idle
  <2>2. ASSUME NEW to, to \notin {"claimed", "idle"}, Goto(w, to) \/ LeaveFor(w, to)
        PROVE  /\ worker'[w].run = worker[w].run /\ worker'[w].pc \notin {"claimed", "idle"}
               /\ worker'[w].beat \in {worker[w].beat, None}
    <3>1. \/ worker'[w] = [worker[w] EXCEPT !.pc = to]
          \/ worker'[w] = [worker[w] EXCEPT !.pc = to, !.beat = None]
      BY <1>1, <2>2 DEF Goto, LeaveFor
    <3> QED BY <1>1, <2>2, <3>1 DEF WorkerState
  <2> QED BY <2>1, <2>2
          DEF Execute, CheckPasses, CheckRaises, Report, BodyRaises, Complete, Settle,
              SettleCancelled, SettleRejected, SettleRetryable, ExecutionStoreRaises
<1>6. CASE worker'[w].pc = "idle"
  <2>1. quiet'[w] = 0 /\ ~Holds(w)'
    BY <1>6 DEF Mark, OpsInv, Holds, Holding, Executing, Settling
  <2> QED BY <2>1 DEF QuietOK
<1>7. CASE worker'[w].pc # "idle"
  BY <1>1, <1>2, <1>4, <1>5, <1>7, QuietFrame
<1> QED BY <1>6, <1>7

\* Where something raises or dies, or a process comes back.
LEMMA TroubleQuiet ==
  ASSUME OpsInv, NEW w \in Workers,
         HeartbeatRaises(w) \/ Crash(w) \/ Restart(w), Mark(w) \/ UNCHANGED quiet,
         HeartbeatRaises(w) => UNCHANGED quiet
  PROVE  QuietOK(w)'
<1>1. /\ worker \in [Workers -> WorkerState] /\ worker[w] \in WorkerState
      /\ quiet'[w] \in 0 .. StaleAfter + 1 /\ UNCHANGED storeVars
  BY DEF OpsInv, SaneInv, Mark, HeartbeatRaises, Crash, Restart, storeVars
<1>2. CASE HeartbeatRaises(w)
  <2>1. worker'[w] = [worker[w] EXCEPT !.beat = None]
    BY <1>1, <1>2 DEF HeartbeatRaises
  <2>2. /\ worker'[w].pc = worker[w].pc /\ worker'[w].run = worker[w].run
        /\ worker'[w].beat = None
    BY <1>1, <2>1 DEF WorkerState
  <2>3. worker[w].run \in Runs
    BY <1>2, BeatsHold DEF HeartbeatRaises, HeartbeatDue, OpsInv, SaneInv
  <2>4. RowKept(w, worker[w].run)
    BY <1>1, <2>3, OthersKeep DEF OthersCall, OpsInv, SaneInv
  <2> QED BY <1>1, <1>2, <2>2, <2>4, QuietFrame DEF Holds
<1>3. CASE Crash(w) \/ Restart(w)
  <2>1. ~Holds(w)'
    BY <1>1, <1>3 DEF Crash, Restart, Release, Idle, Holds, Holding, Executing, Settling
  <2> QED BY <1>1, <2>1 DEF QuietOK
<1> QED BY <1>2, <1>3

\* A tick takes from the lease and from the time to the next beat what it adds to
\* the silence; it does not come while a beat is due or a claimed run's lease is
\* at its last tick.
LEMMA TimeQuiet ==
  ASSUME OpsInv, OpsTime
  PROVE  quiet' \in [Workers -> 0 .. StaleAfter + 1] /\ \A w \in Workers : QuietOK(w)'
<1>1. StaleAfter \in Nat /\ quiet \in [Workers -> 0 .. StaleAfter + 1]
  BY DEF OpsInv
<1>2. ASSUME NEW w \in Workers
      PROVE  quiet'[w] \in 0 .. StaleAfter + 1 /\ quiet'[w] <= quiet[w] + 1
  <2>1. quiet'[w] = IF quiet[w] > StaleAfter THEN quiet[w] ELSE quiet[w] + 1
    BY DEF OpsTime, IsStale
  <2> QED BY <1>1, <2>1
<1>3. quiet' \in [Workers -> 0 .. StaleAfter + 1]
  BY <1>2 DEF OpsTime
<1>4. ASSUME NEW w \in Workers, (Holds(w) /\ Refreshable(worker[w].run, w))' PROVE QuietOK(w)'
  <2>1. /\ worker[w] \in WorkerState /\ WorkerSane(w) /\ Punctual(w) /\ QuietOK(w)
        /\ worker'[w] = [worker[w] EXCEPT !.beat = IF @ = None THEN None ELSE @ - 1]
    BY DEF OpsInv, SaneInv, OpsTime, Time
  <2>2. /\ worker'[w].pc = worker[w].pc /\ worker'[w].run = worker[w].run
        /\ worker'[w].beat = IF worker[w].beat = None THEN None ELSE worker[w].beat - 1
    BY <2>1 DEF WorkerState
  <2>3. Holds(w) /\ worker[w].run \in Runs
    BY <1>4, <2>1, <2>2 DEF Holds, WorkerSane
  <2> DEFINE r == worker[w].run
  <2>4. /\ runs'[r].lease = IF runs[r].lease = None THEN None ELSE Sooner(runs[r].lease)
        /\ runs'[r].status = runs[r].status /\ runs'[r].worker_id = runs[r].worker_id
    BY <2>3, TickRow DEF OpsInv, SaneInv, OpsTime, Time, Same, Fields
  <2>5. Refreshable(r, w)
    BY <1>4, <2>2, <2>4 DEF Refreshable
  <2>6. runs[r].lease \in 0 .. LeaseSeconds /\ RunOf(w)' = runs'[r] /\ RunOf(w) = runs[r]
    BY <2>2, <2>3, <2>5 DEF OpsInv, SaneInv, StoreInv, RowOK, Row, Refreshable, RunOf
  <2>7. runs'[r].lease = IF runs[r].lease = 0 THEN 0 ELSE runs[r].lease - 1
    BY <2>4, <2>6 DEF Sooner
  <2>8. ASSUME worker'[w].pc = "claimed"
        PROVE  RunOf(w)'.lease \in 1 .. LeaseSeconds /\ quiet'[w] + RunOf(w)'.lease <= LeaseSeconds
    <3>1. runs[r].lease \in 1 .. LeaseSeconds /\ quiet[w] + runs[r].lease <= LeaseSeconds
      BY <2>1, <2>2, <2>3, <2>5, <2>6, <2>8 DEF QuietOK
    <3>2. runs[r].lease # 1
      BY <2>1, <2>2, <2>5, <2>6, <2>8 DEF Punctual, Settling
    <3> QED BY <1>1, <1>2, <2>6, <2>7, <3>1, <3>2
  <2>9. ASSUME worker'[w].beat # None
        PROVE  /\ worker'[w].beat < RunOf(w)'.lease
               /\ quiet'[w] + worker'[w].beat < LeaseSeconds + RefreshSeconds
    <3>1. worker[w].beat # None /\ worker[w].beat \in 1 .. RefreshSeconds
      BY <2>1, <2>2, <2>9 DEF WorkerState, Punctual, HeartbeatDue
    <3>2. worker[w].beat < runs[r].lease /\ quiet[w] + worker[w].beat < LeaseSeconds + RefreshSeconds
      BY <2>1, <2>3, <2>5, <2>6, <3>1 DEF QuietOK
    <3> QED BY <1>1, <1>2, <2>2, <2>6, <2>7, <3>1, <3>2
  <2>10. ASSUME worker'[w].pc # "claimed"
         PROVE  RunOf(w)'.lease = 0 \/ quiet'[w] + RunOf(w)'.lease < 2 * LeaseSeconds
    <3>1. runs[r].lease = 0 \/ quiet[w] + runs[r].lease < 2 * LeaseSeconds
      BY <2>1, <2>2, <2>3, <2>5, <2>6, <2>10 DEF QuietOK
    <3> QED BY <1>1, <1>2, <2>6, <2>7, <3>1
  <2> QED BY <1>2, <2>8, <2>9, <2>10 DEF QuietOK
<1>5. ASSUME NEW w \in Workers, ~(Holds(w) /\ Refreshable(worker[w].run, w))' PROVE QuietOK(w)'
  BY <1>2, <1>5 DEF QuietOK
<1> QED BY <1>3, <1>4, <1>5

\* Clients, operators and idle polls leave every worker that holds a run as it was.
LEMMA OthersQuiet ==
  ASSUME OpsInv, UNCHANGED worker, \A w \in Workers : OthersCall(w),
         \/ UNCHANGED quiet
         \/ \E v \in Workers : worker[v].pc = "idle" /\ Mark(v)
  PROVE  quiet' \in [Workers -> 0 .. StaleAfter + 1] /\ \A w \in Workers : QuietOK(w)'
<1>1. quiet' \in [Workers -> 0 .. StaleAfter + 1]
  BY DEF OpsInv, Mark
<1>2. ASSUME NEW w \in Workers PROVE QuietOK(w)'
  <2>1. Holds(w) => quiet'[w] = quiet[w]
    BY DEF OpsInv, Mark, Holds, Holding, Executing, Settling
  <2>2. Holds(w) => worker[w].run \in Runs
    BY DEF OpsInv, SaneInv, WorkerSane
  <2>3. Holds(w) => RowKept(w, worker[w].run)
    BY <2>2, OthersKeep DEF OpsInv, SaneInv
  <2> QED BY <1>1, <2>1, <2>3, QuietFrame DEF Holds
<1> QED BY <1>1, <1>2

LEMMA OpsStepQuiet ==
  ASSUME OpsInv, [OpsNext]_opsVars
  PROVE  quiet' \in [Workers -> 0 .. StaleAfter + 1] /\ \A w \in Workers : QuietOK(w)'
<1>1. CASE CreateCanaryRun
  <2>1. MaxAttempts \in 1 .. MaxAttempts /\ 0 \in 0 .. MaxDelay
    OBVIOUS
  <2>2. \A w \in Workers : OthersCall(w)
    BY <1>1, <2>1 DEF CreateCanaryRun, OthersCall
  <2> QED BY <1>1, <2>2, OthersQuiet DEF CreateCanaryRun
<1>2. CASE VerifyWorkerHealth \/ WaitForRunCompletion \/ FetchAndValidate \/ UNCHANGED opsVars
  <2>1. UNCHANGED <<vars, quiet>>
    BY <1>2 DEF VerifyWorkerHealth, WaitForRunCompletion, FetchAndValidate, opsVars
  <2>2. UNCHANGED worker /\ \A w \in Workers : OthersCall(w)
    BY <2>1 DEF vars, OthersCall, storeVars
  <2> QED BY <2>1, <2>2, OthersQuiet
<1>3. ASSUME NEW r \in Runs, Cancel(r) /\ UNCHANGED <<quiet, canary>>
      PROVE  quiet' \in [Workers -> 0 .. StaleAfter + 1] /\ \A w \in Workers : QuietOK(w)'
  BY <1>3, OthersQuiet DEF Cancel, OthersCall
<1>4. ASSUME NEW w \in Workers, PollInVain(w)
      PROVE  quiet' \in [Workers -> 0 .. StaleAfter + 1] /\ \A v \in Workers : QuietOK(v)'
  BY <1>4, OthersQuiet DEF PollInVain, vars, OthersCall, storeVars
<1>5. ASSUME NEW w \in Workers,
             ClaimMarks(w) \/ WorkMarks(w) \/ HeartbeatMarks(w) \/ RestartMarks(w) \/ Trouble(w)
      PROVE  quiet' \in [Workers -> 0 .. StaleAfter + 1] /\ \A v \in Workers : QuietOK(v)'
  <2>1. QuietOK(w)'
    <3>1. CASE ClaimMarks(w)
      BY <3>1, ClaimQuiet DEF ClaimMarks
    <3>2. CASE WorkMarks(w) /\ EnterExecution(w)
      <4>1. worker'[w].pc # "idle"
        BY <3>2 DEF EnterExecution, OpsInv, SaneInv, WorkerState
      <4> QED BY <3>2, <4>1, EnterQuiet DEF WorkMarks
    <3>3. CASE WorkMarks(w) /\ (Execute(w) \/ Settle(w))
      BY <3>3, WritesQuiet DEF WorkMarks
    <3>4. CASE HeartbeatMarks(w)
      BY <3>4, HeartbeatQuiet
    <3>5. CASE Trouble(w) /\ ExecutionStoreRaises(w)
      <4>1. worker'[w].pc # "idle"
        BY <3>5 DEF ExecutionStoreRaises, LeaveFor, OpsInv, SaneInv, WorkerState
      <4> QED BY <3>5, <4>1, WritesQuiet DEF Trouble
    <3>6. CASE RestartMarks(w) \/ (Trouble(w) /\ (HeartbeatRaises(w) \/ Crash(w)))
      <4>1. RestartMarks(w) => ~HeartbeatRaises(w)
        BY BeatsHold DEF RestartMarks, Restart, HeartbeatRaises, HeartbeatDue, OpsInv, SaneInv,
                         Executing
      <4> QED BY <3>6, <4>1, TroubleQuiet DEF RestartMarks, Trouble
    <3>7. /\ WorkMarks(w) => EnterExecution(w) \/ Execute(w) \/ Settle(w)
          /\ Trouble(w) => HeartbeatRaises(w) \/ ExecutionStoreRaises(w) \/ Crash(w)
      BY DEF WorkMarks, Work, Trouble
    <3> QED BY <1>5, <3>1, <3>2, <3>3, <3>4, <3>5, <3>6, <3>7
  <2>2. \/ Claim(w) \/ Work(w) \/ Heartbeat(w) \/ HeartbeatRaises(w)
        \/ ExecutionStoreRaises(w) \/ Crash(w) \/ Restart(w)
    BY <1>5 DEF ClaimMarks, WorkMarks, HeartbeatMarks, RestartMarks, Trouble
  <2>3. Mark(w) \/ UNCHANGED quiet
    BY <1>5 DEF ClaimMarks, WorkMarks, HeartbeatMarks, RestartMarks, Trouble
  <2> QED BY <2>1, <2>2, <2>3, ActorQuiet
<1>6. CASE OpsTime
  BY <1>6, TimeQuiet
<1> QED BY <1>1, <1>2, <1>3, <1>4, <1>5, <1>6 DEF OpsNext, CanaryStep

-----------------------------------------------------------------------------
(* What the canary knows *)

\* A completed run was started, and both are in its log.
LEMMA CompletedIsTold ==
  ASSUME SaneInv, NEW r \in Runs, runs[r].status = "completed"
  PROVE  Told(r)
<1>1. LogOK(runs[r], log[r]) /\ runs[r].attempt_count > 0 /\ runs[r].attempt_count \in Nat
  BY RowType DEF SaneInv, StoreInv, Row
<1>2. PICK i \in DOMAIN log[r] :
        log[r][i] \in LifecycleEvents /\ "completed" \in StatusAfter(log[r][i])
  BY <1>1 DEF LogOK, Follows
<1>3. log[r][i] = "run.completed"
  BY <1>2 DEF StatusAfter, LifecycleEvents, Active
<1>4. Starts(log[r]) # {}
  <2>1. Cardinality(Starts(log[r])) # Cardinality({})
    BY <1>1, FS_EmptySet DEF LogOK
  <2> QED BY <2>1
<1> QED BY <1>3, <1>4 DEF Told, Logged, Starts

\* No call removes an event.
LEMMA ToldStays ==
  ASSUME StoreInv, [StoreCall]_storeVars, NEW r \in Runs, Exists(r), Told(r)
  PROVE  Told(r)'
<1>1. log[r] \in Seq(EventType) /\ LogStep(log[r], log'[r])
  BY StoreCallLog DEF StoreInv
<1>2. PICK i, j \in DOMAIN log[r] : log[r][i] = "run.started" /\ log[r][j] = "run.completed"
  BY DEF Told, Logged
<1>3. /\ i \in DOMAIN log'[r] /\ log'[r][i] = "run.started"
      /\ j \in DOMAIN log'[r] /\ log'[r][j] = "run.completed"
  <2>1. ASSUME NEW type \in EventType, log'[r] = Append(log[r], type)
        PROVE  /\ DOMAIN log[r] \subseteq DOMAIN log'[r]
               /\ \A k \in DOMAIN log[r] : log'[r][k] = log[r][k]
    BY <1>1, <2>1, Appended
  <2> QED BY <1>1, <1>2, <2>1 DEF LogStep
<1> QED BY <1>3 DEF Told, Logged

\* Whatever the fleet does, what the canary has read stays true, its status only
\* as long as no store call has raised.
LEMMA CanaryFrame ==
  ASSUME OpsInv, [FleetNext]_vars, NEW left \in 0 .. CanaryTimeout,
         canary' = [canary EXCEPT !.left = left]
  PROVE  CanaryOK'
<1>1. SaneInv /\ StoreInv /\ CanaryOK /\ canary \in CanaryState
  BY DEF OpsInv, SaneInv, CanaryOK
<1>2. /\ canary' \in CanaryState /\ canary'.pc = canary.pc
      /\ canary'.run = canary.run /\ canary'.status = canary.status
  BY <1>1 DEF CanaryState
<1>3. [StoreCall]_storeVars
  BY <1>1, FleetStepIsCall
<1>4. ASSUME NEW r \in Runs, Exists(r)
      PROVE  Exists(r)' /\ (Told(r) => Told(r)')
  BY <1>1, <1>3, <1>4, StoreCallRow, ToldStays DEF RowStep, Exists
<1>5. ASSUME faults' = 0, NEW r \in Runs, runs[r].status \in Terminal
      PROVE  faults = 0 /\ runs'[r].status = runs[r].status
  BY <1>1, <1>5, FaultsGrow, DecidedStay DEF OpsInv, SaneInv
<1>6. canary.pc \in {"wait", "fetch", "recheck", "passed", "not_completed"} =>
        canary.run \in Runs /\ Exists(canary.run)'
  BY <1>1, <1>4 DEF CanaryOK
<1>7. canary.pc = "fetch" => /\ canary.status \in Terminal
                             /\ canary.status = "completed" => Told(canary.run)'
  <2> SUFFICES ASSUME canary.pc = "fetch"
               PROVE  /\ canary.status \in Terminal
                      /\ canary.status = "completed" => Told(canary.run)'
    OBVIOUS
  <2>1. /\ canary.run \in Runs /\ Exists(canary.run) /\ canary.status \in Terminal
        /\ canary.status = "completed" => Told(canary.run)
    BY <1>1 DEF CanaryOK
  <2> QED BY <1>4, <2>1
<1>8. ASSUME faults' = 0
      PROVE  /\ canary.pc = "fetch" => runs'[canary.run].status = canary.status
             /\ canary.pc \in {"recheck", "passed"} => runs'[canary.run].status = "completed"
             /\ canary.pc = "not_completed" => runs'[canary.run].status \in {"failed", "cancelled"}
  <2>1. faults = 0
    BY <1>1, <1>8, FaultsGrow DEF SaneInv
  <2>2. /\ canary.pc = "fetch" => runs[canary.run].status = canary.status
        /\ canary.pc \in {"recheck", "passed"} => runs[canary.run].status = "completed"
        /\ canary.pc = "not_completed" => runs[canary.run].status \in {"failed", "cancelled"}
    BY <1>1, <2>1 DEF CanaryOK
  <2>3. canary.pc \in {"fetch", "recheck", "passed", "not_completed"} =>
          canary.run \in Runs /\ runs[canary.run].status \in Terminal
    BY <1>1, <2>2 DEF CanaryOK, Terminal
  <2> QED BY <1>5, <1>8, <2>2, <2>3
<1> QED BY <1>1, <1>2, <1>6, <1>7, <1>8 DEF CanaryOK, Told, Logged, Exists

\* The canary's own requests.
LEMMA CanaryMoves ==
  ASSUME OpsInv, CanaryStep
  PROVE  CanaryOK'
<1>1. SaneInv /\ CanaryOK /\ canary \in CanaryState
  BY DEF OpsInv, CanaryOK
<1>2. CASE VerifyWorkerHealth
  <2>1. UNCHANGED <<runs, log, faults>>
    BY <1>2 DEF VerifyWorkerHealth, vars
  <2>2. PICK pc \in {"create", "unhealthy", "passed"} :
          canary' = [canary EXCEPT !.pc = pc] /\ (pc = "passed" => canary.pc = "recheck")
    BY <1>2 DEF VerifyWorkerHealth, Says
  <2>3. /\ canary' \in CanaryState /\ canary'.pc = pc
        /\ canary'.run = canary.run /\ canary'.status = canary.status
    BY <1>1, <2>2 DEF CanaryState, CanaryVerdict
  <2> QED BY <1>1, <2>1, <2>2, <2>3 DEF CanaryOK, Exists
<1>3. CASE CreateCanaryRun
  <2>1. PICK r \in Runs : /\ CreateRun(r, MaxAttempts, 0)
                          /\ canary' = [canary EXCEPT !.pc = "wait", !.run = r]
    BY <1>3 DEF CreateCanaryRun
  <2>2. canary' \in CanaryState /\ canary'.pc = "wait" /\ canary'.run = r
    BY <1>1, <2>1 DEF CanaryState
  <2>3. runs'[r].status = "queued"
    BY <1>1, <2>1, CreateRunRow DEF SaneInv
  <2> QED BY <2>2, <2>3 DEF CanaryOK, Exists
<1>4. CASE WaitForRunCompletion
  <2>1. UNCHANGED <<runs, log, faults>>
    BY <1>4 DEF WaitForRunCompletion, vars
  <2>2. canary.run \in Runs /\ Exists(canary.run)
    BY <1>1, <1>4 DEF WaitForRunCompletion, CanaryOK
  <2>3. CASE Says("overdue")
    <3>1. canary' \in CanaryState /\ canary'.pc = "overdue"
      BY <1>1, <2>3 DEF Says, CanaryState, CanaryVerdict
    <3> QED BY <3>1 DEF CanaryOK
  <2>4. CASE /\ runs[canary.run].status \in Terminal
             /\ canary' = [canary EXCEPT !.pc = "fetch", !.status = runs[canary.run].status]
    <3>1. /\ canary' \in CanaryState /\ canary'.pc = "fetch" /\ canary'.run = canary.run
          /\ canary'.status = runs[canary.run].status
      BY <1>1, <2>4 DEF CanaryState
    <3>2. runs[canary.run].status = "completed" => Told(canary.run)
      BY <1>1, <2>2, CompletedIsTold
    <3> QED BY <2>1, <2>2, <2>4, <3>1, <3>2 DEF CanaryOK, Told, Logged, Exists
  <2> QED BY <1>4, <2>3, <2>4 DEF WaitForRunCompletion
<1>5. CASE FetchAndValidate
  <2>1. UNCHANGED <<runs, log, faults>>
    BY <1>5 DEF FetchAndValidate, vars
  <2>2. /\ canary.run \in Runs /\ Exists(canary.run) /\ canary.status \in Terminal
        /\ canary.status = "completed" => Told(canary.run)
        /\ faults = 0 => runs[canary.run].status = canary.status
    BY <1>1, <1>5 DEF FetchAndValidate, CanaryOK
  <2>3. Says(IF canary.status # "completed" THEN "not_completed" ELSE "recheck")
    BY <1>5, <2>2 DEF FetchAndValidate, Told
  <2>4. /\ canary' \in CanaryState /\ canary'.run = canary.run
        /\ canary'.pc = IF canary.status # "completed" THEN "not_completed" ELSE "recheck"
    BY <1>1, <2>3 DEF Says, CanaryState, CanaryVerdict
  <2> QED BY <2>1, <2>2, <2>4 DEF CanaryOK, Exists, Terminal
<1> QED BY <1>2, <1>3, <1>4, <1>5 DEF CanaryStep

LEMMA OpsStepCanary ==
  ASSUME OpsInv, [OpsNext]_opsVars
  PROVE  CanaryOK'
<1>1. CASE CanaryStep
  BY <1>1, CanaryMoves
<1>2. CASE ~CanaryStep
  <2>1. canary \in CanaryState /\ canary.left \in 0 .. CanaryTimeout
    BY DEF OpsInv, CanaryOK, CanaryState
  <2>2. CASE OpsTime
    <3>1. canary' = [canary EXCEPT !.left = IF canary.pc = "wait" THEN Sooner(@) ELSE @]
      BY <2>2 DEF OpsTime
    <3>2. (IF canary.pc = "wait" THEN Sooner(canary.left) ELSE canary.left) \in 0 .. CanaryTimeout
      BY <2>1 DEF Sooner
    <3> QED BY <3>1, <3>2, OpsStepIsFleetStep, CanaryFrame
  <2>3. CASE ~OpsTime
    <3>1. canary' = canary
      BY <1>2, <2>3 DEF OpsNext, opsVars, PollInVain, ClaimMarks, WorkMarks, HeartbeatMarks,
                        RestartMarks, Trouble
    <3>2. canary' = [canary EXCEPT !.left = canary.left]
      BY <2>1, <3>1 DEF CanaryState
    <3> QED BY <2>1, <3>2, OpsStepIsFleetStep, CanaryFrame
  <2> QED BY <2>2, <2>3
<1> QED BY <1>1, <1>2

-----------------------------------------------------------------------------
(* The theorems *)

LEMMA OpsInitInv == OpsInit => OpsInv
<1> SUFFICES ASSUME OpsInit PROVE OpsInv
  OBVIOUS
<1>1. SaneInv /\ FleetInv
  BY SaneInit, FleetInitInv DEF OpsInit
<1>2. quiet \in [Workers -> 0 .. StaleAfter + 1]
  BY DEF OpsInit
<1>3. ASSUME NEW w \in Workers PROVE QuietOK(w)
  <2>1. ~Holds(w)
    BY DEF OpsInit, FleetInit, Idle, Holds, Holding, Executing, Settling
  <2> QED BY <1>2, <2>1 DEF QuietOK
<1>4. CanaryOK
  BY DEF OpsInit, CanaryOK, CanaryState
<1> QED BY <1>1, <1>2, <1>3, <1>4 DEF OpsInv

LEMMA OpsStepInv ==
  ASSUME OpsInv, [OpsNext]_opsVars
  PROVE  OpsInv'
<1>1. [FleetNext]_vars /\ SaneInv /\ CountersOK
  BY OpsStepIsFleetStep DEF OpsInv, SaneInv
<1>2. SaneInv' /\ (faults' = 0 => FleetInv')
  BY <1>1, SaneStep, FaultsGrow, FleetStepInv DEF OpsInv
<1> QED BY <1>2, OpsStepQuiet, OpsStepCanary DEF OpsInv

LEMMA OpsInvariant == OpsSpec => []OpsInv
  BY OpsInitInv, OpsStepInv, PTL DEF OpsSpec

\* A monitored fleet is a fleet: what is proved of FleetSpec holds under the
\* monitors and the canary too.
THEOREM OperationsRefineFleet == OpsSpec => FleetSpec
<1>1. OpsInit => FleetInit
  BY DEF OpsInit
<1> QED BY <1>1, OpsStepIsFleetStep, PTL DEF OpsSpec, FleetSpec

\* No worker is reported stale while its heartbeat thread keeps its lease alive,
\* whatever the refresh interval, the lease and the threshold are, whatever raises
\* and whoever dies: restarting it costs no running work.
THEOREM StaleReportsAreSafe == OpsSpec => []StaleWorkersHaveNoHeartbeat
<1>1. OpsInv => StaleWorkersHaveNoHeartbeat
  <2> SUFFICES ASSUME OpsInv PROVE StaleWorkersHaveNoHeartbeat
    OBVIOUS
  <2>1. OpsTypeOK
    BY DEF OpsInv, OpsTypeOK, SaneInv, FleetTypeOK, StoreInv, StoreTypeOK, CountersOK, CanaryOK
  <2>2. ASSUME NEW w \in Workers,
               Holds(w), IsStale(w), Refreshable(worker[w].run, w), RunOf(w).lease > 0
        PROVE  /\ worker[w].pc # "claimed" /\ worker[w].beat = None
               /\ RunOf(w).lease + StaleAfter < 2 * LeaseSeconds - 1
    <3>1. quiet[w] \in Nat /\ quiet[w] > StaleAfter /\ StaleAfter \in Nat /\ QuietOK(w)
      BY <2>2 DEF OpsInv, IsStale
    <3>2. worker[w].run \in Runs /\ worker[w] \in WorkerState
      BY <2>2 DEF OpsInv, SaneInv, WorkerSane
    <3>3. RunOf(w).lease \in 1 .. LeaseSeconds
      BY <2>2, <3>2 DEF OpsInv, SaneInv, StoreInv, RowOK, Row, Refreshable, RunOf
    <3>4. worker[w].pc # "claimed"
      BY <2>2, <3>1, <3>3 DEF QuietOK
    <3>5. worker[w].beat = None
      <4>1. worker[w].beat = None \/ worker[w].beat \in Nat
        BY <3>2 DEF WorkerState
      <4> QED BY <2>2, <3>1, <4>1 DEF QuietOK
    <3>6. RunOf(w).lease + StaleAfter < 2 * LeaseSeconds - 1
      BY <2>2, <3>1, <3>3, <3>4 DEF QuietOK
    <3> QED BY <3>4, <3>5, <3>6
  <2> QED BY <2>1, <2>2 DEF StaleWorkersHaveNoHeartbeat
<1> QED BY <1>1, OpsInvariant, PTL

\* The canary's verdict is about the run as it stays, and it never misses an event.
THEOREM CanaryTellsTheTruth == OpsSpec => []CanaryIsHonest
<1>1. OpsInv => CanaryIsHonest
  BY DEF OpsInv, CanaryOK, CanaryIsHonest
<1> QED BY <1>1, OpsInvariant, PTL
=============================================================================
