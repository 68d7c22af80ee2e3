-------------------------- MODULE IsolatedExecution --------------------------
(***************************************************************************)
(* One worker process with process isolation, its default: IsolatedExecutor*)
(* starts a child process that runs RuntimeExecutor on a _QueueBackedStore,*)
(* a snapshot of the run that sends its events and its result through a    *)
(* multiprocessing queue; an EventRelay thread of the parent writes them to*)
(* the store; the parent waits for the child, then for the relay, and      *)
(* writes the outcome.                                                     *)
(*                                                                         *)
(* Abstracted: the nodes of the workflow and their events; the heartbeat,  *)
(* which keeps the lease alive while the parent executes (WorkerFleet has  *)
(* it), so that the store's clock only matters while the worker is idle;   *)
(* calls of the store by the parent that raise: they end execute(), and    *)
(* run_once reports and retries them as in WorkerFleet.  The relay's call  *)
(* may raise, and the relay goes on.                                       *)
(***************************************************************************)
EXTENDS RunStore

CONSTANTS
  Self,        \* the worker
  MaxCancels,  \* bound: calls of the cancel endpoint per run that change it
  MaxCrashes,  \* bound: deaths of the worker process
  SlowStore,   \* BOOLEAN: the relay may take longer than its joins wait
  AppendsRaise, \* BOOLEAN: append_event may raise in the relay
  TornWrites   \* BOOLEAN: a child may be killed while it writes to the queue

ASSUME IsolationAssumption ==
  /\ Self \in Workers
  /\ None \notin {"cancelled", "timed_out", "transient", "permanent", "killed", "completed"}
  /\ MaxCancels \in Nat /\ MaxCrashes \in Nat
  /\ SlowStore \in BOOLEAN /\ AppendsRaise \in BOOLEAN /\ TornWrites \in BOOLEAN

VARIABLES
  parent,   \* the thread that runs run_once, see ParentState
  child,    \* the child process, see ChildState
  queue,    \* what was put on the event queue and not taken from it
  jammed,   \* the queue's write lock went down with a killed child
  relay,    \* the EventRelay thread, see RelayState
  late,     \* writes of relays that outlived their executor
  slow,     \* a join of the relay ran out while the relay had work
  lost,     \* lost[r]: what the relay of the run's last attempt could not write
  elapsed,  \* how far the run is in its time
  cancels,  \* cancels[r]: cancel requests so far
  crashes   \* deaths of the worker process so far

isoVars == <<runs, log, order, parent, child, queue, jammed, relay, late, slow,
             lost, elapsed, cancels, crashes>>

\* asked is the part of claim_next_run's snapshot that the child looks at.
ParentState == [pc    : {"idle", "claimed", "join", "overdue", "drain", "apply",
                         "lookup", "unresolved", "cleanup", "close"},
                run   : Runs \union {None},
                asked : BOOLEAN]
NoRun == [pc |-> "idle", run |-> None, asked |-> FALSE]

\* error is why the child did not come to its end: what execute() raised in it,
\* or a signal.
ChildState == [pc    : {"begin", "begun", "body", "ended", "complete", "done", "exited"},
               error : {None, "cancelled", "timed_out", "transient", "permanent", "killed"}]
Exited == [pc |-> "exited", error |-> None]

WorkflowEvents == {"workflow.started", "workflow.completed"}

\* head: about to look at _stop_event; get: waiting for the queue; write: about
\* to write msg to the log of run; off: not started or ended.
RelayState == [pc       : {"off", "head", "get", "write"},
               run      : Runs \union {None},
               msg      : {None} \union WorkflowEvents,
               result   : {None, "completed"},
               stopping : BOOLEAN]
NoRelay == [pc |-> "off", run |-> None, msg |-> None, result |-> None, stopping |-> FALSE]

Message == WorkflowEvents \union {"result", "sentinel"}

\* in_time: before the deadline of the run; late: after it; overdue: timeout + 30
\* seconds after the start of the child.
Elapsed == {"in_time", "late", "overdue"}

IsoInit ==
  /\ StoreInit
  /\ parent = NoRun
  /\ child = Exited
  /\ queue = <<>> /\ jammed = FALSE
  /\ relay = NoRelay
  /\ late = {} /\ slow = FALSE /\ lost = [r \in Runs |-> {}]
  /\ elapsed = "in_time"
  /\ cancels = [r \in Runs |-> 0]
  /\ crashes = 0

-----------------------------------------------------------------------------
(* The API and the store's clock *)

IsoSubmit(r) ==
  /\ \E attempts \in 1 .. MaxAttempts, delay \in 0 .. MaxDelay :
       CreateRun(r, attempts, delay)
  /\ UNCHANGED <<parent, child, queue, jammed, relay, late, slow, lost, elapsed, cancels, crashes>>

IsoCancel(r) ==
  /\ cancels[r] < MaxCancels
  /\ CancelRun(r)
  /\ cancels' = [cancels EXCEPT ![r] = @ + 1]
  /\ UNCHANGED <<parent, child, queue, jammed, relay, late, slow, lost, elapsed, crashes>>

IsoTime ==
  /\ parent.pc = "idle"
  /\ Tick
  /\ UNCHANGED <<parent, child, queue, jammed, relay, late, slow, lost, elapsed, cancels, crashes>>

\* Time goes by while the child runs.
Pass ==
  /\ parent.pc = "join" /\ elapsed # "overdue"
  /\ elapsed' = IF elapsed = "in_time" THEN "late" ELSE "overdue"
  /\ UNCHANGED <<runs, log, order, parent, child, queue, jammed, relay, late, slow, lost, cancels, crashes>>

-----------------------------------------------------------------------------
(* run_once and the start of execute() *)

IsoClaim ==
  /\ parent.pc = "idle"
  /\ \E r \in Runs, locked \in SUBSET Runs :
       /\ ClaimNextRun(r, Self, locked)
       /\ parent' = [pc |-> "claimed", run |-> r, asked |-> runs[r].cancel_requested]
       /\ lost' = [lost EXCEPT ![r] = {}]
  /\ UNCHANGED <<child, queue, jammed, relay, late, slow, elapsed, cancels, crashes>>

\* The queue, the relay and the child are made.  The deadline counts from the
\* first attempt of the run and may have passed already.
Spawn ==
  /\ parent.pc = "claimed"
  /\ \/ RefreshLease(parent.run, Self)
     \/ ~Refreshable(parent.run, Self) /\ UNCHANGED storeVars
  /\ parent' = [parent EXCEPT !.pc = "join"]
  /\ child' = [pc |-> "begin", error |-> None]
  /\ queue' = <<>> /\ jammed' = FALSE
  /\ relay' = [NoRelay EXCEPT !.pc = "head", !.run = parent.run]
  /\ elapsed' \in {"in_time", "late"}
  /\ UNCHANGED <<late, slow, lost, cancels, crashes>>

-----------------------------------------------------------------------------
(* The child: RuntimeExecutor.execute on the snapshot *)

\* Mutant: the child is not told of any request.
ChildChecksDeadlineOnly(from, to) ==
  /\ child.pc = from
  /\ elapsed = "in_time"
  /\ child' = [child EXCEPT !.pc = to]
  /\ UNCHANGED <<runs, log, order, parent, queue, jammed, relay, late, slow, lost, elapsed, cancels, crashes>>

\* _assert_active returns: the child's store never hears of a cancel request
\* that came after the claim.
ChildChecks(from, to) ==
  /\ child.pc = from
  /\ ~parent.asked /\ elapsed = "in_time"
  /\ child' = [child EXCEPT !.pc = to]
  /\ UNCHANGED <<runs, log, order, parent, queue, jammed, relay, late, slow, lost, elapsed, cancels, crashes>>

\* append_event and mark_run_completed of _QueueBackedStore.
ChildPuts(from, message, to) ==
  /\ child.pc = from
  /\ queue' = Append(queue, message)
  /\ child' = [child EXCEPT !.pc = to]
  /\ UNCHANGED <<runs, log, order, parent, jammed, relay, late, slow, lost, elapsed, cancels, crashes>>

\* _assert_active or a node raises.  Nobody catches the error in the child: it
\* exits, having flushed the queue, and what it raised is known to nobody.
ChildRaises ==
  /\ child.pc \in {"begin", "body"}
  /\ \E error \in {"cancelled", "timed_out", "transient", "permanent"} :
       /\ error = "cancelled" => parent.asked
       /\ error = "timed_out" => ~parent.asked /\ elapsed # "in_time"
       /\ error \in {"transient", "permanent"} => child.pc = "body"
       /\ child' = [pc |-> "exited", error |-> error]
  /\ UNCHANGED <<runs, log, order, parent, queue, jammed, relay, late, slow, lost, elapsed, cancels, crashes>>

ChildExits ==
  /\ child.pc = "done"
  /\ child' = [child EXCEPT !.pc = "exited"]
  /\ UNCHANGED <<runs, log, order, parent, queue, jammed, relay, late, slow, lost, elapsed, cancels, crashes>>

\* A signal kills the child: messages its feeder thread has not written yet are
\* lost, and with them, maybe, the lock the feeder holds while it writes.
Killed ==
  /\ child' = [pc |-> "exited", error |-> "killed"]
  /\ \E n \in 0 .. Len(queue) : queue' = SubSeq(queue, 1, n)
  /\ jammed' \in {FALSE, TornWrites}

\* RLIMIT_CPU or RLIMIT_AS.
LimitExceeded ==
  /\ child.pc # "exited"
  /\ Killed
  /\ UNCHANGED <<runs, log, order, parent, relay, late, slow, lost, elapsed, cancels, crashes>>

\* Mutant: the result is sent before the last event.
ChildNextResultFirst ==
  \/ ChildChecks("begin", "begun")
  \/ ChildPuts("begun", "workflow.started", "body")
  \/ ChildChecks("body", "ended")
  \/ ChildPuts("ended", "result", "complete")
  \/ ChildPuts("complete", "workflow.completed", "done")
  \/ ChildRaises
  \/ ChildExits
  \/ LimitExceeded

ChildNext ==
  \/ ChildChecks("begin", "begun")
  \/ ChildPuts("begun", "workflow.started", "body")
  \/ ChildChecks("body", "ended")
  \/ ChildPuts("ended", "workflow.completed", "complete")
  \/ ChildPuts("complete", "result", "done")
  \/ ChildRaises
  \/ ChildExits
  \/ LimitExceeded

-----------------------------------------------------------------------------
(* EventRelay.run *)

RelayLoops ==
  /\ relay.pc = "head"
  /\ relay' = [relay EXCEPT !.pc = IF relay.stopping THEN "off" ELSE "get"]
  /\ UNCHANGED <<runs, log, order, parent, child, queue, jammed, late, slow, lost, elapsed, cancels, crashes>>

\* queue.get(timeout=0.1)
RelayTakes ==
  /\ relay.pc = "get"
  /\ \/ /\ queue = <<>>
        /\ relay' = [relay EXCEPT !.pc = "head"]
        /\ UNCHANGED queue
     \/ /\ queue # <<>>
        /\ queue' = Tail(queue)
        /\ relay' = CASE Head(queue) = "sentinel" -> [relay EXCEPT !.pc = "off"]
                      [] Head(queue) = "result" ->
                           [relay EXCEPT !.pc = "off", !.result = "completed"]
                      [] OTHER -> [relay EXCEPT !.pc = "write", !.msg = Head(queue)]
  /\ UNCHANGED <<runs, log, order, parent, child, jammed, late, slow, lost, elapsed, cancels, crashes>>

\* When append_event raises, the relay logs it and goes on with the next message.
RelayWrites ==
  /\ relay.pc = "write"
  /\ \/ AppendEvent(relay.run, relay.msg) /\ UNCHANGED lost
     \/ /\ AppendsRaise
        /\ lost' = [lost EXCEPT ![relay.run] = @ \union {relay.msg}]
        /\ UNCHANGED storeVars
  /\ relay' = [relay EXCEPT !.pc = "head", !.msg = None]
  /\ UNCHANGED <<parent, child, queue, jammed, late, slow, elapsed, cancels, crashes>>

RelayNext == RelayLoops \/ RelayTakes \/ RelayWrites

\* The write of a relay nobody waits for any more.
LateWrite ==
  /\ \E write \in late :
       /\ \/ AppendEvent(write.run, write.msg)
          \/ AppendsRaise /\ UNCHANGED storeVars
       /\ late' = late \ {write}
  /\ UNCHANGED <<parent, child, queue, jammed, relay, slow, lost, elapsed, cancels, crashes>>

-----------------------------------------------------------------------------
(* The rest of execute() *)

ParentGoes(from, to) == parent.pc = from /\ parent' = [parent EXCEPT !.pc = to]

\* process.join(timeout) returns because the child has exited.
JoinReturns ==
  /\ ParentGoes("join", "drain")
  /\ child.pc = "exited"
  /\ UNCHANGED <<runs, log, order, child, queue, jammed, relay, late, slow, lost, elapsed, cancels, crashes>>

\* Mutant: join() has no timeout.
JoinNeverTimesOut == FALSE

\* It returns because the time is over: terminate(), kill().
JoinTimesOut ==
  /\ ParentGoes("join", "overdue")
  /\ child.pc # "exited" /\ elapsed = "overdue"
  /\ Killed
  /\ UNCHANGED <<runs, log, order, relay, late, slow, lost, elapsed, cancels, crashes>>

MarkOverdue ==
  /\ ParentGoes("overdue", "cleanup")
  /\ MarkRunFailed(parent.run)
  /\ UNCHANGED <<child, queue, jammed, relay, late, slow, lost, elapsed, cancels, crashes>>

\* Mutant: nobody waits for the relay.
DrainedAtOnce ==
  /\ ParentGoes("drain", "apply")
  /\ UNCHANGED <<runs, log, order, child, queue, jammed, relay, late, slow, lost, elapsed, cancels, crashes>>

RelayIsDone == relay.pc = "off" \/ (queue = <<>> /\ relay.pc # "write")

\* relay.join(timeout=5.0): with a fast store it only runs out when the relay
\* has nothing to do.
Drained ==
  /\ ParentGoes("drain", "apply")
  /\ \/ RelayIsDone /\ UNCHANGED slow
     \/ SlowStore /\ ~RelayIsDone /\ slow' = TRUE
  /\ UNCHANGED <<runs, log, order, child, queue, jammed, relay, late, lost, elapsed, cancels, crashes>>

ApplyResult ==
  /\ relay.result = "completed"
  /\ ParentGoes("apply", "cleanup")
  /\ MarkRunCompleted(parent.run)
  /\ UNCHANGED <<child, queue, jammed, relay, late, slow, lost, elapsed, cancels, crashes>>

NoResult ==
  /\ relay.result = None
  /\ ParentGoes("apply", "lookup")
  /\ UNCHANGED <<runs, log, order, child, queue, jammed, relay, late, slow, lost, elapsed, cancels, crashes>>

\* get_run and is_terminal
Lookup ==
  /\ \/ ParentGoes("lookup", "cleanup") /\ runs[parent.run].status \in Terminal
     \/ ParentGoes("lookup", "unresolved") /\ runs[parent.run].status \notin Terminal
  /\ UNCHANGED <<runs, log, order, child, queue, jammed, relay, late, slow, lost, elapsed, cancels, crashes>>

\* Mutant: a child that died is taken for a cancelled one.
MarkUnresolvedCancelled ==
  /\ ParentGoes("unresolved", "cleanup")
  /\ MarkRunCancelled(parent.run)
  /\ UNCHANGED <<child, queue, jammed, relay, late, slow, lost, elapsed, cancels, crashes>>

MarkUnresolved ==
  /\ ParentGoes("unresolved", "cleanup")
  /\ MarkRunFailed(parent.run)
  /\ UNCHANGED <<child, queue, jammed, relay, late, slow, lost, elapsed, cancels, crashes>>

\* Mutant: no stop event and no sentinel.
CleanupForgetsRelay ==
  /\ ParentGoes("cleanup", "close")
  /\ UNCHANGED <<runs, log, order, child, queue, jammed, relay, late, slow, lost, elapsed, cancels, crashes>>

\* relay.stop() and the sentinel, which waits for the lock of the queue.
Cleanup ==
  /\ ParentGoes("cleanup", "close")
  /\ relay' = [relay EXCEPT !.stopping = TRUE]
  /\ queue' = IF jammed THEN queue ELSE Append(queue, "sentinel")
  /\ UNCHANGED <<runs, log, order, child, jammed, late, slow, lost, elapsed, cancels, crashes>>

\* Mutant: the relay is not joined.
CloseWithoutJoin ==
  /\ parent.pc = "close"
  /\ late' = IF relay.pc = "write"
               THEN late \union {[run |-> relay.run, msg |-> relay.msg]} ELSE late
  /\ ~jammed
  /\ parent' = NoRun
  /\ child' = Exited
  /\ queue' = <<>>
  /\ relay' = NoRelay
  /\ UNCHANGED <<runs, log, order, jammed, slow, lost, elapsed, cancels, crashes>>

\* relay.join(timeout=2.0), then join_thread(), which waits for the feeder of
\* the sentinel however long that takes.
Close ==
  /\ parent.pc = "close"
  /\ \/ relay.pc = "off" /\ UNCHANGED <<late, slow>>
     \/ /\ SlowStore /\ relay.pc = "write"
        /\ late' = late \union {[run |-> relay.run, msg |-> relay.msg]}
        /\ slow' = TRUE
  /\ ~jammed
  /\ parent' = NoRun
  /\ child' = Exited
  /\ queue' = <<>>
  /\ relay' = NoRelay
  /\ UNCHANGED <<runs, log, order, jammed, lost, elapsed, cancels, crashes>>

ParentNext ==
  \/ Spawn \/ JoinReturns \/ JoinTimesOut \/ MarkOverdue \/ Drained \/ ApplyResult
  \/ NoResult \/ Lookup \/ MarkUnresolved \/ Cleanup \/ Close

\* The worker process dies with its threads and comes back.  Its child lives on,
\* but nobody reads what it sends.
IsoCrash ==
  /\ crashes < MaxCrashes
  /\ crashes' = crashes + 1
  /\ parent' = NoRun
  /\ child' = Exited
  /\ queue' = <<>> /\ jammed' = FALSE
  /\ relay' = NoRelay
  /\ late' = {}
  /\ UNCHANGED <<runs, log, order, slow, lost, elapsed, cancels>>

IsoNext ==
  \/ \E r \in Runs : IsoSubmit(r) \/ IsoCancel(r)
  \/ IsoTime \/ Pass
  \/ IsoClaim \/ ParentNext \/ ChildNext \/ RelayNext \/ LateWrite
  \/ IsoCrash

IsoSpec == IsoInit /\ [][IsoNext]_isoVars

\* The worker's threads go on and time passes.  Nothing is assumed of the child:
\* it may hang in a node for ever.
IsoFairness ==
  /\ WF_isoVars(ParentNext)
  /\ WF_isoVars(RelayNext)
  /\ WF_isoVars(LateWrite)
  /\ WF_isoVars(Pass)

FairIsoSpec == IsoSpec /\ IsoFairness

-----------------------------------------------------------------------------
(* Correctness *)

IsoTypeOK ==
  /\ StoreTypeOK
  /\ parent \in ParentState
  /\ child \in ChildState
  /\ queue \in Seq(Message)
  /\ jammed \in BOOLEAN
  /\ relay \in RelayState
  /\ late \subseteq [run : Runs, msg : Message]
  /\ slow \in BOOLEAN
  /\ lost \in [Runs -> SUBSET WorkflowEvents]
  /\ elapsed \in Elapsed
  /\ cancels \in [Runs -> 0 .. MaxCancels]
  /\ crashes \in 0 .. MaxCrashes

At(r, type) == {i \in DOMAIN log[r] : log[r][i] = type}
LastStart(r) == CHOOSE i \in At(r, "run.started") :
                  \A j \in At(r, "run.started") : j <= i

\* From the start at place s on: the events told, of the two of the workflow, in
\* their order and once, then the outcome, and nothing else but cancel requests.
Whole(events, s, told) ==
  /\ events[Len(events)] = "run.completed"
  /\ \E at \in [told -> s + 1 .. Len(events) - 1] :
       /\ \A type \in told : events[at[type]] = type
       /\ told = WorkflowEvents => at["workflow.started"] < at["workflow.completed"]
       /\ \A k \in s + 1 .. Len(events) - 1 :
            events[k] = "run.cancel_requested" \/ \E type \in told : k = at[type]

\* A completed run has the story of its last attempt, in order and once, however
\* often it was tried to cancel meanwhile: the result comes through the queue behind
\* every event.  It has a hole exactly where append_event raised in the relay, which
\* does not keep the run from completing.
CompletedRunsAreWhole ==
  /\ IsoTypeOK
  /\ \A r \in Runs : runs[r].status = "completed" =>
       Whole(log[r], LastStart(r), WorkflowEvents \ lost[r])

\* A cancel request that came before the last claim of a run is honoured: the run
\* does not complete.  The child knows it from its snapshot; a request that comes
\* after the claim it never hears of, and the run completes all the same.
EarlyRequestsAreHonoured ==
  \A r \in Runs : runs[r].status = "completed" =>
    \A i \in At(r, "run.cancel_requested") : i > LastStart(r)

\* Unless the store was too slow for the relay, a run does not fail if its child
\* came to its end.
ResultsAreNotLost ==
  (parent.pc = "close" /\ runs[parent.run].status = "failed") => child.error # None \/ slow

\* No relay writes to a run after its executor returned, say into the log of the
\* run's next attempt or of a run that another process decides: unless the store
\* was too slow for the relay.
NoLateWrites == late # {} => slow

\* execute() returns, whatever the child does, if the child did not take the lock
\* of the queue with it.
ExecuteReturns == parent.pc = "join" ~> (parent.pc = "idle" \/ jammed)

\* Every run that is handed to a child is decided, though the child may hang,
\* die or raise.
ChildrenAreAccountedFor ==
  \A r \in Runs :
    (parent.pc = "join" /\ parent.run = r) ~> (runs[r].status \in Terminal \/ crashes > 0)

\* Isolation keeps the promises of RunLifecycle.
IsolationImplementsLifecycle == Life!LifeSpec

\* What the documents say of errors, without a word on isolation: failures that are
\* not cancellations are retried up to max_attempts.
FailuresAreRetried ==
  (parent.pc = "close" /\ child.error \in {"transient", "timed_out"})
    => runs[parent.run].status # "failed"
       \/ runs[parent.run].attempt_count = runs[parent.run].max_attempts
=============================================================================
