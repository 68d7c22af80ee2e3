--------------------------- MODULE RuntimeExecution ---------------------------
(***************************************************************************)
(* The inside of an attempt, which WorkerFleet takes for one body: the     *)
(* RuntimeExecutor (executor.py) walks the graph of a workflow and reports *)
(* every workflow, node, tool call and model call it enters and leaves,    *)
(* with a look at the run's cancel request and deadline before and after.  *)
(* run_once decides what becomes of what it raises.                        *)
(*                                                                         *)
(* One run, without leases and clocks: a run whose worker died is claimed  *)
(* again, and its deadline passes at some time.  Store calls do not raise. *)
(* Every action is one transaction of the store or one body.               *)
(***************************************************************************)
EXTENDS Workflows

CONSTANTS
  MaxAttempts,  \* max_attempts of the run
  MaxCrashes,   \* bound: deaths of the worker
  MaxTrail      \* bound: the executor reports no more than this

ASSUME ExecutionAssumption ==
  MaxAttempts \in Nat \ {0} /\ MaxCrashes \in Nat /\ MaxTrail \in Nat

VARIABLES
  run,     \* what was submitted, and the columns of the run the executor reads
  trail,   \* the run's events, with the attempt that wrote them
  stack,   \* the executor's open calls, see Frame; the innermost is the last
  state,   \* the workflow's state
  raised,  \* the exception on its way to run_once
  asked,   \* the length of the trail when a cancellation was requested, or None
  bodies,  \* bodies that began since then
  late,    \* the run's deadline has passed: started_at survives retries
  crashes

execVars == <<run, trail, stack, state, raised, asked, bodies, late, crashes>>

Terminal == {"completed", "failed", "cancelled"}
Status == {"queued", "running", "cancelling"} \union Terminal

RunState == [workflow : Workflow, asks : Question, category : Categories,
             status : Status, attempt : Nat, failure : {None} \union Exception]

Kinds == {"workflow", "node", "tool", "model"}
Steps == {"enter", "start", "check", "body", "leave", "finish", "complete"}
Nodes == {"normalize_input", "generate_response", "classify", "prepare_tool_call",
          "select_tool", "execute_tool", "reason", "use_tool", "reason_with_model",
          "respond"} \union {RespondTo[c] : c \in Categories}

\* An open call: enter -check-> start -X.started-> check -check-> body -> leave
\* -check-> finish -X.completed->; after workflow.completed comes complete.
Frame == [kind : Kinds, node : Nodes \union {None}, pc : Steps]
Enter(kind, node) == [kind |-> kind, node |-> node, pc |-> "enter"]

\* The event kind.type: model.failed, run.started.
Event(type, kind, node, failure) ==
  [type |-> type, kind |-> kind, node |-> node, attempt |-> run.attempt, failure |-> failure]

Inputs(w) ==
  [asks     : IF w \in {"demo.tool.select", "demo.react.once", "demo.react"}
                THEN Question ELSE {"nothing"},
   category : IF w = "demo.route" THEN Categories ELSE {"statement"}]

ExecInit ==
  /\ \E w \in Workflow : \E i \in Inputs(w) :
       /\ run = [workflow |-> w, asks |-> i.asks, category |-> i.category,
                 status |-> "queued", attempt |-> 0, failure |-> None]
       /\ state = InitialState(w)
  /\ trail = <<>> /\ stack = <<>>
  /\ raised = None /\ asked = None /\ bodies = 0
  /\ late = FALSE /\ crashes = 0

Busy == stack # <<>> \/ raised # None
Top == Last(stack)
Under == Front(stack)
At(pc) == raised = None /\ stack # <<>> /\ Top.pc = pc
Goto(pc) == stack' = Append(Under, [Top EXCEPT !.pc = pc])

Write(event) == trail' = Append(trail, event)
Set(status) == run' = [run EXCEPT !.status = status]

-----------------------------------------------------------------------------
(* Around the executor *)

\* cancel_run: a queued run is cancelled at once.  One request is made.
RequestCancel ==
  /\ asked = None /\ run.status \in {"queued", "running"}
  /\ asked' = Len(trail)
  /\ IF run.status = "queued"
       THEN Set("cancelled") /\ Write(Event("cancelled", "run", None, None))
       ELSE Set("cancelling") /\ Write(Event("cancel_requested", "run", None, None))
  /\ UNCHANGED <<stack, state, raised, bodies, late, crashes>>

DeadlinePasses ==
  /\ ~late /\ run.attempt > 0
  /\ late' = TRUE
  /\ UNCHANGED <<run, trail, stack, state, raised, asked, bodies, crashes>>

\* claim_next_run, and execute() up to its first check.
ClaimRun ==
  /\ ~Busy
  /\ run.status \notin Terminal /\ run.attempt < MaxAttempts
  /\ run' = [run EXCEPT !.attempt = @ + 1,
               !.status = IF asked # None THEN "cancelling" ELSE "running"]
  /\ trail' = Append(trail, [Event("started", "run", None, None)
                               EXCEPT !.attempt = run.attempt + 1])
  /\ stack' = <<Enter("workflow", None)>>
  /\ state' = InitialState(run.workflow)
  /\ UNCHANGED <<raised, asked, bodies, late, crashes>>

Crash ==
  /\ Busy /\ crashes < MaxCrashes
  /\ crashes' = crashes + 1
  /\ stack' = <<>> /\ raised' = None
  /\ UNCHANGED <<run, trail, state, asked, bodies, late>>

-----------------------------------------------------------------------------
(* The executor *)

Checked == [enter |-> "start", check |-> "body", leave |-> "finish"]

\* Mutant: _assert_active looks at the deadline alone.
CheckDeadlineOnly ==
  /\ raised = None /\ stack # <<>> /\ Top.pc \in DOMAIN Checked
  /\ IF late THEN raised' = "timed_out" /\ UNCHANGED stack
     ELSE Goto(Checked[Top.pc]) /\ UNCHANGED raised
  /\ UNCHANGED <<run, trail, state, asked, bodies, late, crashes>>

\* _assert_active: the cancel request first, then the deadline.
Check ==
  /\ raised = None /\ stack # <<>> /\ Top.pc \in DOMAIN Checked
  /\ IF run.status = "cancelling" THEN raised' = "cancelled" /\ UNCHANGED stack
     ELSE IF late THEN raised' = "timed_out" /\ UNCHANGED stack
     ELSE Goto(Checked[Top.pc]) /\ UNCHANGED raised
  /\ UNCHANGED <<run, trail, state, asked, bodies, late, crashes>>

\* The append of X.started.
Start ==
  /\ At("start") /\ Len(trail) < MaxTrail
  /\ Write(Event("started", Top.kind, Top.node, None))
  /\ Goto("check")
  /\ UNCHANGED <<run, state, raised, asked, bodies, late, crashes>>

Begun == bodies' = IF asked = None THEN bodies ELSE bodies + 1

\* The body of a workflow is its graph: registry.get and _build_graph, which may
\* raise, and the first node; a node that wraps a tool or a model calls it.
Descend ==
  /\ At("body")
  /\ \/ /\ Top.kind = "workflow" /\ run.workflow \in Registered
        /\ stack' = Append(Append(Under, [Top EXCEPT !.pc = "leave"]), Enter("node", FirstNode))
     \/ /\ Top.kind = "node" /\ Wraps(Top.node) # "node"
        /\ stack' = Append(Append(Under, [Top EXCEPT !.pc = "leave"]),
                           Enter(Wraps(Top.node), Top.node))
  /\ UNCHANGED <<run, trail, state, raised, asked, bodies, late, crashes>>

BuildFails ==
  /\ At("body") /\ Top.kind = "workflow"
  /\ raised' \in BuildRaises(run.workflow)
  /\ UNCHANGED <<run, trail, stack, state, asked, bodies, late, crashes>>

HasBody == Top.kind # "workflow" /\ (Top.kind = "node" => Wraps(Top.node) = "node")

Body ==
  /\ At("body") /\ HasBody
  /\ state' \in Results(run.workflow, Top.node, state, run.asks, run.category)
  /\ Goto("leave")
  /\ Begun
  /\ UNCHANGED <<run, trail, raised, asked, late, crashes>>

BodyFails ==
  /\ At("body") /\ HasBody
  /\ raised' \in Raises(run.workflow, Top.node, state)
  /\ Begun
  /\ UNCHANGED <<run, trail, stack, state, asked, late, crashes>>

\* Mutant: a tool does not report its end.
FinishToolSilently ==
  /\ At("finish") /\ Len(trail) < MaxTrail /\ Top.kind # "workflow"
  /\ IF Top.kind = "tool" THEN UNCHANGED trail
     ELSE Write(Event("completed", Top.kind, Top.node, None))
  /\ stack' = IF Top.kind # "node" THEN Under
              ELSE LET next == Successor(run.workflow, Top.node, state)
                   IN IF next = "END" THEN Under ELSE Append(Under, Enter("node", next))
  /\ UNCHANGED <<run, state, raised, asked, bodies, late, crashes>>

\* The append of X.completed; after a node the graph goes to its successor.
Finish ==
  /\ At("finish") /\ Len(trail) < MaxTrail /\ Top.kind # "workflow"
  /\ Write(Event("completed", Top.kind, Top.node, None))
  /\ stack' = IF Top.kind # "node" THEN Under
              ELSE LET next == Successor(run.workflow, Top.node, state)
                   IN IF next = "END" THEN Under ELSE Append(Under, Enter("node", next))
  /\ UNCHANGED <<run, state, raised, asked, bodies, late, crashes>>

\* workflow.completed ...
FinishWorkflow ==
  /\ At("finish") /\ Len(trail) < MaxTrail /\ Top.kind = "workflow"
  /\ Write(Event("completed", "workflow", None, None))
  /\ Goto("complete")
  /\ UNCHANGED <<run, state, raised, asked, bodies, late, crashes>>

\* ... and mark_run_completed, without another check.
Complete ==
  /\ At("complete")
  /\ Set("completed")
  /\ Write(Event("completed", "run", None, None))
  /\ stack' = <<>>
  /\ UNCHANGED <<state, raised, asked, bodies, late, crashes>>

-----------------------------------------------------------------------------
(* Exceptions *)

\* The try block of _generate_response_value begins behind its first check; that
\* of _invoke_workflow_graph has a clause for ConfigurationError only.
TellsModelFailed ==
  \/ Top.kind = "model" /\ Top.pc # "enter"
  \/ Top.kind = "workflow" /\ Top.pc = "body" /\ raised = "misconfigured"

\* Mutant: the clause for any other exception is missing.
UnwindProviderOnly ==
  /\ raised # None /\ stack # <<>>
  /\ IF TellsModelFailed /\ raised \notin {"cancelled", "error"}
       THEN Write(Event("failed", "model", "generate_response", raised))
       ELSE UNCHANGED trail
  /\ stack' = <<>>
  /\ UNCHANGED <<run, state, raised, asked, bodies, late, crashes>>

\* The exception leaves every open call; model.failed is all that is reported.
Unwind ==
  /\ raised # None /\ stack # <<>>
  /\ IF TellsModelFailed
       THEN Write(Event("failed", "model", "generate_response", raised))
       ELSE UNCHANGED trail
  /\ stack' = <<>>
  /\ UNCHANGED <<run, state, raised, asked, bodies, late, crashes>>

\* What run_once gives another attempt.
Retryable == {"timed_out", "rate_limit_error", "connection_error", "service_error", "error"}

\* The two events of _handle_retryable_failure, or the one of another clause;
\* WorkerFleet has what may happen between its two transactions.
Explained(status, type) ==
  /\ run' = [run EXCEPT !.status = status, !.failure = raised]
  /\ trail' = trail \o
       (IF raised \notin Retryable THEN <<>>
        ELSE <<Event(IF raised = "timed_out" THEN "timeout_exceeded" ELSE "execution_failed",
                     "run", None, raised)>>)
       \o <<Event(type, "run", None, raised)>>

Settle ==
  /\ raised # None /\ stack = <<>>
  /\ IF raised = "cancelled" THEN Explained("cancelled", "cancelled")
     ELSE IF raised \in Retryable /\ run.attempt < MaxAttempts
       THEN Explained("queued", "retry_scheduled")
     ELSE Explained("failed", "failed")
  /\ raised' = None
  /\ UNCHANGED <<stack, state, asked, bodies, late, crashes>>

Execute ==
  \/ Check \/ Start \/ Descend \/ BuildFails \/ Body \/ BodyFails
  \/ Finish \/ FinishWorkflow \/ Complete \/ Unwind \/ Settle

ExecNext == RequestCancel \/ DeadlinePasses \/ ClaimRun \/ Crash \/ Execute

ExecSpec == ExecInit /\ [][ExecNext]_execVars

\* The executor is code that runs.
FairExecSpec == ExecSpec /\ WF_execVars(Execute)

-----------------------------------------------------------------------------
(* What the page makes of the trail: run-helpers.ts *)

StartsNode(e) == e.kind = "node" /\ e.type = "started"
EndsNode(e) == e.kind = "node" /\ e.type = "completed"

Latest(indices) == CHOOSE i \in indices : \A j \in indices : j <= i

\* Mutant: the last node that started.
FindActiveNodeStarted(events) ==
  LET starts == {i \in DOMAIN events : StartsNode(events[i])}
  IN IF starts = {} THEN None ELSE events[Latest(starts)].node

\* findActiveNode: the last start of a node that has not been completed anywhere
\* in the trail; None stands for the captions it falls back to.
FindActiveNode(events) ==
  LET completed == {events[i].node : i \in {j \in DOMAIN events : EndsNode(events[j])}}
      starts == {i \in DOMAIN events : StartsNode(events[i]) /\ events[i].node \notin completed}
  IN IF starts = {} THEN None ELSE events[Latest(starts)].node

\* buildFailureSummary: the last model.failed of the trail, whatever its attempt,
\* then the last run.timeout_exceeded, then the error of the run.
FailureSummary(events) ==
  LET Of(kind, type) == {i \in DOMAIN events : events[i].kind = kind /\ events[i].type = type}
  IN IF Of("model", "failed") # {} THEN events[Latest(Of("model", "failed"))].failure
     ELSE IF Of("run", "timeout_exceeded") # {}
       THEN events[Latest(Of("run", "timeout_exceeded"))].failure
     ELSE run.failure

-----------------------------------------------------------------------------
(* Correctness *)

ExecTypeOK ==
  /\ run \in RunState
  /\ \A i \in DOMAIN trail :
       /\ trail[i].kind \in Kinds \union {"run"} /\ trail[i].node \in Nodes \union {None}
       /\ trail[i].attempt \in 0 .. MaxAttempts
       /\ trail[i].failure \in {None} \union Exception
  /\ stack \in Seq(Frame) /\ Len(stack) <= 3
  /\ state \in WorkflowState
  /\ raised \in {None} \union Exception
  /\ asked \in {None} \union Nat /\ bodies \in Nat
  /\ late \in BOOLEAN /\ crashes \in 0 .. MaxCrashes

\* What an event does to the brackets that are open.
Bracket(open, e) ==
  IF e.type = "started" THEN Append(open, [kind |-> e.kind, node |-> e.node])
  ELSE IF open # <<>> /\ Last(open) = [kind |-> e.kind, node |-> e.node] THEN Front(open)
  ELSE Append(open, [kind |-> e.kind, node |-> "mismatch"])

\* The calls that the events of an attempt open and do not close, as brackets.
Open(events, attempt) ==
  FoldLeft(LAMBDA open, e :
             IF e.attempt = attempt /\ e.kind # "run" THEN Bracket(open, e) ELSE open,
           <<>>, events)

\* The calls of a stack that were reported as started and not as completed: only
\* of the innermost call one or the other may be missing.
Reported(frames) ==
  LET begun == IF frames # <<>> /\ Last(frames).pc \in {"enter", "start", "complete"}
                 THEN Front(frames) ELSE frames
  IN [i \in DOMAIN begun |-> [kind |-> begun[i].kind, node |-> begun[i].node]]

\* The events of an attempt, read as brackets, are the executor's call stack at
\* every moment: nothing is closed that was not opened, calls are nested, and a
\* completed attempt has closed all it opened.  The pages' graph of a run, with
\* its nodes that are idle, running and completed, depends on it.
TrailTellsStack ==
  /\ ExecTypeOK
  /\ stack # <<>> => Open(trail, run.attempt) = Reported(stack)
  /\ run.status = "completed" => Open(trail, run.attempt) = <<>>

\* After a cancel request at most one more body begins and at most two more
\* events are reported, model.failed included, however deep the executor is and
\* however often the run is claimed again: _assert_active surrounds every body.
CancelIsPrompt ==
  asked # None =>
    /\ bodies <= 1
    /\ Cardinality({i \in asked + 1 .. Len(trail) : trail[i].kind # "run"}) <= 2

Has(attempt, kind, type) ==
  {i \in DOMAIN trail : /\ trail[i].attempt = attempt
                        /\ trail[i].kind = kind /\ trail[i].type = type}

\* A model call of the executor that began and did not end is told as model.failed,
\* whatever ended it, and so is a configuration error, once and in the attempt that it
\* ends; nothing else is, unless a worker died.  What reason_with_model asks of the model
\* is a node's body to the executor: nothing of kind model is ever told of it.
ModelFailuresAreTold ==
  stack = <<>> /\ crashes = 0 =>
    \A a \in 1 .. run.attempt :
      LET calls    == Cardinality(Has(a, "model", "started"))
          answers  == Cardinality(Has(a, "model", "completed"))
          failures == Has(a, "model", "failed")
          refused  == {i \in failures : trail[i].failure = "misconfigured"}
          refusal  == a = run.attempt /\ "misconfigured" \in {raised, run.failure}
      IN /\ calls = answers + Cardinality(failures \ refused)
         /\ Cardinality(refused) = IF refusal THEN 1 ELSE 0

OpenNodes == {stack[i].node : i \in {j \in DOMAIN stack :
                stack[j].kind = "node" /\ stack[j].pc \notin {"enter", "start"}}}

\* In the first attempt the node the page calls active is the node the executor
\* is in; a node that is visited again is not found.
ActiveNodeIsOpen ==
  run.attempt = 1 /\ stack # <<>> =>
    \/ FindActiveNode(trail) = None
       /\ \A n \in OpenNodes : \E i \in DOMAIN trail : EndsNode(trail[i]) /\ trail[i].node = n
    \/ FindActiveNode(trail) \in OpenNodes

\* The failure the page explains is the one the run failed for, unless an earlier
\* attempt told of a model that failed: that explanation is the one shown.
FailureShownIsTheLast ==
  run.status = "failed" =>
    \/ FailureSummary(trail) = run.failure
    \/ \E a \in 1 .. run.attempt - 1 : Has(a, "model", "failed") # {}

\* So what the page makes of the trail, which it reads as if there was one attempt
\* and one visit per node, is true of the run: the node it calls active and the failure.
PageReadsTheTrail == ActiveNodeIsOpen /\ FailureShownIsTheLast

\* Every attempt ends: the graphs of demo.react and anthropic.react, which lead
\* back to a node they left, do so only finitely often.
AttemptsEnd == Busy ~> ~Busy

=============================================================================
