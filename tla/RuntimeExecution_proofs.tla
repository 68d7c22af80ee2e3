----------------------- MODULE RuntimeExecution_proofs -----------------------
(***************************************************************************)
(* What an attempt reports, for every number of attempts, crashes, tool    *)
(* calls and events: a cancellation is prompt, every model call that fails *)
(* is told, its events nest as its calls do, and the page reads a true     *)
(* story.                                                                  *)
(***************************************************************************)
EXTENDS RuntimeExecution, FiniteSetTheorems, SequenceTheorems, WellFoundedInduction,
        NaturalsInduction, TLAPS

Types == {"started", "completed", "failed", "cancelled", "cancel_requested",
          "timeout_exceeded", "execution_failed", "retry_scheduled"}

TrailEvent == [type : Types, kind : Kinds \union {"run"}, node : Nodes \union {None},
               attempt : 0 .. MaxAttempts, failure : {None} \union Exception]

\* The attempts told of are those made.
TrailOK ==
  /\ trail \in Seq(TrailEvent)
  /\ \A i \in DOMAIN trail : trail[i].attempt <= run.attempt

TypesOK ==
  /\ run \in RunState /\ run.attempt <= MaxAttempts
  /\ TrailOK
  /\ state \in WorkflowState
  /\ raised \in {None} \union Exception
  /\ asked \in {None} \union Nat /\ bodies \in Nat
  /\ late \in BOOLEAN /\ crashes \in 0 .. MaxCrashes

KindsAt(i) == IF i = 1 THEN {"workflow"} ELSE IF i = 2 THEN {"node"} ELSE {"tool", "model"}

\* The route is chosen by the category that the node before it left.
Classified(frame, s) ==
  frame.kind = "node" /\ frame.node = "classify" /\ frame.pc \in {"leave", "finish"}
    => s.category \in Categories

\* A workflow, a node in it and a tool or a model in that; all but the innermost are left
\* when they come back.
StackOK ==
  /\ stack \in Seq(Frame) /\ Len(stack) <= 3
  /\ \A i \in DOMAIN stack :
       /\ stack[i].kind \in KindsAt(i)
       /\ i < Len(stack) => stack[i].pc = "leave"
       /\ stack[i].pc = "complete" => i = 1
       /\ i > 1 => run.workflow \in Registered /\ stack[i].node \in Nodes
       /\ i > 2 => Wraps(stack[2].node) # "node"
  /\ stack # <<>> /\ run.workflow = "demo.route" => Classified(Top, state)

\* An exception is raised by a check, by a body or by a graph that cannot be built.
RaisedOK ==
  raised # None /\ stack # <<>> =>
    /\ Top.pc \in {"enter", "check", "body", "leave"}
    /\ raised \notin {"cancelled", "timed_out"} => Top.pc = "body"
    /\ raised = "misconfigured" => Top.kind = "workflow"

\* An executor that runs has a run that does, and a request is not forgotten.
StatusOK ==
  /\ Busy => run.status = IF asked = None THEN "running" ELSE "cancelling"
  /\ asked # None => run.status \notin {"running"}
  /\ asked = None => run.status # "cancelling"
  /\ asked # None => asked <= Len(trail)
  /\ run.attempt = 0 => run.status \in {"queued", "cancelled"} /\ ~Busy

ShapeOK == TypesOK /\ StackOK /\ RaisedOK /\ StatusOK

\* The calls reported after the first n events.
After(events, n) == {i \in n + 1 .. Len(events) : events[i].kind # "run"}

\* What may still be reported and begun depends on how far the innermost call is.
ToldSince == Cardinality(After(trail, asked))

PromptOK ==
  /\ asked = None => bodies = 0
  /\ asked # None =>
       /\ bodies <= 1 /\ ToldSince <= 2
       /\ stack # <<>> /\ Top.pc # "enter" => ToldSince <= 1
       /\ raised = None /\ stack # <<>> =>
            /\ Top.pc \in {"start", "check", "body", "finish"} => bodies = 0
            /\ Top.pc \in {"start", "body", "finish"} => ToldSince = 0

In(events, attempt, kind, type) ==
  {i \in DOMAIN events : /\ events[i].attempt = attempt
                         /\ events[i].kind = kind /\ events[i].type = type}

\* The calls of the model that failed; a refusal to begin is none.
Failed(events, attempt) ==
  {i \in In(events, attempt, "model", "failed") : events[i].failure # "misconfigured"}

\* Calls of the model that began and were neither answered nor told to have failed.
Unanswered(events, attempt, n) ==
  Cardinality(In(events, attempt, "model", "started"))
    = Cardinality(In(events, attempt, "model", "completed")) + Cardinality(Failed(events, attempt)) + n

InModel == stack # <<>> /\ Top.kind = "model" /\ Top.pc \notin {"enter", "start"}

\* While no worker has died, none but the one that is open.
Waiting(a) == IF a = run.attempt /\ InModel THEN 1 ELSE 0

CallsOK == crashes = 0 => \A a \in 1 .. run.attempt : Unanswered(trail, a, Waiting(a))

\* Whether a node is told to have started, and to have ended.
Started(events, node) ==
  \E i \in DOMAIN events : StartsNode(events[i]) /\ events[i].node = node
Ended(events, node) ==
  \E i \in DOMAIN events : EndsNode(events[i]) /\ events[i].node = node

\* The executor is in a node that it has reported.
InNode == Len(stack) > 1 /\ stack[2].pc \notin {"enter", "start"}

\* Of a run that was never claimed only a request can be told.
QuietBefore(events) ==
  \A i \in DOMAIN events : events[i].attempt = 0 => events[i].kind = "run"

\* In the first attempt, what has started is open or has ended.
NodesOK ==
  /\ QuietBefore(trail)
  /\ run.attempt = 1 /\ stack # <<>> =>
       /\ \A node : Started(trail, node) =>
            (InNode /\ node = stack[2].node) \/ Ended(trail, node)
       /\ InNode => Started(trail, stack[2].node)

TellsFailure(e) == e.kind = "model" /\ e.type = "failed"
TellsTimeout(e) == e.kind = "run" /\ e.type = "timeout_exceeded"

\* What an attempt tells of models that failed.
NoneFailed(events, a) == \A i \in DOMAIN events : events[i].attempt = a => ~TellsFailure(events[i])
FailedFor(events, a, failure) ==
  \A i \in DOMAIN events :
    events[i].attempt = a /\ TellsFailure(events[i]) => events[i].failure = failure
SawTimeout(events) == \E i \in DOMAIN events : TellsTimeout(events[i])
TimeoutsTell(events) ==
  \A i \in DOMAIN events : TellsTimeout(events[i]) => events[i].failure = "timed_out"

\* An attempt tells of one model that failed at most, and of what it then failed
\* for; after a timeout every attempt ends at its first check.
FailuresOK ==
  /\ raised = "timed_out" => late
  /\ stack # <<>> => NoneFailed(trail, run.attempt)
  /\ raised # None => FailedFor(trail, run.attempt, raised)
  /\ run.status = "failed" => FailedFor(trail, run.attempt, run.failure)
  /\ TimeoutsTell(trail)
  /\ SawTimeout(trail) =>
       /\ late
       /\ stack # <<>> => Len(stack) = 1 /\ Top.pc = "enter"
       /\ raised \in {None, "timed_out", "cancelled"}
       /\ run.status = "failed" => run.failure = "timed_out"

\* The refusals an attempt tells of.
Refused(events, a) ==
  {i \in DOMAIN events : /\ events[i].attempt = a /\ TellsFailure(events[i])
                         /\ events[i].failure = "misconfigured"}

\* The run is refused, or has been.
Refusing == (stack = <<>> /\ raised = "misconfigured") \/ run.failure = "misconfigured"

\* While no worker has died, the attempt that is refused tells it once, and no other.
RefusalsOK ==
  /\ run.failure = "misconfigured" => run.status = "failed"
  /\ crashes = 0 => \A a \in 1 .. run.attempt :
       Cardinality(Refused(trail, a)) = IF a = run.attempt /\ Refusing THEN 1 ELSE 0

USE WorkflowsAssumption, ExecutionAssumption

-----------------------------------------------------------------------------
(* The workflows *)

\* After a node comes another node or the end; the route needs a category to go by.
LEMMA SuccessorIsNode ==
  ASSUME NEW w \in Registered, NEW node \in Nodes, NEW s \in WorkflowState,
         w = "demo.route" /\ node = "classify" => s.category \in Categories
  PROVE  Successor(w, node, s) \in Nodes \union {"END"}
<1>1. RouteAfterAnswer(s) \in Nodes
  BY DEF RouteAfterAnswer, Nodes
<1>2. \A c \in Categories : RespondTo[c] \in Nodes
  BY DEF Nodes, RespondTo, Categories
<1>3. CASE w \in {"demo.echo", "anthropic.respond"}
  BY <1>3 DEF Successor, TwoNodes, Nodes
<1>4. CASE w = "demo.route"
  BY <1>2, <1>4 DEF Successor, DemoRoute, Nodes
<1>5. CASE w \in {"demo.tool.single", "demo.tool.select"}
  BY <1>5 DEF Successor, DemoToolSingle, DemoToolSelect, Nodes
<1>6. CASE w \in {"demo.react.once", "demo.react"}
  BY <1>6 DEF Successor, DemoReactOnce, DemoReact, Nodes
<1>7. CASE w = "anthropic.react"
  BY <1>1, <1>7 DEF Successor, AnthropicReact, Nodes
<1> QED BY <1>3, <1>4, <1>5, <1>6, <1>7 DEF Registered

Call == [tool : Tools, call : Nat]

\* The answers of the model leave a state.
LEMMA AnswersAreStates ==
  ASSUME NEW s \in WorkflowState, NEW t \in Answers(s)
  PROVE  t \in WorkflowState
<1>1. PICK text \in {None, "model"}, uses \in UNION {[1 .. n -> Tools] : n \in 0 .. MaxUses} :
        t = WithAnswer(s, text, uses)
  BY DEF Answers
<1>2. PICK n \in 0 .. MaxUses : uses \in [1 .. n -> Tools]
  OBVIOUS
<1> DEFINE calls == [i \in DOMAIN uses |-> [tool |-> uses[i], call |-> i - 1]]
<1>3. calls \in [1 .. n -> Call]
  BY <1>2 DEF Call
<1>4. calls \in Seq(Call) /\ s.history \in Seq(Call)
  BY <1>2, <1>3, IsASeq DEF WorkflowState, Call
<1>5. s.history \o calls \in Seq(Call)
  BY <1>4, ConcatProperties
<1> QED BY <1>1, <1>5 DEF WithAnswer, WorkflowState, Call

\* Every body leaves a state.
LEMMA ResultsAreStates ==
  ASSUME NEW w \in Workflow, NEW node \in Nodes, NEW s \in WorkflowState,
         NEW asks \in Question, NEW category \in Categories,
         NEW t \in Results(w, node, s, asks, category)
  PROVE  t \in WorkflowState /\ (node = "classify" => t.category \in Categories)
<1>1. CASE node = "normalize_input"
  BY <1>1 DEF Results, WorkflowState
<1>2. CASE node \in {"classify", "prepare_tool_call"}
  BY <1>2 DEF Results, WorkflowState, Tools
<1>3. CASE node \in {"reason", "select_tool"}
  BY <1>3 DEF Results, Reason, ChooseTool, WorkflowState, Tools
<1>4. CASE node \in {"use_tool", "execute_tool"}
  <2>1. t = UseTool(s)
    BY <1>4 DEF Results
  <2>2. CASE s.selected = None
    BY <1>4, <2>1, <2>2 DEF UseTool
  <2>3. CASE s.selected # None
    <3>1. s.selected \in Tools /\ s.history \in Seq(Call)
      BY <2>3 DEF WorkflowState, Call
    <3>2. Append(s.history, [tool |-> s.selected, call |-> 0]) \in Seq(Call)
      BY <3>1, AppendProperties DEF Call
    <3> QED BY <1>4, <2>1, <2>3, <3>1, <3>2 DEF UseTool, WorkflowState, Call
  <2> QED BY <2>2, <2>3
<1>5. CASE node = "generate_response"
  BY <1>5 DEF Results, WorkflowState
<1>6. CASE node = "reason_with_model"
  BY <1>6, AnswersAreStates DEF Results
<1>7. CASE node = "respond" \/ \E c \in Categories : node = RespondTo[c]
  <2>1. t = Respond(w, s) /\ node # "classify"
    BY <1>7 DEF Results, RespondTo, Categories
  <2>2. s.history \in Seq(Call)
    BY DEF WorkflowState, Call
  <2>3. s.history # <<>> => Len(s.history) \in 1 .. Len(s.history)
    BY <2>2, EmptySeq, LenProperties
  <2>4. s.history # <<>> => Last(s.history) \in Call
    BY <2>2, <2>3, ElementOfSeq DEF Last
  <2>5. s.history # <<>> => Last(s.history).tool \in Tools
    BY <2>4 DEF Call
  <2> QED BY <2>1, <2>5 DEF Respond, WorkflowState
<1> QED BY <1>1, <1>2, <1>3, <1>4, <1>5, <1>6, <1>7 DEF Nodes

\* A body fails by itself: it is not the one to stop or to refuse.
LEMMA BodiesRaise ==
  ASSUME NEW w, NEW node, NEW s
  PROVE  Raises(w, node, s) \subseteq Exception \ {"cancelled", "timed_out", "misconfigured"}
  BY DEF Raises, RespondErrors, ReactErrors, ToolRaises, Exception

LEMMA BuildsRaise ==
  ASSUME NEW w
  PROVE  BuildRaises(w) \subseteq {"misconfigured", "error"}
  BY DEF BuildRaises, ConfigRaises

-----------------------------------------------------------------------------
(* The stack *)

LEMMA StackFacts ==
  ASSUME StackOK, stack # <<>>
  PROVE  /\ Len(stack) \in 1 .. 3 /\ DOMAIN stack = 1 .. Len(stack)
         /\ Top = stack[Len(stack)] /\ Top \in Frame
         /\ Under \in Seq(Frame) /\ Len(Under) = Len(stack) - 1
         /\ \A i \in 1 .. Len(stack) - 1 : Under[i] = stack[i]
<1>0. stack \in Seq(Frame) /\ Len(stack) <= 3
  BY DEF StackOK
<1>a. Len(stack) \in Nat \ {0}
  BY <1>0, EmptySeq
<1>b. DOMAIN stack = 1 .. Len(stack)
  BY <1>0, LenProperties
<1>1. stack \in Seq(Frame) /\ Len(stack) \in 1 .. 3 /\ DOMAIN stack = 1 .. Len(stack)
  BY <1>0, <1>a, <1>b
<1>2. Top = stack[Len(stack)] /\ Top \in Frame
  BY <1>1, ElementOfSeq DEF Top, Last
<1>3. \A i \in 1 .. Len(stack) - 1 : stack[i] \in Frame
  BY <1>1, ElementOfSeq
<1>4. /\ Under \in Seq(Frame) /\ Len(Under) = Len(stack) - 1
      /\ \A i \in 1 .. Len(stack) - 1 : Under[i] = stack[1 + i - 1]
  BY <1>1, <1>3, SubSeqProperties DEF Under, Front
<1> QED BY <1>1, <1>2, <1>4

\* What a call on top of those under the innermost is.
LEMMA OnTop ==
  ASSUME StackOK, stack # <<>>, NEW f \in Frame
  PROVE  /\ Append(Under, f) \in Seq(Frame) /\ Append(Under, f) # <<>>
         /\ Len(Append(Under, f)) = Len(stack) /\ Append(Under, f)[Len(stack)] = f
         /\ \A i \in 1 .. Len(stack) - 1 : Append(Under, f)[i] = stack[i]
<1>1. /\ Under \in Seq(Frame) /\ Len(Under) = Len(stack) - 1 /\ Len(stack) \in 1 .. 3
      /\ \A i \in 1 .. Len(stack) - 1 : Under[i] = stack[i]
  BY StackFacts
<1>2. /\ Append(Under, f) \in Seq(Frame) /\ Append(Under, f) # <<>>
      /\ Len(Append(Under, f)) = Len(Under) + 1
      /\ \A i \in 1 .. Len(Under) : Append(Under, f)[i] = Under[i]
      /\ Append(Under, f)[Len(Under) + 1] = f
  BY <1>1, AppendProperties
<1> QED BY <1>1, <1>2

\* The innermost call goes on.
LEMMA GotoStack ==
  ASSUME StackOK, stack # <<>>, NEW pc \in Steps, Goto(pc)
  PROVE  /\ stack' \in Seq(Frame) /\ stack' # <<>> /\ Len(stack') = Len(stack)
         /\ Top' = [Top EXCEPT !.pc = pc] /\ Top' = stack'[Len(stack)]
         /\ \A i \in 1 .. Len(stack) - 1 : stack'[i] = stack[i]
<1> DEFINE f == [Top EXCEPT !.pc = pc]
<1>1. f \in Frame
  BY StackFacts DEF Frame
<1>2. stack' = Append(Under, f)
  BY DEF Goto
<1> HIDE DEF f
<1>3. /\ stack' \in Seq(Frame) /\ Len(stack') = Len(stack) /\ stack'[Len(stack)] = f
      /\ \A i \in 1 .. Len(stack) - 1 : stack'[i] = stack[i]
  BY <1>1, <1>2, OnTop
<1>4. stack' # <<>>
  BY <1>1, <1>2, OnTop
<1> QED BY <1>3, <1>4 DEF f, Top, Last

\* A call follows the innermost one.
LEMMA NextStack ==
  ASSUME StackOK, stack # <<>>, NEW f \in Frame, stack' = Append(Under, f)
  PROVE  /\ stack' \in Seq(Frame) /\ stack' # <<>> /\ Len(stack') = Len(stack)
         /\ Top' = f /\ stack'[Len(stack)] = f
         /\ \A i \in 1 .. Len(stack) - 1 : stack'[i] = stack[i]
<1>1. /\ stack' \in Seq(Frame) /\ Len(stack') = Len(stack) /\ stack'[Len(stack)] = f
      /\ \A i \in 1 .. Len(stack) - 1 : stack'[i] = stack[i]
  BY OnTop
<1>2. stack' # <<>>
  BY OnTop
<1> QED BY <1>1, <1>2 DEF Top, Last

\* The innermost call makes another.
LEMMA PushStack ==
  ASSUME StackOK, stack # <<>>, NEW f \in Frame,
         stack' = Append(Append(Under, [Top EXCEPT !.pc = "leave"]), f)
  PROVE  /\ stack' \in Seq(Frame) /\ stack' # <<>> /\ Len(stack') = Len(stack) + 1
         /\ Top' = f /\ stack'[Len(stack) + 1] = f
         /\ stack'[Len(stack)] = [Top EXCEPT !.pc = "leave"]
         /\ \A i \in 1 .. Len(stack) - 1 : stack'[i] = stack[i]
<1> DEFINE g == [Top EXCEPT !.pc = "leave"]
           s == Append(Under, g)
<1>1. g \in Frame
  BY StackFacts DEF Frame, Steps
<1>2. stack' = Append(s, f)
  OBVIOUS
<1> HIDE DEF g
<1>3. /\ s \in Seq(Frame) /\ Len(s) = Len(stack) /\ s[Len(stack)] = g
      /\ \A i \in 1 .. Len(stack) - 1 : s[i] = stack[i]
  BY <1>1, OnTop
<1> HIDE DEF s
<1>4. /\ stack' \in Seq(Frame) /\ Len(stack') = Len(stack) + 1
      /\ stack'[Len(stack) + 1] = f /\ \A i \in 1 .. Len(stack) : stack'[i] = s[i]
  <2>1. Len(stack) \in 1 .. 3
    BY StackFacts
  <2>2. /\ Append(s, f) \in Seq(Frame) /\ Len(Append(s, f)) = Len(s) + 1
        /\ Append(s, f)[Len(s) + 1] = f /\ \A i \in 1 .. Len(s) : Append(s, f)[i] = s[i]
    BY <1>3, AppendProperties
  <2> QED BY <1>2, <1>3, <2>1, <2>2
<1>5. stack' # <<>>
  BY <1>2, <1>3, AppendProperties
<1>6. stack'[Len(stack)] = g /\ \A i \in 1 .. Len(stack) - 1 : stack'[i] = stack[i]
  BY <1>3, <1>4, StackFacts
<1> QED BY <1>4, <1>5, <1>6 DEF g, Top, Last

\* The innermost call ends, and the one that made it is left.
LEMMA PopStack ==
  ASSUME StackOK, stack # <<>>, Len(stack) > 1, stack' = Under
  PROVE  /\ stack' \in Seq(Frame) /\ stack' # <<>> /\ Len(stack') = Len(stack) - 1
         /\ Top' = stack[Len(stack) - 1] /\ Top'.pc = "leave"
         /\ \A i \in 1 .. Len(stack) - 1 : stack'[i] = stack[i]
<1>1. /\ stack' \in Seq(Frame) /\ Len(stack') = Len(stack) - 1
      /\ \A i \in 1 .. Len(stack) - 1 : stack'[i] = stack[i]
  BY StackFacts
<1>2. stack' # <<>>
  BY <1>1, EmptySeq
<1>3. Top' = stack[Len(stack) - 1]
  BY <1>1, StackFacts DEF Top, Last
<1>4. stack[Len(stack) - 1].pc = "leave"
  BY StackFacts DEF StackOK
<1> QED BY <1>1, <1>2, <1>3, <1>4

-----------------------------------------------------------------------------
(* The trail *)

LEMMA AppendEvent ==
  ASSUME NEW events \in Seq(TrailEvent), NEW e \in TrailEvent
  PROVE  /\ Append(events, e) \in Seq(TrailEvent) /\ Len(events) \in Nat
         /\ Len(Append(events, e)) = Len(events) + 1
         /\ DOMAIN events = 1 .. Len(events)
         /\ DOMAIN Append(events, e) = 1 .. Len(events) + 1
         /\ \A i \in 1 .. Len(events) : Append(events, e)[i] = events[i]
         /\ Append(events, e)[Len(events) + 1] = e
<1>1. /\ Append(events, e) \in Seq(TrailEvent) /\ Len(Append(events, e)) = Len(events) + 1
      /\ \A i \in 1 .. Len(events) : Append(events, e)[i] = events[i]
      /\ Append(events, e)[Len(events) + 1] = e
  BY AppendProperties
<1>2. Len(events) \in Nat /\ DOMAIN events = 1 .. Len(events)
  BY LenProperties
<1>3. DOMAIN Append(events, e) = 1 .. Len(Append(events, e))
  BY <1>1, LenProperties
<1> QED BY <1>1, <1>2, <1>3

LEMMA EventFields ==
  ASSUME TypesOK, NEW type \in Types, NEW kind \in Kinds \union {"run"},
         NEW node \in Nodes \union {None}, NEW failure \in {None} \union Exception
  PROVE  /\ Event(type, kind, node, failure) \in TrailEvent
         /\ Event(type, kind, node, failure).attempt = run.attempt
  BY DEF Event, TrailEvent, TypesOK, RunState

\* An event that is written belongs to an attempt that was made.
LEMMA WriteTyped ==
  ASSUME TypesOK, NEW e \in TrailEvent, trail' = Append(trail, e),
         run.attempt <= run'.attempt, e.attempt <= run'.attempt, run'.attempt \in Nat
  PROVE  TrailOK' /\ Len(trail') = Len(trail) + 1
<1>1. trail \in Seq(TrailEvent) /\ run.attempt \in Nat
      /\ \A i \in DOMAIN trail : trail[i].attempt <= run.attempt
  BY DEF TypesOK, TrailOK, RunState
<1>2. /\ trail' \in Seq(TrailEvent) /\ Len(trail) \in Nat /\ Len(trail') = Len(trail) + 1
      /\ DOMAIN trail = 1 .. Len(trail) /\ DOMAIN trail' = 1 .. Len(trail) + 1
      /\ \A i \in 1 .. Len(trail) : trail'[i] = trail[i]
      /\ trail'[Len(trail) + 1] = e
  BY <1>1, AppendEvent
<1>3. ASSUME NEW i \in 1 .. Len(trail) + 1
      PROVE  trail'[i].attempt <= run'.attempt
  <2>1. CASE i = Len(trail) + 1
    BY <1>2, <2>1
  <2>2. CASE i # Len(trail) + 1
    <3>1. i \in 1 .. Len(trail)
      BY <1>2, <2>2
    <3>2. trail[i] \in TrailEvent
      BY <1>1, <3>1, ElementOfSeq
    <3>3. trail[i].attempt \in Nat /\ trail[i].attempt <= run.attempt /\ trail'[i] = trail[i]
      BY <1>1, <1>2, <3>1, <3>2 DEF TrailEvent
    <3> QED BY <1>1, <3>3
  <2> QED BY <2>1, <2>2
<1> QED BY <1>2, <1>3 DEF TrailOK

\* The events of run_once: what became of the attempt, and before it a failure
\* that may be followed by another attempt.
Reason1 == Event(IF raised = "timed_out" THEN "timeout_exceeded" ELSE "execution_failed",
                 "run", None, raised)

LEMMA SettleTrail ==
  ASSUME TypesOK, Settle
  PROVE  \E status \in {"cancelled", "queued", "failed"}, type \in Types :
           /\ run' = [run EXCEPT !.status = status, !.failure = raised]
           /\ status = "cancelled" <=> raised = "cancelled"
           /\ type # "timeout_exceeded"
           /\ trail' = IF raised \in Retryable
                         THEN Append(Append(trail, Reason1), Event(type, "run", None, raised))
                         ELSE Append(trail, Event(type, "run", None, raised))
<1>1. PICK status \in {"cancelled", "queued", "failed"},
           type \in {"cancelled", "retry_scheduled", "failed"} :
        Explained(status, type) /\ (status = "cancelled" <=> raised = "cancelled")
  BY DEF Settle
<1> DEFINE e == Event(type, "run", None, raised)
<1>2. raised \in Exception /\ trail \in Seq(TrailEvent)
  BY DEF Settle, TypesOK, TrailOK
<1>3. e \in TrailEvent /\ Reason1 \in TrailEvent
  BY <1>2, EventFields DEF Reason1, Types
<1>4. CASE raised \in Retryable
  <2>1. trail' = (trail \o <<Reason1>>) \o <<e>>
    BY <1>1, <1>4 DEF Explained, Reason1
  <2>2. trail \o <<Reason1>> = Append(trail, Reason1) /\ Append(trail, Reason1) \in Seq(TrailEvent)
    BY <1>2, <1>3, AppendIsConcat, AppendProperties
  <2>3. trail' = Append(Append(trail, Reason1), e)
    BY <1>3, <2>1, <2>2, AppendIsConcat
  <2> QED BY <1>1, <1>4, <2>3 DEF Explained, Types
<1>5. CASE raised \notin Retryable
  <2>1. trail' = (trail \o <<>>) \o <<e>>
    BY <1>1, <1>5 DEF Explained
  <2>2. trail \o <<>> = trail
    BY <1>2, ConcatEmptySeq
  <2>3. trail' = Append(trail, e)
    BY <1>2, <1>3, <2>1, <2>2, AppendIsConcat
  <2> QED BY <1>1, <1>5, <2>3 DEF Explained, Types
<1> QED BY <1>4, <1>5

-----------------------------------------------------------------------------
(* The shape of the stack *)

\* The innermost call, by the depth of the stack.
LEMMA TopShape ==
  ASSUME StackOK, stack # <<>>
  PROVE  /\ Top.kind = "workflow" <=> Len(stack) = 1
         /\ Top.kind = "node" <=> Len(stack) = 2
         /\ Top.kind \in {"tool", "model"} <=> Len(stack) = 3
         /\ Len(stack) > 1 => run.workflow \in Registered /\ Top.node \in Nodes
         /\ Top.pc = "complete" => Top.kind = "workflow"
         /\ Top.pc \in Steps /\ Top.node \in Nodes \union {None} /\ Top.kind \in Kinds
<1>1. Len(stack) \in 1 .. 3 /\ Len(stack) \in DOMAIN stack /\ Top = stack[Len(stack)]
      /\ Top \in Frame
  BY StackFacts
<1>2. /\ Top.kind \in KindsAt(Len(stack))
      /\ Top.pc = "complete" => Len(stack) = 1
      /\ Len(stack) > 1 => run.workflow \in Registered /\ Top.node \in Nodes
  BY <1>1 DEF StackOK
<1> QED BY <1>1, <1>2 DEF KindsAt, Frame

\* What it takes to be such a stack.
LEMMA ShapeOf ==
  ASSUME stack' \in Seq(Frame), stack' # <<>>, Len(stack') \in 1 .. 3,
         \A i \in 1 .. Len(stack') - 1 : stack'[i].kind \in KindsAt(i) /\ stack'[i].pc = "leave",
         Top'.kind \in KindsAt(Len(stack')), Top'.pc = "complete" => Len(stack') = 1,
         Len(stack') > 1 => run'.workflow \in Registered,
         \A i \in 2 .. Len(stack') : stack'[i].node \in Nodes,
         Len(stack') > 2 => Wraps(stack'[2].node) # "node",
         run'.workflow = "demo.route" => Classified(Top', state')
  PROVE  StackOK'
<1>1. DOMAIN stack' = 1 .. Len(stack') /\ Top' = stack'[Len(stack')]
  BY LenProperties DEF Top, Last
<1>2. ASSUME NEW i \in 1 .. Len(stack')
      PROVE  /\ stack'[i].kind \in KindsAt(i)
             /\ i < Len(stack') => stack'[i].pc = "leave"
             /\ stack'[i].pc = "complete" => i = 1
             /\ i > 1 => run'.workflow \in Registered /\ stack'[i].node \in Nodes
             /\ i > 2 => Wraps(stack'[2].node) # "node"
  <2>1. CASE i = Len(stack')
    BY <1>1, <2>1
  <2>2. CASE i # Len(stack')
    <3>1. i \in 1 .. Len(stack') - 1
      BY <2>2
    <3> QED BY <3>1
  <2> QED BY <2>1, <2>2
<1> QED BY <1>1, <1>2 DEF StackOK

\* What it means for the frames below.
LEMMA Below ==
  ASSUME StackOK, stack # <<>>
  PROVE  /\ \A i \in 1 .. Len(stack) - 1 : stack[i].kind \in KindsAt(i) /\ stack[i].pc = "leave"
         /\ \A i \in 2 .. Len(stack) : stack[i].node \in Nodes
         /\ Len(stack) > 2 => Wraps(stack[2].node) # "node"
         /\ Top.kind \in KindsAt(Len(stack))
         /\ run.workflow = "demo.route" => Classified(Top, state)
<1>1. Len(stack) \in 1 .. 3 /\ DOMAIN stack = 1 .. Len(stack) /\ Top = stack[Len(stack)]
  BY StackFacts
<1> QED BY <1>1 DEF StackOK

\* A stack that differs in its innermost call.
LEMMA SameDepth ==
  ASSUME StackOK, stack # <<>>, NEW f \in Frame, stack' = Append(Under, f),
         run'.workflow = run.workflow,
         f.kind \in KindsAt(Len(stack)),
         f.pc = "complete" => Len(stack) = 1,
         Len(stack) > 1 => f.node \in Nodes,
         Len(stack) > 2 => f.node = Top.node,
         run.workflow = "demo.route" => Classified(f, state')
  PROVE  StackOK' /\ stack' # <<>> /\ Len(stack') = Len(stack) /\ Top' = f
<1>1. /\ stack' \in Seq(Frame) /\ stack' # <<>> /\ Len(stack') = Len(stack)
      /\ Top' = f /\ stack'[Len(stack)] = f
      /\ \A i \in 1 .. Len(stack) - 1 : stack'[i] = stack[i]
  BY NextStack
<1>2. Len(stack) \in 1 .. 3
  BY StackFacts
<1>3. \A i \in 1 .. Len(stack) - 1 : stack'[i].kind \in KindsAt(i) /\ stack'[i].pc = "leave"
  BY <1>1, <1>2, Below
<1>4. \A i \in 2 .. Len(stack) : stack'[i].node \in Nodes
  <2>1. ASSUME NEW i \in 2 .. Len(stack)
        PROVE  stack'[i].node \in Nodes
    <3>1. CASE i = Len(stack)
      BY <1>1, <1>2, <3>1
    <3>2. CASE i # Len(stack)
      <4>1. i \in 1 .. Len(stack) - 1
        BY <1>2, <3>2
      <4> QED BY <1>1, <4>1, Below
    <3> QED BY <3>1, <3>2
  <2> QED BY <2>1
<1>5. Len(stack) > 2 => Wraps(stack'[2].node) # "node"
  BY <1>1, <1>2, Below
<1>6. Len(stack) > 1 => run'.workflow \in Registered
  BY TopShape
<1>7. Classified(f, state') <=> Classified(Top', state')
  BY <1>1 DEF Classified
<1>8. StackOK'
  BY <1>1, <1>2, <1>3, <1>4, <1>5, <1>6, <1>7, ShapeOf
<1> QED BY <1>1, <1>8

LEMMA GotoShape ==
  ASSUME StackOK, stack # <<>>, NEW pc \in Steps, Goto(pc), run'.workflow = run.workflow,
         pc = "complete" => Top.kind = "workflow",
         run.workflow = "demo.route" /\ Top.kind = "node" /\ Top.node = "classify"
             /\ pc \in {"leave", "finish"}
           => state'.category \in Categories
  PROVE  StackOK' /\ stack' # <<>> /\ Len(stack') = Len(stack) /\ Top' = [Top EXCEPT !.pc = pc]
<1> DEFINE f == [Top EXCEPT !.pc = pc]
<1>1. Top \in Frame /\ Len(stack) \in 1 .. 3
  BY StackFacts
<1>2. f \in Frame /\ f.pc = pc /\ f.kind = Top.kind /\ f.node = Top.node
  BY <1>1 DEF Frame
<1>3. stack' = Append(Under, f)
  BY DEF Goto
<1>4. Top.kind \in KindsAt(Len(stack)) /\ (pc = "complete" => Len(stack) = 1)
      /\ (Len(stack) > 1 => Top.node \in Nodes)
  BY Below, TopShape
<1> HIDE DEF f
<1>5. run.workflow = "demo.route" => Classified(f, state')
  BY <1>2 DEF Classified
<1>6. StackOK' /\ stack' # <<>> /\ Len(stack') = Len(stack) /\ Top' = f
  BY <1>2, <1>3, <1>4, <1>5, SameDepth
<1> QED BY <1>6 DEF f

\* A stack with another call.
LEMMA Deeper ==
  ASSUME StackOK, stack # <<>>, Len(stack) < 3, NEW f \in Frame,
         stack' = Append(Append(Under, [Top EXCEPT !.pc = "leave"]), f),
         run' = run, run.workflow \in Registered,
         f.kind \in KindsAt(Len(stack) + 1), f.pc = "enter", f.node \in Nodes,
         Len(stack) = 2 => Wraps(Top.node) # "node"
  PROVE  StackOK' /\ stack' # <<>> /\ Len(stack') = Len(stack) + 1 /\ Top' = f
         /\ stack'[Len(stack)] = [Top EXCEPT !.pc = "leave"]
<1>1. /\ stack' \in Seq(Frame) /\ stack' # <<>> /\ Len(stack') = Len(stack) + 1
      /\ Top' = f /\ stack'[Len(stack) + 1] = f
      /\ stack'[Len(stack)] = [Top EXCEPT !.pc = "leave"]
      /\ \A i \in 1 .. Len(stack) - 1 : stack'[i] = stack[i]
  BY PushStack
<1>2. Len(stack) \in 1 .. 2 /\ Top = stack[Len(stack)] /\ Top \in Frame
  BY StackFacts
<1>3. stack'[Len(stack)].kind = Top.kind /\ stack'[Len(stack)].node = Top.node
      /\ stack'[Len(stack)].pc = "leave"
  BY <1>1, <1>2 DEF Frame
<1>4. \A i \in 1 .. Len(stack) : stack'[i].kind \in KindsAt(i) /\ stack'[i].pc = "leave"
  <2>1. \A i \in 1 .. Len(stack) - 1 : stack'[i].kind \in KindsAt(i) /\ stack'[i].pc = "leave"
    BY <1>1, Below
  <2>2. stack'[Len(stack)].kind \in KindsAt(Len(stack))
    BY <1>3, Below
  <2> QED BY <1>2, <1>3, <2>1, <2>2
<1>5. \A i \in 2 .. Len(stack) + 1 : stack'[i].node \in Nodes
  <2>1. Len(stack) = 2 => Top.node \in Nodes
    BY <1>2, TopShape
  <2> QED BY <1>1, <1>2, <1>3, <2>1
<1>6. Len(stack) = 2 => Wraps(stack'[2].node) # "node"
  BY <1>2, <1>3
<1>7. Classified(Top', state')
  BY <1>1 DEF Classified
<1>8. StackOK'
  BY <1>1, <1>2, <1>4, <1>5, <1>6, <1>7, ShapeOf, SMTT(30)
<1> QED BY <1>1, <1>8

\* A stack without its innermost call.
LEMMA Shallower ==
  ASSUME StackOK, stack # <<>>, Len(stack) > 1, stack' = Under, run' = run
  PROVE  StackOK' /\ stack' # <<>> /\ Len(stack') = Len(stack) - 1 /\ Top'.pc = "leave"
         /\ Top' = stack[Len(stack) - 1]
<1>1. /\ stack' \in Seq(Frame) /\ stack' # <<>> /\ Len(stack') = Len(stack) - 1
      /\ Top' = stack[Len(stack) - 1] /\ Top'.pc = "leave"
      /\ \A i \in 1 .. Len(stack) - 1 : stack'[i] = stack[i]
  BY PopStack
<1>2. Len(stack) \in 2 .. 3
  BY StackFacts
<1>3. \A i \in 1 .. Len(stack) - 1 : stack'[i].kind \in KindsAt(i) /\ stack'[i].pc = "leave"
  BY <1>1, <1>2, Below
<1>4. \A i \in 2 .. Len(stack) - 1 : stack'[i].node \in Nodes
  BY <1>1, <1>2, Below
<1>5. run.workflow \in Registered
  BY <1>2, TopShape
<1>6. Classified(Top', state')
  <2>1. CASE Len(stack) = 2
    BY <1>1, <2>1, Below DEF KindsAt, Classified
  <2>2. CASE Len(stack) = 3
    BY <1>1, <2>2, Below DEF Wraps, Classified
  <2> QED BY <1>2, <2>1, <2>2
<1>7. StackOK'
  BY <1>1, <1>2, <1>3, <1>4, <1>5, <1>6, ShapeOf
<1> QED BY <1>1, <1>7

-----------------------------------------------------------------------------
(* Every action keeps the shape *)

\* One event of the attempt is written.
LEMMA WritesEvent ==
  ASSUME TypesOK, NEW type \in Types, NEW kind \in Kinds \union {"run"},
         NEW node \in Nodes \union {None}, NEW failure \in {None} \union Exception,
         Write(Event(type, kind, node, failure)), run'.attempt = run.attempt
  PROVE  TrailOK' /\ Len(trail') = Len(trail) + 1
<1> DEFINE e == Event(type, kind, node, failure)
<1>1. e \in TrailEvent /\ e.attempt = run.attempt
  BY EventFields
<1>2. trail' = Append(trail, e) /\ run.attempt \in Nat
  BY DEF Write, TypesOK, RunState
<1> HIDE DEF e
<1> QED BY <1>1, <1>2, WriteTyped

LEMMA TrailStays ==
  ASSUME TypesOK, trail' = trail, run'.attempt = run.attempt
  PROVE  TrailOK' /\ Len(trail') = Len(trail) /\ Len(trail) \in Nat
<1>1. trail \in Seq(TrailEvent)
  BY DEF TypesOK, TrailOK
<1> QED BY <1>1, LenProperties DEF TypesOK, TrailOK

LEMMA InitShape == ExecInit => ShapeOK
<1> SUFFICES ASSUME ExecInit
             PROVE  ShapeOK
  OBVIOUS
<1>1. PICK w \in Workflow : \E i \in Inputs(w) :
        /\ run = [workflow |-> w, asks |-> i.asks, category |-> i.category,
                  status |-> "queued", attempt |-> 0, failure |-> None]
        /\ state = InitialState(w)
  BY DEF ExecInit
<1>2. PICK i \in Inputs(w) :
        /\ run = [workflow |-> w, asks |-> i.asks, category |-> i.category,
                  status |-> "queued", attempt |-> 0, failure |-> None]
        /\ state = InitialState(w)
  BY <1>1
<1>3. i.asks \in Question /\ i.category \in Categories
  BY DEF Inputs, Question, Categories
<1>4. run \in RunState /\ run.attempt = 0 /\ run.status = "queued"
  BY <1>2, <1>3 DEF RunState, Status
<1>5. state \in WorkflowState
  BY <1>2, EmptySeq DEF InitialState, WorkflowState, Tools
<1>6. trail = <<>> /\ stack = <<>> /\ raised = None /\ asked = None /\ bodies = 0
      /\ late = FALSE /\ crashes = 0
  BY DEF ExecInit
<1>7. TypesOK
  <2>1. trail \in Seq(TrailEvent) /\ Len(trail) = 0
    BY <1>6, EmptySeq
  <2>2. DOMAIN trail = {}
    BY <2>1, LenProperties
  <2>3. TrailOK
    BY <2>1, <2>2 DEF TrailOK
  <2>4. crashes \in 0 .. MaxCrashes /\ 0 <= MaxAttempts
    BY <1>6
  <2> QED BY <1>4, <1>5, <1>6, <2>3, <2>4 DEF TypesOK
<1>8. StackOK
  BY <1>6, EmptySeq DEF StackOK
<1>9. RaisedOK /\ StatusOK
  BY <1>4, <1>6 DEF RaisedOK, StatusOK, Busy
<1> QED BY <1>7, <1>8, <1>9 DEF ShapeOK

LEMMA RequestShape == ShapeOK /\ RequestCancel => ShapeOK'
<1> SUFFICES ASSUME ShapeOK, RequestCancel
             PROVE  ShapeOK'
  OBVIOUS
<1>1. PICK status \in {"cancelled", "cancelling"}, type \in {"cancelled", "cancel_requested"} :
        /\ Set(status) /\ Write(Event(type, "run", None, None))
        /\ status = IF run.status = "queued" THEN "cancelled" ELSE "cancelling"
  BY DEF RequestCancel
<1>2. /\ asked = None /\ asked' = Len(trail) /\ run.status \in {"queued", "running"}
      /\ UNCHANGED <<stack, state, raised, bodies, late, crashes>>
  BY DEF RequestCancel
<1>3. /\ run' \in RunState /\ run'.status = status
      /\ run'.attempt = run.attempt /\ run'.workflow = run.workflow
  BY <1>1 DEF Set, ShapeOK, TypesOK, RunState, Status, Terminal
<1>4. TrailOK' /\ Len(trail') = Len(trail) + 1
  BY <1>1, <1>3, WritesEvent DEF ShapeOK, Types
<1>5. Len(trail) \in Nat
  <2>1. trail \in Seq(TrailEvent)
    BY DEF ShapeOK, TypesOK, TrailOK
  <2> QED BY <2>1, LenProperties
<1>6. TypesOK'
  BY <1>2, <1>3, <1>4, <1>5 DEF ShapeOK, TypesOK
<1>7. StackOK' /\ RaisedOK'
  BY <1>2, <1>3 DEF ShapeOK, StackOK, RaisedOK, Top
<1>8. StatusOK'
  BY <1>1, <1>2, <1>3, <1>4, <1>5 DEF ShapeOK, StatusOK, Busy
<1> QED BY <1>6, <1>7, <1>8 DEF ShapeOK

LEMMA ClaimShape == ShapeOK /\ ClaimRun => ShapeOK'
<1> SUFFICES ASSUME ShapeOK, ClaimRun
             PROVE  ShapeOK'
  OBVIOUS
<1> DEFINE e == [Event("started", "run", None, None) EXCEPT !.attempt = run.attempt + 1]
           f == Enter("workflow", None)
<1>1. /\ raised = None /\ raised' = None /\ stack' = <<f>>
      /\ run.status \notin Terminal /\ run.attempt < MaxAttempts
      /\ run' = [run EXCEPT !.attempt = @ + 1,
                   !.status = IF asked # None THEN "cancelling" ELSE "running"]
      /\ trail' = Append(trail, e) /\ state' = InitialState(run.workflow)
      /\ UNCHANGED <<raised, asked, bodies, late, crashes>>
  BY DEF ClaimRun, Busy
<1>2. /\ run' \in RunState /\ run'.attempt = run.attempt + 1 /\ run.attempt \in Nat
      /\ run'.workflow = run.workflow
      /\ run'.status = IF asked # None THEN "cancelling" ELSE "running"
  <2> DEFINE status == IF asked # None THEN "cancelling" ELSE "running"
  <2>1. status \in Status
    BY DEF Status
  <2>2. run \in RunState /\ run.attempt \in Nat
    BY DEF ShapeOK, TypesOK, RunState
  <2> DEFINE next == run.attempt + 1
  <2>3. next \in Nat
    BY <2>2
  <2>4. run' = [run EXCEPT !.attempt = next, !.status = status]
    BY <1>1
  <2> HIDE DEF status, next
  <2>5. /\ run' \in RunState /\ run'.attempt = next
        /\ run'.workflow = run.workflow /\ run'.status = status
    BY <2>1, <2>2, <2>3, <2>4 DEF RunState
  <2> QED BY <2>2, <2>5 DEF status, next
<1>3. e \in TrailEvent /\ e.attempt = run.attempt + 1
  <2>1. run.attempt + 1 \in 0 .. MaxAttempts
    BY <1>1, <1>2
  <2> QED BY <2>1 DEF Event, TrailEvent, Types
<1> HIDE DEF e
<1>4. TrailOK' /\ Len(trail') = Len(trail) + 1
  BY <1>1, <1>2, <1>3, WriteTyped DEF ShapeOK
<1>5. Len(trail) \in Nat
  <2>1. trail \in Seq(TrailEvent)
    BY DEF ShapeOK, TypesOK, TrailOK
  <2> QED BY <2>1, LenProperties
<1>6. state' \in WorkflowState
  BY <1>1, EmptySeq DEF InitialState, WorkflowState, Tools
<1>7. TypesOK'
  BY <1>1, <1>2, <1>4, <1>6 DEF ShapeOK, TypesOK
<1>8. f \in Frame /\ f.kind = "workflow" /\ f.pc = "enter"
  BY DEF Enter, Frame, Kinds, Steps
<1> HIDE DEF f
<1>9. stack' \in Seq(Frame) /\ stack' # <<>> /\ Len(stack') = 1 /\ stack'[1] = f
  BY <1>1, <1>8
<1>10. Top' = f
  BY <1>9 DEF Top, Last
<1>11. StackOK'
  BY <1>8, <1>9, <1>10, ShapeOf DEF KindsAt, Classified
<1>12. RaisedOK'
  BY <1>1 DEF RaisedOK
<1>13. StatusOK'
  <2>1. asked' = asked /\ (asked # None => asked' <= Len(trail'))
    BY <1>1, <1>4, <1>5 DEF ShapeOK, TypesOK, StatusOK
  <2>2. run'.status = IF asked' = None THEN "running" ELSE "cancelling"
    BY <1>2, <2>1
  <2>3. run'.attempt # 0
    BY <1>2
  <2> QED BY <2>1, <2>2, <2>3 DEF StatusOK
<1> QED BY <1>7, <1>11, <1>12, <1>13 DEF ShapeOK

\* What is known of an executor that goes on.
LEMMA Running ==
  ASSUME ShapeOK, raised = None, stack # <<>>
  PROVE  /\ StackOK /\ TypesOK /\ Top \in Frame /\ Busy
         /\ run.status = (IF asked = None THEN "running" ELSE "cancelling")
         /\ run.attempt # 0 /\ run.attempt \in 0 .. MaxAttempts
  BY StackFacts DEF ShapeOK, StatusOK, TypesOK, RunState, Busy

\* While the executor runs its run stays as it is.
LEMMA RunStays ==
  ASSUME ShapeOK, Busy, UNCHANGED <<run, asked>>, Len(trail') >= Len(trail),
         Len(trail) \in Nat, Len(trail') \in Nat
  PROVE  StatusOK'
  BY DEF ShapeOK, TypesOK, StatusOK, Busy

LEMMA CheckShape == ShapeOK /\ Check => ShapeOK'
<1> SUFFICES ASSUME ShapeOK, Check
             PROVE  ShapeOK'
  OBVIOUS
<1>1. /\ raised = None /\ stack # <<>> /\ Top.pc \in {"enter", "check", "leave"}
      /\ \/ raised' \in {"cancelled", "timed_out"} /\ stack' = stack
         \/ raised' = None /\ Goto(Checked[Top.pc])
      /\ UNCHANGED <<run, trail, state, asked, bodies, late, crashes>>
  BY DEF Check, Checked
<1>2. StackOK /\ TypesOK /\ Busy
  BY <1>1, Running
<1>3. TrailOK' /\ Len(trail') = Len(trail) /\ Len(trail) \in Nat
  BY <1>1, <1>2, TrailStays
<1>4. TypesOK'
  BY <1>1, <1>2, <1>3 DEF TypesOK, Exception
<1>5. StatusOK'
  BY <1>1, <1>2, <1>3, RunStays
<1>6. CASE raised' \in {"cancelled", "timed_out"} /\ stack' = stack
  <2>1. StackOK'
    BY <1>1, <1>2, <1>6 DEF StackOK, Top
  <2>2. RaisedOK'
    BY <1>1, <1>6 DEF RaisedOK, Top
  <2> QED BY <1>4, <1>5, <2>1, <2>2 DEF ShapeOK
<1>7. CASE raised' = None /\ Goto(Checked[Top.pc])
  <2>1. Checked[Top.pc] \in {"start", "body", "finish"}
        /\ (Checked[Top.pc] = "finish" => Top.pc = "leave")
    BY <1>1 DEF Checked
  <2>2. run.workflow = "demo.route" => Classified(Top, state)
    BY <1>1, <1>2, Below
  <2>3. StackOK'
    BY <1>1, <1>2, <1>7, <2>1, <2>2, GotoShape DEF Classified, Steps
  <2> QED BY <1>4, <1>5, <1>7, <2>3 DEF ShapeOK, RaisedOK
<1> QED BY <1>1, <1>6, <1>7

LEMMA StartShape == ShapeOK /\ Start => ShapeOK'
<1> SUFFICES ASSUME ShapeOK, Start
             PROVE  ShapeOK'
  OBVIOUS
<1>1. /\ raised = None /\ stack # <<>> /\ Top.pc = "start"
      /\ Write(Event("started", Top.kind, Top.node, None)) /\ Goto("check")
      /\ UNCHANGED <<run, state, raised, asked, bodies, late, crashes>>
  BY DEF Start, At
<1>2. StackOK /\ TypesOK /\ Busy
  BY <1>1, Running
<1>3. Top.kind \in Kinds /\ Top.node \in Nodes \union {None}
  BY <1>1, <1>2, TopShape
<1>4. TrailOK' /\ Len(trail') = Len(trail) + 1
  BY <1>1, <1>2, <1>3, WritesEvent DEF Types
<1>5. Len(trail) \in Nat
  BY <1>2, LenProperties DEF TypesOK, TrailOK
<1>6. TypesOK'
  BY <1>1, <1>2, <1>4 DEF TypesOK
<1>7. StatusOK'
  BY <1>1, <1>2, <1>4, <1>5, RunStays
<1>8. StackOK'
  BY <1>1, <1>2, GotoShape DEF Steps
<1> QED BY <1>1, <1>6, <1>7, <1>8 DEF ShapeOK, RaisedOK

LEMMA DescendShape == ShapeOK /\ Descend => ShapeOK'
<1> SUFFICES ASSUME ShapeOK, Descend
             PROVE  ShapeOK'
  OBVIOUS
<1>1. /\ raised = None /\ stack # <<>> /\ Top.pc = "body"
      /\ UNCHANGED <<run, trail, state, raised, asked, bodies, late, crashes>>
  BY DEF Descend, At
<1>2. StackOK /\ TypesOK /\ Busy
  BY <1>1, Running
<1>3. PICK f \in Frame :
        /\ stack' = Append(Append(Under, [Top EXCEPT !.pc = "leave"]), f)
        /\ Len(stack) < 3 /\ run.workflow \in Registered
        /\ f.kind \in KindsAt(Len(stack) + 1) /\ f.pc = "enter" /\ f.node \in Nodes
        /\ Len(stack) = 2 => Wraps(Top.node) # "node"
  <2>1. CASE /\ Top.kind = "workflow" /\ run.workflow \in Registered
             /\ stack' = Append(Append(Under, [Top EXCEPT !.pc = "leave"]), Enter("node", FirstNode))
    <3>1. Enter("node", FirstNode) \in Frame /\ Enter("node", FirstNode).kind = "node"
          /\ Enter("node", FirstNode).pc = "enter" /\ Enter("node", FirstNode).node \in Nodes
      BY DEF Enter, FirstNode, Frame, Kinds, Steps, Nodes
    <3>2. Len(stack) = 1
      BY <1>1, <1>2, <2>1, TopShape
    <3> QED BY <2>1, <3>1, <3>2 DEF KindsAt
  <2>2. CASE /\ Top.kind = "node" /\ Wraps(Top.node) # "node"
             /\ stack' = Append(Append(Under, [Top EXCEPT !.pc = "leave"]),
                               Enter(Wraps(Top.node), Top.node))
    <3>1. Len(stack) = 2 /\ Top.node \in Nodes /\ run.workflow \in Registered
      BY <1>1, <1>2, <2>2, TopShape, SMTT(30)
    <3>2. Wraps(Top.node) \in {"tool", "model"}
      BY <2>2 DEF Wraps
    <3>3. /\ Enter(Wraps(Top.node), Top.node) \in Frame
          /\ Enter(Wraps(Top.node), Top.node).kind \in {"tool", "model"}
          /\ Enter(Wraps(Top.node), Top.node).pc = "enter"
          /\ Enter(Wraps(Top.node), Top.node).node \in Nodes
      BY <3>1, <3>2 DEF Enter, Frame, Kinds, Steps
    <3> QED BY <2>2, <3>1, <3>3 DEF KindsAt
  <2> QED BY <2>1, <2>2 DEF Descend
<1>4. StackOK'
  BY <1>1, <1>2, <1>3, Deeper
<1>5. TrailOK' /\ Len(trail') = Len(trail) /\ Len(trail) \in Nat
  BY <1>1, <1>2, TrailStays
<1>6. TypesOK'
  BY <1>1, <1>2, <1>5 DEF TypesOK
<1>7. StatusOK'
  BY <1>1, <1>2, <1>5, RunStays
<1> QED BY <1>1, <1>4, <1>6, <1>7 DEF ShapeOK, RaisedOK

\* An exception in a body or a graph that cannot be built.
LEMMA RaiseShape ==
  ASSUME ShapeOK, raised = None, stack # <<>>, Top.pc = "body",
         raised' \in Exception, raised' = "misconfigured" => Top.kind = "workflow",
         bodies' \in Nat, UNCHANGED <<run, trail, stack, state, asked, late, crashes>>
  PROVE  ShapeOK'
<1>1. StackOK /\ TypesOK /\ Busy
  BY Running
<1>2. TrailOK' /\ Len(trail') = Len(trail) /\ Len(trail) \in Nat
  BY <1>1, TrailStays
<1>3. TypesOK'
  BY <1>1, <1>2 DEF TypesOK
<1>4. StatusOK'
  BY <1>1, <1>2, RunStays
<1>5. StackOK'
  BY <1>1 DEF StackOK, Top
<1>6. RaisedOK'
  BY DEF RaisedOK, Top
<1> QED BY <1>3, <1>4, <1>5, <1>6 DEF ShapeOK

LEMMA BuildFailsShape == ShapeOK /\ BuildFails => ShapeOK'
<1> SUFFICES ASSUME ShapeOK, BuildFails
             PROVE  ShapeOK'
  OBVIOUS
<1>1. raised' \in {"misconfigured", "error"} /\ Top.kind = "workflow"
  BY BuildsRaise DEF BuildFails
<1>2. bodies' \in Nat
  BY DEF BuildFails, ShapeOK, TypesOK
<1> QED BY <1>1, <1>2, RaiseShape DEF BuildFails, At, Exception

LEMMA BodyFailsShape == ShapeOK /\ BodyFails => ShapeOK'
<1> SUFFICES ASSUME ShapeOK, BodyFails
             PROVE  ShapeOK'
  OBVIOUS
<1>1. raised' \in Exception \ {"cancelled", "timed_out", "misconfigured"}
  BY BodiesRaise DEF BodyFails
<1>2. bodies' \in Nat
  BY DEF BodyFails, Begun, ShapeOK, TypesOK
<1> QED BY <1>1, <1>2, RaiseShape DEF BodyFails, At

LEMMA BodyShape == ShapeOK /\ Body => ShapeOK'
<1> SUFFICES ASSUME ShapeOK, Body
             PROVE  ShapeOK'
  OBVIOUS
<1>1. /\ raised = None /\ stack # <<>> /\ Top.pc = "body" /\ HasBody
      /\ state' \in Results(run.workflow, Top.node, state, run.asks, run.category)
      /\ Goto("leave")
      /\ UNCHANGED <<run, trail, raised, asked, late, crashes>>
  BY DEF Body, At
<1>2. StackOK /\ TypesOK /\ Busy
  BY <1>1, Running
<1>3. bodies' \in Nat
  BY <1>2 DEF Body, Begun, TypesOK
<1>4. Top.node \in Nodes
  <2>1. Len(stack) \in 1 .. 3
    BY <1>1, <1>2, StackFacts
  <2>2. Len(stack) # 1
    BY <1>1, <1>2, TopShape DEF HasBody
  <2>3. Len(stack) > 1
    BY <2>1, <2>2
  <2> QED BY <1>1, <1>2, <2>3, TopShape
<1>5. state' \in WorkflowState /\ (Top.node = "classify" => state'.category \in Categories)
  <2>1. run.workflow \in Workflow /\ run.asks \in Question /\ run.category \in Categories
        /\ state \in WorkflowState
    BY <1>2 DEF TypesOK, RunState
  <2> QED BY <1>1, <1>4, <2>1, ResultsAreStates
<1>6. TrailOK' /\ Len(trail') = Len(trail) /\ Len(trail) \in Nat
  BY <1>1, <1>2, TrailStays
<1>7. TypesOK'
  BY <1>1, <1>2, <1>3, <1>5, <1>6 DEF TypesOK
<1>8. StatusOK'
  BY <1>1, <1>2, <1>6, RunStays
<1>9. StackOK'
  BY <1>1, <1>2, <1>5, GotoShape DEF Steps
<1> QED BY <1>1, <1>7, <1>8, <1>9 DEF ShapeOK, RaisedOK

\* What the end of a call leaves on the stack.
LEMMA FinishStack ==
  ASSUME ShapeOK, Finish
  PROVE  /\ StackOK' /\ stack' # <<>>
         /\ Top'.kind # "model" /\ Top'.pc \in {"enter", "leave"}
         /\ IF Top.kind = "node"
              THEN \/ Len(stack') = 1
                   \/ Len(stack') = 2 /\ Top'.pc = "enter"
              ELSE Len(stack) = 3 /\ Len(stack') = 2 /\ stack'[2] = stack[2]
<1>1. /\ raised = None /\ stack # <<>> /\ Top.pc = "finish" /\ Top.kind # "workflow"
      /\ UNCHANGED <<run, state>>
      /\ stack' = IF Top.kind # "node" THEN Under
                  ELSE LET next == Successor(run.workflow, Top.node, state)
                       IN IF next = "END" THEN Under ELSE Append(Under, Enter("node", next))
  BY DEF Finish, At
<1>2. StackOK /\ TypesOK
  BY <1>1, Running
<1>3. Len(stack) \in 1 .. 3 /\ Top.kind \in Kinds
  BY <1>1, <1>2, StackFacts, TopShape
<1>4. CASE Top.kind # "node"
  <2>1. Len(stack) = 3
    BY <1>1, <1>2, <1>3, <1>4, TopShape DEF Kinds
  <2>2. StackOK' /\ stack' # <<>> /\ Len(stack') = 2 /\ Top'.pc = "leave" /\ Top' = stack[2]
    BY <1>1, <1>2, <1>4, <2>1, Shallower
  <2>3. stack'[2] = stack[2]
    BY <2>2 DEF Top, Last
  <2>4. Top'.kind = "node"
    BY <1>1, <1>2, <2>1, <2>2, Below DEF KindsAt
  <2> QED BY <1>4, <2>1, <2>2, <2>3, <2>4
<1>5. CASE Top.kind = "node"
  <2> DEFINE next == Successor(run.workflow, Top.node, state)
  <2>1. Len(stack) = 2 /\ run.workflow \in Registered /\ Top.node \in Nodes
    BY <1>1, <1>2, <1>5, TopShape, SMTT(30)
  <2>2. next \in Nodes \union {"END"}
    <3>1. run.workflow = "demo.route" /\ Top.node = "classify" => state.category \in Categories
      BY <1>1, <1>2, <1>5, Below DEF Classified
    <3>2. state \in WorkflowState
      BY <1>2 DEF TypesOK
    <3> QED BY <2>1, <3>1, <3>2, SuccessorIsNode
  <2> HIDE DEF next
  <2>3. CASE next = "END"
    <3>1. stack' = Under
      BY <1>1, <1>5, <2>3 DEF next
    <3>2. StackOK' /\ stack' # <<>> /\ Len(stack') = 1 /\ Top'.pc = "leave" /\ Top' = stack[1]
      BY <1>1, <1>2, <2>1, <3>1, Shallower
    <3>3. Top'.kind = "workflow"
      BY <1>1, <1>2, <2>1, <3>2, Below DEF KindsAt
    <3> QED BY <1>5, <3>2, <3>3
  <2>4. CASE next # "END"
    <3> DEFINE f == Enter("node", next)
    <3>1. stack' = Append(Under, f)
      BY <1>1, <1>5, <2>4 DEF next
    <3>2. f \in Frame /\ f.kind = "node" /\ f.pc = "enter" /\ f.node \in Nodes
      BY <2>2, <2>4 DEF Enter, Frame, Kinds, Steps
    <3> HIDE DEF f
    <3>3. Classified(f, state') /\ f.kind \in KindsAt(Len(stack))
      BY <2>1, <3>2 DEF Classified, KindsAt
    <3>4. StackOK' /\ stack' # <<>> /\ Len(stack') = 2 /\ Top' = f
      BY <1>1, <1>2, <2>1, <3>1, <3>2, <3>3, SameDepth
    <3> QED BY <1>5, <3>2, <3>4
  <2> QED BY <2>3, <2>4
<1> QED BY <1>4, <1>5

LEMMA FinishShape == ShapeOK /\ Finish => ShapeOK'
<1> SUFFICES ASSUME ShapeOK, Finish
             PROVE  ShapeOK'
  OBVIOUS
<1>1. /\ raised = None /\ stack # <<>>
      /\ Write(Event("completed", Top.kind, Top.node, None))
      /\ UNCHANGED <<run, state, raised, asked, bodies, late, crashes>>
  BY DEF Finish, At
<1>2. StackOK /\ TypesOK /\ Busy
  BY <1>1, Running
<1>3. Top.kind \in Kinds /\ Top.node \in Nodes \union {None}
  BY <1>1, <1>2, TopShape
<1>4. TrailOK' /\ Len(trail') = Len(trail) + 1
  BY <1>1, <1>2, <1>3, WritesEvent DEF Types
<1>5. Len(trail) \in Nat
  BY <1>2, LenProperties DEF TypesOK, TrailOK
<1>6. TypesOK'
  BY <1>1, <1>2, <1>4 DEF TypesOK
<1>7. StatusOK'
  BY <1>1, <1>2, <1>4, <1>5, RunStays
<1>8. StackOK'
  BY FinishStack
<1> QED BY <1>1, <1>6, <1>7, <1>8 DEF ShapeOK, RaisedOK

LEMMA FinishWorkflowShape == ShapeOK /\ FinishWorkflow => ShapeOK'
<1> SUFFICES ASSUME ShapeOK, FinishWorkflow
             PROVE  ShapeOK'
  OBVIOUS
<1>1. /\ raised = None /\ stack # <<>> /\ Top.kind = "workflow"
      /\ Write(Event("completed", "workflow", None, None)) /\ Goto("complete")
      /\ UNCHANGED <<run, state, raised, asked, bodies, late, crashes>>
  BY DEF FinishWorkflow, At
<1>2. StackOK /\ TypesOK /\ Busy
  BY <1>1, Running
<1>3. TrailOK' /\ Len(trail') = Len(trail) + 1
  BY <1>1, <1>2, WritesEvent DEF Types, Kinds
<1>4. Len(trail) \in Nat
  BY <1>2, LenProperties DEF TypesOK, TrailOK
<1>5. TypesOK'
  BY <1>1, <1>2, <1>3 DEF TypesOK
<1>6. StatusOK'
  BY <1>1, <1>2, <1>3, <1>4, RunStays
<1>7. StackOK'
  BY <1>1, <1>2, GotoShape DEF Steps
<1> QED BY <1>1, <1>5, <1>6, <1>7 DEF ShapeOK, RaisedOK

\* An executor that has nothing open, and no exception, has come to rest.
LEMMA EmptyStack ==
  ASSUME stack' = <<>>
  PROVE  StackOK' /\ RaisedOK'
  BY EmptySeq DEF StackOK, RaisedOK

LEMMA CompleteShape == ShapeOK /\ Complete => ShapeOK'
<1> SUFFICES ASSUME ShapeOK, Complete
             PROVE  ShapeOK'
  OBVIOUS
<1>1. /\ raised = None /\ stack # <<>> /\ stack' = <<>>
      /\ run' = [run EXCEPT !.status = "completed"]
      /\ Write(Event("completed", "run", None, None))
      /\ UNCHANGED <<state, raised, asked, bodies, late, crashes>>
  BY DEF Complete, At, Set
<1>2. StackOK /\ TypesOK /\ run.attempt # 0 /\ StatusOK
  BY <1>1, Running DEF ShapeOK
<1>3. /\ run' \in RunState /\ run'.status = "completed" /\ run'.attempt = run.attempt
  BY <1>1, <1>2 DEF TypesOK, RunState, Status, Terminal
<1>4. TrailOK' /\ Len(trail') = Len(trail) + 1
  BY <1>1, <1>2, <1>3, WritesEvent DEF Types
<1>5. Len(trail) \in Nat
  BY <1>2, LenProperties DEF TypesOK, TrailOK
<1>6. TypesOK'
  BY <1>1, <1>2, <1>3, <1>4 DEF TypesOK
<1>7. StatusOK'
  BY <1>1, <1>2, <1>3, <1>4, <1>5 DEF TypesOK, StatusOK, Busy
<1> QED BY <1>1, <1>6, <1>7, EmptyStack DEF ShapeOK

LEMMA UnwindShape == ShapeOK /\ Unwind => ShapeOK'
<1> SUFFICES ASSUME ShapeOK, Unwind
             PROVE  ShapeOK'
  OBVIOUS
<1>1. /\ raised # None /\ stack # <<>> /\ stack' = <<>> /\ Busy /\ Busy'
      /\ \/ Write(Event("failed", "model", "generate_response", raised))
         \/ trail' = trail
      /\ UNCHANGED <<run, state, raised, asked, bodies, late, crashes>>
  BY DEF Unwind, Busy
<1>2. TypesOK /\ raised \in Exception
  BY <1>1 DEF ShapeOK, TypesOK
<1>3. TrailOK' /\ Len(trail') >= Len(trail) /\ Len(trail) \in Nat /\ Len(trail') \in Nat
  <2>1. Len(trail) \in Nat
    BY <1>2, LenProperties DEF TypesOK, TrailOK
  <2>2. CASE Write(Event("failed", "model", "generate_response", raised))
    <3>1. TrailOK' /\ Len(trail') = Len(trail) + 1
      BY <1>1, <1>2, <2>2, WritesEvent DEF Types, Kinds, Nodes
    <3> QED BY <2>1, <3>1
  <2>3. CASE trail' = trail
    BY <1>1, <1>2, <2>1, <2>3, TrailStays
  <2> QED BY <1>1, <2>2, <2>3
<1>4. TypesOK'
  BY <1>1, <1>2, <1>3 DEF TypesOK
<1>5. StatusOK'
  BY <1>1, <1>3, RunStays
<1> QED BY <1>1, <1>4, <1>5, EmptyStack DEF ShapeOK

LEMMA SettleShape == ShapeOK /\ Settle => ShapeOK'
<1> SUFFICES ASSUME ShapeOK, Settle
             PROVE  ShapeOK'
  OBVIOUS
<1>1. /\ raised # None /\ raised' = None /\ stack = <<>> /\ stack' = <<>>
      /\ UNCHANGED <<state, asked, bodies, late, crashes>>
  BY DEF Settle
<1>2. TypesOK /\ raised \in Exception /\ StatusOK /\ run.attempt # 0
  BY <1>1 DEF ShapeOK, TypesOK, StatusOK, Busy
<1>3. PICK status \in {"cancelled", "queued", "failed"}, type \in Types :
        /\ run' = [run EXCEPT !.status = status, !.failure = raised]
        /\ trail' = IF raised \in Retryable
                      THEN Append(Append(trail, Reason1), Event(type, "run", None, raised))
                      ELSE Append(trail, Event(type, "run", None, raised))
  BY <1>2, SettleTrail
<1>4. /\ run' \in RunState /\ run'.status = status
      /\ run'.attempt = run.attempt /\ run.attempt \in Nat
  BY <1>2, <1>3 DEF TypesOK, RunState, Status, Terminal
<1> DEFINE e == Event(type, "run", None, raised)
<1>5. e \in TrailEvent /\ e.attempt = run.attempt
  BY <1>2, EventFields
<1>6. Reason1 \in TrailEvent /\ Reason1.attempt = run.attempt
  <2>1. (IF raised = "timed_out" THEN "timeout_exceeded" ELSE "execution_failed") \in Types
    BY DEF Types
  <2> QED BY <1>2, <2>1, EventFields DEF Reason1
<1>7. trail \in Seq(TrailEvent) /\ \A i \in DOMAIN trail : trail[i].attempt <= run.attempt
  BY <1>2 DEF TypesOK, TrailOK
<1> HIDE DEF e
<1>8. TrailOK' /\ Len(trail') >= Len(trail) /\ Len(trail) \in Nat /\ Len(trail') \in Nat
  <2>1. CASE raised \notin Retryable
    <3>1. trail' = Append(trail, e)
      BY <1>3, <2>1 DEF e
    <3>2. Len(trail) \in Nat
      BY <1>7, LenProperties
    <3> QED BY <1>2, <1>4, <1>5, <3>1, <3>2, WriteTyped
  <2>2. CASE raised \in Retryable
    <3> DEFINE first == Append(trail, Reason1)
    <3>1. trail' = Append(first, e)
      BY <1>3, <2>2 DEF e
    <3>2. /\ first \in Seq(TrailEvent) /\ Len(trail) \in Nat /\ Len(first) = Len(trail) + 1
          /\ DOMAIN trail = 1 .. Len(trail) /\ DOMAIN first = 1 .. Len(trail) + 1
          /\ \A i \in 1 .. Len(trail) : first[i] = trail[i]
          /\ first[Len(trail) + 1] = Reason1
      BY <1>6, <1>7, AppendEvent
    <3> HIDE DEF first
    <3>3. /\ trail' \in Seq(TrailEvent) /\ Len(trail') = Len(first) + 1
          /\ DOMAIN trail' = 1 .. Len(first) + 1
          /\ \A i \in 1 .. Len(first) : trail'[i] = first[i]
          /\ trail'[Len(first) + 1] = e
      BY <1>5, <3>1, <3>2, AppendEvent
    <3>4. ASSUME NEW i \in 1 .. Len(trail) + 2
          PROVE  trail'[i].attempt <= run.attempt
      <4>1. CASE i \in 1 .. Len(trail)
        <5>1. trail'[i] = first[i] /\ first[i] = trail[i]
          BY <3>2, <3>3, <4>1
        <5> QED BY <1>7, <4>1, <5>1
      <4>2. CASE i = Len(trail) + 1
        <5>1. trail'[i] = Reason1
          BY <3>2, <3>3, <4>2
        <5> QED BY <1>4, <1>6, <5>1
      <4>3. CASE i = Len(trail) + 2
        BY <1>4, <1>5, <3>2, <3>3, <4>3
      <4> QED BY <3>2, <4>1, <4>2, <4>3
    <3>5. DOMAIN trail' = 1 .. Len(trail) + 2 /\ Len(trail') = Len(trail) + 2
      BY <3>2, <3>3
    <3> QED BY <1>4, <3>2, <3>3, <3>4, <3>5 DEF TrailOK
  <2> QED BY <2>1, <2>2
<1>9. TypesOK'
  BY <1>1, <1>2, <1>4, <1>8 DEF TypesOK
<1>10. StatusOK'
  BY <1>1, <1>2, <1>4, <1>8 DEF TypesOK, StatusOK, Busy
<1> QED BY <1>1, <1>9, <1>10, EmptyStack DEF ShapeOK

LEMMA CrashShape == ShapeOK /\ Crash => ShapeOK'
<1> SUFFICES ASSUME ShapeOK, Crash
             PROVE  ShapeOK'
  OBVIOUS
<1>1. /\ crashes < MaxCrashes /\ crashes' = crashes + 1 /\ stack' = <<>> /\ raised' = None
      /\ UNCHANGED <<run, trail, state, asked, bodies, late>>
  BY DEF Crash
<1>2. TypesOK /\ StatusOK
  BY DEF ShapeOK
<1>3. TrailOK' /\ Len(trail') = Len(trail)
  BY <1>1, <1>2, TrailStays
<1>4. TypesOK'
  BY <1>1, <1>2, <1>3 DEF TypesOK
<1>5. StatusOK'
  BY <1>1, <1>2 DEF StatusOK, Busy
<1> QED BY <1>1, <1>4, <1>5, EmptyStack DEF ShapeOK

\* The deadline passes, or nothing happens.
LEMMA OutsideShape ==
  ASSUME ShapeOK, late' \in BOOLEAN,
         UNCHANGED <<run, trail, stack, state, raised, asked, bodies, crashes>>
  PROVE  ShapeOK'
<1>1. TypesOK'
  BY DEF ShapeOK, TypesOK, TrailOK
<1>2. StackOK' /\ RaisedOK' /\ StatusOK'
  BY DEF ShapeOK, StackOK, RaisedOK, StatusOK, Top, Busy
<1> QED BY <1>1, <1>2 DEF ShapeOK

LEMMA ShapeStep == ShapeOK /\ [ExecNext]_execVars => ShapeOK'
<1>1. ShapeOK /\ Execute => ShapeOK'
  BY CheckShape, StartShape, DescendShape, BuildFailsShape, BodyShape, BodyFailsShape,
     FinishShape, FinishWorkflowShape, CompleteShape, UnwindShape, SettleShape DEF Execute
<1>2. ShapeOK /\ DeadlinePasses => ShapeOK'
  BY OutsideShape DEF DeadlinePasses
<1>3. ShapeOK /\ UNCHANGED execVars => ShapeOK'
  BY OutsideShape DEF execVars, ShapeOK, TypesOK
<1> QED BY <1>1, <1>2, <1>3, RequestShape, ClaimShape, CrashShape DEF ExecNext

\* The columns and the stack of the executor have their types in every state.
THEOREM ExecutionTypesCorrect == ExecSpec => []ExecTypeOK
<1>1. ShapeOK => ExecTypeOK
  <2> SUFFICES ASSUME ShapeOK
               PROVE  ExecTypeOK
    OBVIOUS
  <2>1. TypesOK /\ StackOK /\ run.attempt \in 0 .. MaxAttempts
    BY DEF ShapeOK, TypesOK, RunState
  <2>2. ASSUME NEW i \in DOMAIN trail
        PROVE  /\ trail[i].kind \in Kinds \union {"run"} /\ trail[i].node \in Nodes \union {None}
               /\ trail[i].attempt \in 0 .. MaxAttempts
               /\ trail[i].failure \in {None} \union Exception
    <3>1. trail \in Seq(TrailEvent)
      BY <2>1 DEF TypesOK, TrailOK
    <3>2. trail[i] \in TrailEvent
      BY <3>1, LenProperties
    <3> QED BY <3>2 DEF TrailEvent
  <2> QED BY <2>1, <2>2 DEF TypesOK, StackOK, ExecTypeOK
<1> QED BY <1>1, InitShape, ShapeStep, PTL DEF ExecSpec

-----------------------------------------------------------------------------
(* A cancellation is prompt *)

\* The events of run_once and of the API are no calls.
LEMMA AppendAfter ==
  ASSUME NEW events \in Seq(TrailEvent), NEW e \in TrailEvent, NEW n \in Nat, n <= Len(events)
  PROVE  /\ Cardinality(After(events, n)) \in Nat
         /\ Cardinality(After(Append(events, e), n))
              = Cardinality(After(events, n)) + (IF e.kind = "run" THEN 0 ELSE 1)
<1> DEFINE after == After(events, n)
           last == Len(events) + 1
<1>1. /\ Len(events) \in Nat /\ Len(Append(events, e)) = Len(events) + 1
      /\ \A i \in 1 .. Len(events) : Append(events, e)[i] = events[i]
      /\ Append(events, e)[Len(events) + 1] = e
  BY AppendEvent
<1>2. after \subseteq n + 1 .. Len(events)
  BY DEF After
<1>3. IsFiniteSet(after)
  <2>1. IsFiniteSet(n + 1 .. Len(events))
    BY <1>1, FS_Interval
  <2> QED BY <1>2, <2>1, FS_Subset
<1>4. Cardinality(after) \in Nat
  BY <1>3, FS_CardinalityType
<1>5. After(Append(events, e), n) = IF e.kind = "run" THEN after ELSE after \union {last}
  <2>1. ASSUME NEW i
        PROVE  i \in After(Append(events, e), n)
                 <=> i \in (IF e.kind = "run" THEN after ELSE after \union {last})
    <3>1. CASE i = last
      BY <1>1, <1>2, <3>1 DEF After
    <3>2. CASE i # last /\ i \in n + 1 .. Len(events) + 1
      BY <1>1, <3>2 DEF After
    <3>3. CASE i # last /\ i \notin n + 1 .. Len(events) + 1
      BY <1>1, <1>2, <3>3 DEF After
    <3> QED BY <3>1, <3>2, <3>3
  <2> HIDE DEF after, last
  <2> QED BY <2>1
<1>6. last \notin after
  BY <1>1, <1>2
<1>7. Cardinality(after \union {last}) = Cardinality(after) + 1
  BY <1>3, <1>6, FS_AddElement
<1> QED BY <1>4, <1>5, <1>7

LEMMA ToldStep ==
  ASSUME ShapeOK, asked # None, asked' = asked, NEW e \in TrailEvent, trail' = Append(trail, e)
  PROVE  ToldSince \in Nat /\ ToldSince' = ToldSince + (IF e.kind = "run" THEN 0 ELSE 1)
<1>1. trail \in Seq(TrailEvent) /\ asked \in Nat /\ asked <= Len(trail)
  BY DEF ShapeOK, TypesOK, TrailOK, StatusOK
<1>2. ToldSince' = Cardinality(After(Append(trail, e), asked))
  BY DEF ToldSince
<1> QED BY <1>1, <1>2, AppendAfter DEF ToldSince

LEMMA ToldStays ==
  ASSUME trail' = trail, asked' = asked
  PROVE  ToldSince' = ToldSince
  BY DEF ToldSince, After

\* run_once adds two events at most.
LEMMA ToldSettled ==
  ASSUME ShapeOK, Settle, asked # None
  PROVE  ToldSince' = ToldSince
<1>1. TypesOK /\ raised \in Exception /\ asked' = asked
  BY DEF Settle, ShapeOK, TypesOK
<1>2. PICK type \in Types :
        trail' = IF raised \in Retryable
                      THEN Append(Append(trail, Reason1), Event(type, "run", None, raised))
                      ELSE Append(trail, Event(type, "run", None, raised))
  BY <1>1, SettleTrail
<1> DEFINE e == Event(type, "run", None, raised)
<1>3. e \in TrailEvent /\ e.kind = "run"
  BY <1>1, EventFields DEF Event
<1>4. Reason1 \in TrailEvent /\ Reason1.kind = "run"
  BY <1>1, EventFields DEF Reason1, Types, Event
<1>5. trail \in Seq(TrailEvent) /\ asked \in Nat /\ asked <= Len(trail)
  BY <1>1 DEF ShapeOK, TypesOK, TrailOK, StatusOK
<1>6. ToldSince' = Cardinality(After(trail', asked))
  BY <1>1 DEF ToldSince
<1> HIDE DEF e
<1>7. CASE raised \notin Retryable
  BY <1>2, <1>3, <1>5, <1>6, <1>7, AppendAfter DEF e, ToldSince
<1>8. CASE raised \in Retryable
  <2> DEFINE first == Append(trail, Reason1)
  <2>1. /\ Cardinality(After(first, asked)) = Cardinality(After(trail, asked)) + 0
        /\ Cardinality(After(trail, asked)) \in Nat
    BY <1>4, <1>5, AppendAfter
  <2>2. first \in Seq(TrailEvent) /\ asked <= Len(first)
    BY <1>4, <1>5, AppendEvent
  <2>3. trail' = Append(first, e)
    BY <1>2, <1>8 DEF e
  <2> HIDE DEF first
  <2>4. Cardinality(After(trail', asked)) = Cardinality(After(first, asked)) + 0
    BY <1>3, <1>5, <2>2, <2>3, AppendAfter
  <2> QED BY <1>6, <2>1, <2>4 DEF ToldSince
<1> QED BY <1>7, <1>8

\* Steps that leave the request, the count and the trail alone and go no further than
\* a point from which as much may follow.
LEMMA PromptStays ==
  ASSUME PromptOK, UNCHANGED <<trail, asked, bodies>>,
         \/ stack' = <<>>
         \/ raised' = raised /\ stack' = stack
         \/ Top'.pc = "enter"
         \/ raised' # None /\ stack' = stack
  PROVE  PromptOK'
  BY ToldStays DEF PromptOK, Top

\* While the executor runs after a request, its next check raises.
LEMMA PromptExecute ==
  ASSUME ShapeOK, PromptOK, Execute, raised = None, stack # <<>>
  PROVE  PromptOK'
<1>1. StackOK /\ TypesOK /\ Top \in Frame
      /\ run.status = (IF asked = None THEN "running" ELSE "cancelling")
  BY Running
<1>2. asked' = asked
  BY DEF Execute, Check, Start, Descend, BuildFails, Body, BodyFails, Finish, FinishWorkflow,
         Complete, Unwind, Settle
<1>3. CASE asked = None
  <2>1. bodies' = bodies
    BY <1>3 DEF Execute, Check, Start, Descend, BuildFails, Body, BodyFails, Begun, Finish,
                FinishWorkflow, Complete, Unwind, Settle
  <2> QED BY <1>2, <1>3, <2>1 DEF PromptOK
<1>4. CASE asked # None
  <2>0. /\ bodies \in Nat /\ bodies <= 1 /\ ToldSince <= 2
        /\ Top.pc # "enter" => ToldSince <= 1
        /\ Top.pc \in {"start", "check", "body", "finish"} => bodies = 0
        /\ Top.pc \in {"start", "body", "finish"} => ToldSince = 0
    BY <1>1, <1>4 DEF PromptOK, TypesOK
  <2>1. CASE Check
    <3>1. raised' = "cancelled" /\ UNCHANGED <<stack, trail, asked, bodies>>
      BY <1>1, <1>4, <2>1 DEF Check
    <3>2. raised' # None
      BY <3>1 DEF Exception
    <3> QED BY <3>1, <3>2, PromptStays
  <2>2. CASE Start
    <3>1. /\ Top.pc = "start" /\ Goto("check") /\ bodies' = bodies
          /\ Write(Event("started", Top.kind, Top.node, None))
      BY <2>2 DEF Start, At
    <3>2. /\ Event("started", Top.kind, Top.node, None) \in TrailEvent
          /\ Event("started", Top.kind, Top.node, None).kind # "run"
      BY <1>1, EventFields DEF Types, Frame, Event, Kinds
    <3>3. ToldSince' = 1
      BY <1>2, <1>4, <2>0, <3>1, <3>2, ToldStep DEF Write
    <3>4. Top'.pc = "check"
      BY <1>1, <3>1, GotoStack DEF Steps, Frame
    <3> QED BY <1>2, <2>0, <3>1, <3>3, <3>4 DEF PromptOK
  <2>3. CASE Descend
    <3>1. UNCHANGED <<trail, asked, bodies>>
      BY <2>3 DEF Descend
    <3>2. PICK f \in Frame :
            /\ f.pc = "enter"
            /\ stack' = Append(Append(Under, [Top EXCEPT !.pc = "leave"]), f)
      <4>1. Enter("node", FirstNode) \in Frame /\ Enter("node", FirstNode).pc = "enter"
        BY DEF Enter, Frame, FirstNode, Kinds, Nodes, Steps
      <4>2. /\ Enter(Wraps(Top.node), Top.node) \in Frame
            /\ Enter(Wraps(Top.node), Top.node).pc = "enter"
        BY <1>1 DEF Enter, Frame, Wraps, Kinds, Steps
      <4> QED BY <2>3, <4>1, <4>2 DEF Descend
    <3>3. Top'.pc = "enter"
      BY <1>1, <3>2, PushStack
    <3> QED BY <3>1, <3>3, PromptStays
  <2>4. CASE BuildFails
    <3>1. raised' # None
      BY <2>4, BuildsRaise DEF BuildFails, Exception
    <3> QED BY <2>4, <3>1, PromptStays DEF BuildFails
  <2>5. CASE Body
    <3>1. /\ Top.pc = "body" /\ Goto("leave") /\ UNCHANGED <<trail, asked, raised>>
          /\ bodies' = bodies + 1
      BY <1>4, <2>5 DEF Body, At, Begun
    <3>2. Top'.pc = "leave"
      BY <1>1, <3>1, GotoStack DEF Steps, Frame
    <3>3. ToldSince' = ToldSince
      BY <3>1, ToldStays
    <3>4. ToldSince' = 0 /\ bodies' = 1
      BY <2>0, <3>1, <3>3
    <3> QED BY <1>2, <1>4, <3>1, <3>2, <3>4 DEF PromptOK
  <2>6. CASE BodyFails
    <3>1. /\ Top.pc = "body" /\ UNCHANGED <<trail, asked, stack>> /\ bodies' = bodies + 1
      BY <1>4, <2>6 DEF BodyFails, At, Begun
    <3>2. raised' # None
      BY <2>6, BodiesRaise DEF BodyFails
    <3>3. ToldSince' = ToldSince
      BY <3>1, ToldStays
    <3>4. ToldSince' = 0 /\ bodies' = 1
      BY <2>0, <3>1, <3>3
    <3> QED BY <1>2, <1>4, <3>1, <3>2, <3>4 DEF PromptOK
  <2>7. CASE Finish
    <3>1. /\ Top.pc = "finish" /\ bodies' = bodies
          /\ Write(Event("completed", Top.kind, Top.node, None))
      BY <2>7 DEF Finish, At
    <3>2. /\ Event("completed", Top.kind, Top.node, None) \in TrailEvent
          /\ Event("completed", Top.kind, Top.node, None).kind # "run"
      BY <1>1, EventFields DEF Types, Frame, Event, Kinds
    <3>3. ToldSince' = 1
      BY <1>2, <1>4, <2>0, <3>1, <3>2, ToldStep DEF Write
    <3>4. Top'.pc \in {"enter", "leave"}
      BY <2>7, FinishStack
    <3> QED BY <1>2, <2>0, <3>1, <3>3, <3>4 DEF PromptOK
  <2>8. CASE FinishWorkflow
    <3>1. /\ Top.pc = "finish" /\ bodies' = bodies /\ Goto("complete")
          /\ Write(Event("completed", "workflow", None, None))
      BY <2>8 DEF FinishWorkflow, At
    <3>2. /\ Event("completed", "workflow", None, None) \in TrailEvent
          /\ Event("completed", "workflow", None, None).kind # "run"
      BY <1>1, EventFields DEF Types, Event, Kinds
    <3>3. ToldSince' = 1
      BY <1>2, <1>4, <2>0, <3>1, <3>2, ToldStep DEF Write
    <3>4. Top'.pc = "complete"
      BY <1>1, <3>1, GotoStack DEF Steps, Frame
    <3> QED BY <1>2, <2>0, <3>1, <3>3, <3>4 DEF PromptOK
  <2>9. CASE Complete
    <3>1. /\ stack' = <<>> /\ bodies' = bodies /\ Write(Event("completed", "run", None, None))
      BY <2>9 DEF Complete
    <3>2. /\ Event("completed", "run", None, None) \in TrailEvent
          /\ Event("completed", "run", None, None).kind = "run"
      BY <1>1, EventFields DEF Types, Event
    <3>3. ToldSince' = ToldSince
      BY <1>2, <1>4, <3>1, <3>2, ToldStep DEF Write
    <3> QED BY <1>2, <2>0, <3>1, <3>3 DEF PromptOK
  <2>10. ~Unwind /\ ~Settle
    BY DEF Unwind, Settle
  <2> QED BY <2>1, <2>2, <2>3, <2>4, <2>5, <2>6, <2>7, <2>8, <2>9, <2>10 DEF Execute
<1> QED BY <1>3, <1>4

LEMMA PromptUnwind == ShapeOK /\ PromptOK /\ Unwind => PromptOK'
<1> SUFFICES ASSUME ShapeOK, PromptOK, Unwind
             PROVE  PromptOK'
  OBVIOUS
<1>1. /\ raised # None /\ stack # <<>> /\ stack' = <<>> /\ UNCHANGED <<asked, bodies>>
  BY DEF Unwind
<1>2. CASE asked = None \/ trail' = trail
  BY <1>1, <1>2, ToldStays DEF PromptOK
<1>3. CASE asked # None /\ trail' # trail
  <2>1. TellsModelFailed /\ Write(Event("failed", "model", "generate_response", raised))
    BY <1>3 DEF Unwind
  <2>2. TypesOK /\ raised \in Exception
    BY <1>1 DEF ShapeOK, TypesOK
  <2>3. /\ Event("failed", "model", "generate_response", raised) \in TrailEvent
        /\ Event("failed", "model", "generate_response", raised).kind = "model"
    BY <2>2, EventFields DEF Types, Event, Kinds, Nodes
  <2>4. ToldSince \in Nat /\ ToldSince' = ToldSince + 1
    BY <1>1, <1>3, <2>1, <2>3, ToldStep DEF Write
  <2>5. ToldSince <= 1
    BY <1>1, <1>3, <2>1 DEF PromptOK, TellsModelFailed
  <2> QED BY <1>1, <2>4, <2>5 DEF PromptOK
<1> QED BY <1>2, <1>3

LEMMA PromptStep == ShapeOK /\ PromptOK /\ [ExecNext]_execVars => PromptOK'
<1> SUFFICES ASSUME ShapeOK, PromptOK, [ExecNext]_execVars
             PROVE  PromptOK'
  OBVIOUS
<1>1. CASE RequestCancel
  <2>1. PICK type \in {"cancelled", "cancel_requested"} :
          trail' = Append(trail, Event(type, "run", None, None))
    BY <1>1 DEF RequestCancel, Write
  <2>2. /\ asked = None /\ asked' = Len(trail) /\ bodies' = bodies
    BY <1>1 DEF RequestCancel
  <2>3. trail \in Seq(TrailEvent) /\ TypesOK
    BY DEF ShapeOK, TypesOK, TrailOK
  <2>4. /\ Event(type, "run", None, None) \in TrailEvent
        /\ Event(type, "run", None, None).kind = "run"
    BY <2>3, EventFields DEF Types, Event
  <2>5. Len(trail) \in Nat /\ Cardinality(After(trail, Len(trail))) = 0
    <3>1. Len(trail) \in Nat
      BY <2>3, LenProperties
    <3>2. After(trail, Len(trail)) = {}
      BY <3>1 DEF After
    <3> QED BY <3>1, <3>2, FS_EmptySet
  <2>6. ToldSince' = 0
    BY <2>1, <2>2, <2>3, <2>4, <2>5, AppendAfter DEF ToldSince
  <2> QED BY <2>2, <2>6 DEF PromptOK
<1>2. CASE DeadlinePasses
  BY <1>2, PromptStays DEF DeadlinePasses
<1>3. CASE ClaimRun
  <2> DEFINE e == [Event("started", "run", None, None) EXCEPT !.attempt = run.attempt + 1]
  <2>1. /\ trail' = Append(trail, e) /\ stack' = <<Enter("workflow", None)>>
        /\ UNCHANGED <<raised, asked, bodies>> /\ run.attempt < MaxAttempts
    BY <1>3 DEF ClaimRun
  <2>2. run.attempt \in Nat
    BY DEF ShapeOK, TypesOK, RunState
  <2>3. e \in TrailEvent /\ e.kind = "run"
    <3>1. run.attempt + 1 \in 0 .. MaxAttempts
      BY <2>1, <2>2
    <3> QED BY <3>1 DEF Event, TrailEvent, Types
  <2> HIDE DEF e
  <2>4. asked # None => ToldSince' = ToldSince
    BY <2>1, <2>3, ToldStep
  <2>5. Top'.pc = "enter"
    BY <2>1 DEF Top, Last, Enter
  <2> QED BY <2>1, <2>4, <2>5 DEF PromptOK
<1>4. CASE Crash
  BY <1>4, PromptStays DEF Crash
<1>5. CASE Execute /\ raised = None
  <2>1. stack # <<>>
    BY <1>5 DEF Execute, Check, Start, Descend, BuildFails, Body, BodyFails, Finish,
                FinishWorkflow, Complete, Unwind, Settle, At
  <2> QED BY <1>5, <2>1, PromptExecute
<1>6. CASE Execute /\ raised # None
  <2>1. Unwind \/ Settle
    BY <1>6 DEF Execute, Check, Start, Descend, BuildFails, Body, BodyFails, Finish,
                FinishWorkflow, Complete, At
  <2>2. CASE Settle
    <3>1. stack' = <<>> /\ UNCHANGED <<asked, bodies>>
      BY <2>2 DEF Settle
    <3> QED BY <2>2, <3>1, ToldSettled DEF PromptOK
  <2> QED BY <2>1, <2>2, PromptUnwind
<1>7. CASE UNCHANGED execVars
  BY <1>7, PromptStays DEF execVars
<1> QED BY <1>1, <1>2, <1>3, <1>4, <1>5, <1>6, <1>7 DEF ExecNext

\* After a cancel request at most one more body begins and two more events are
\* reported, wherever the executor is when it comes and however often a worker dies.
THEOREM CancellationsArePrompt == ExecSpec => []CancelIsPrompt
<1>1. ExecInit => PromptOK
  BY DEF ExecInit, PromptOK
<1>2. PromptOK => CancelIsPrompt
  BY DEF PromptOK, CancelIsPrompt, ToldSince, After
<1> QED BY <1>1, <1>2, InitShape, ShapeStep, PromptStep, PTL DEF ExecSpec

-----------------------------------------------------------------------------
(* Every failure of the model is told *)

\* A set of places in the trail, and one more.
LEMMA OneMore ==
  ASSUME NEW n \in Nat, NEW places, places \subseteq 1 .. n
  PROVE  /\ IsFiniteSet(places) /\ Cardinality(places) \in Nat
         /\ Cardinality(places \union {n + 1}) = Cardinality(places) + 1
<1>1. IsFiniteSet(1 .. n)
  BY FS_Interval
<1>2. IsFiniteSet(places)
  BY <1>1, FS_Subset
<1>3. n + 1 \notin places
  OBVIOUS
<1> QED BY <1>2, <1>3, FS_CardinalityType, FS_AddElement

LEMMA AppendIn ==
  ASSUME NEW events \in Seq(TrailEvent), NEW e \in TrailEvent, NEW a, NEW kind, NEW type
  PROVE  In(Append(events, e), a, kind, type)
           = IF e.attempt = a /\ e.kind = kind /\ e.type = type
               THEN In(events, a, kind, type) \union {Len(events) + 1}
               ELSE In(events, a, kind, type)
<1> DEFINE next == Append(events, e)
<1>1. /\ Len(events) \in Nat
      /\ DOMAIN events = 1 .. Len(events) /\ DOMAIN next = 1 .. Len(events) + 1
      /\ \A i \in 1 .. Len(events) : next[i] = events[i]
      /\ next[Len(events) + 1] = e
  BY AppendEvent
<1> HIDE DEF next
<1>2. ASSUME NEW i
      PROVE  i \in In(next, a, kind, type)
               <=> i \in (IF e.attempt = a /\ e.kind = kind /\ e.type = type
                            THEN In(events, a, kind, type) \union {Len(events) + 1}
                            ELSE In(events, a, kind, type))
  <2>1. CASE i = Len(events) + 1
    BY <1>1, <2>1 DEF In
  <2>2. CASE i \in 1 .. Len(events)
    BY <1>1, <2>2 DEF In
  <2>3. CASE i \notin 1 .. Len(events) + 1
    BY <1>1, <2>3 DEF In
  <2> QED BY <1>1, <2>1, <2>2, <2>3
<1> QED BY <1>2 DEF next

LEMMA AppendFailed ==
  ASSUME NEW events \in Seq(TrailEvent), NEW e \in TrailEvent, NEW a
  PROVE  Failed(Append(events, e), a)
           = IF e.attempt = a /\ e.kind = "model" /\ e.type = "failed" /\ e.failure # "misconfigured"
               THEN Failed(events, a) \union {Len(events) + 1}
               ELSE Failed(events, a)
<1> DEFINE next == Append(events, e)
<1>1. /\ Len(events) \in Nat
      /\ DOMAIN events = 1 .. Len(events) /\ DOMAIN next = 1 .. Len(events) + 1
      /\ \A i \in 1 .. Len(events) : next[i] = events[i]
      /\ next[Len(events) + 1] = e
  BY AppendEvent
<1> HIDE DEF next
<1>2. ASSUME NEW i
      PROVE  i \in Failed(next, a)
               <=> i \in (IF e.attempt = a /\ e.kind = "model" /\ e.type = "failed"
                                /\ e.failure # "misconfigured"
                            THEN Failed(events, a) \union {Len(events) + 1}
                            ELSE Failed(events, a))
  <2>1. CASE i = Len(events) + 1
    BY <1>1, <2>1 DEF In, Failed
  <2>2. CASE i \in 1 .. Len(events)
    BY <1>1, <2>2 DEF In, Failed
  <2>3. CASE i \notin 1 .. Len(events) + 1
    BY <1>1, <2>3 DEF In, Failed
  <2> QED BY <1>1, <2>1, <2>2, <2>3
<1> QED BY <1>2 DEF next

LEMMA Counts ==
  ASSUME NEW events \in Seq(TrailEvent), NEW a
  PROVE  /\ Len(events) \in Nat
         /\ \A type : In(events, a, "model", type) \subseteq 1 .. Len(events)
         /\ Failed(events, a) \subseteq 1 .. Len(events)
  BY LenProperties DEF In, Failed

\* What an event does to the calls that wait for their end.
LEMMA UnansweredStep ==
  ASSUME NEW events \in Seq(TrailEvent), NEW e \in TrailEvent, NEW a, NEW n \in Nat,
         Unanswered(events, a, n)
  PROVE  /\ e.attempt # a \/ e.kind # "model" => Unanswered(Append(events, e), a, n)
         /\ e.attempt = a /\ e.kind = "model" =>
              /\ e.type = "started" => Unanswered(Append(events, e), a, n + 1)
              /\ e.type = "completed" /\ n = 1 => Unanswered(Append(events, e), a, 0)
              /\ e.type = "failed" /\ e.failure # "misconfigured" /\ n = 1
                   => Unanswered(Append(events, e), a, 0)
              /\ e.type = "failed" /\ e.failure = "misconfigured"
                   => Unanswered(Append(events, e), a, n)
<1> DEFINE calls == In(events, a, "model", "started")
           answers == In(events, a, "model", "completed")
           failures == Failed(events, a)
           last == Len(events) + 1
           next == Append(events, e)
<1>1. /\ Cardinality(calls) \in Nat /\ Cardinality(calls \union {last}) = Cardinality(calls) + 1
      /\ Cardinality(answers) \in Nat /\ Cardinality(answers \union {last}) = Cardinality(answers) + 1
      /\ Cardinality(failures) \in Nat /\ Cardinality(failures \union {last}) = Cardinality(failures) + 1
  BY Counts, OneMore
<1>2. In(next, a, "model", "started")
        = IF e.attempt = a /\ e.kind = "model" /\ e.type = "started" THEN calls \union {last} ELSE calls
  BY AppendIn
<1>3. In(next, a, "model", "completed")
        = IF e.attempt = a /\ e.kind = "model" /\ e.type = "completed"
            THEN answers \union {last} ELSE answers
  BY AppendIn
<1>4. Failed(next, a)
        = IF e.attempt = a /\ e.kind = "model" /\ e.type = "failed" /\ e.failure # "misconfigured"
            THEN failures \union {last} ELSE failures
  BY AppendFailed
<1>5. Cardinality(calls) = Cardinality(answers) + Cardinality(failures) + n
  BY DEF Unanswered
<1> HIDE DEF calls, answers, failures, last, next
<1>6. e.attempt # a \/ e.kind # "model" => Unanswered(next, a, n)
  BY <1>2, <1>3, <1>4, <1>5 DEF Unanswered
<1>7. ASSUME e.attempt = a, e.kind = "model"
      PROVE  /\ e.type = "started" => Unanswered(next, a, n + 1)
             /\ e.type = "completed" /\ n = 1 => Unanswered(next, a, 0)
             /\ e.type = "failed" /\ e.failure # "misconfigured" /\ n = 1 => Unanswered(next, a, 0)
             /\ e.type = "failed" /\ e.failure = "misconfigured" => Unanswered(next, a, n)
  <2>1. ASSUME e.type = "started"
        PROVE  Unanswered(next, a, n + 1)
    <3>1. /\ In(next, a, "model", "started") = calls \union {last} /\ Failed(next, a) = failures
          /\ In(next, a, "model", "completed") = answers
      BY <1>2, <1>3, <1>4, <1>7, <2>1
    <3>2. Cardinality(calls \union {last}) = Cardinality(answers) + Cardinality(failures) + (n + 1)
      BY <1>1, <1>5
    <3> QED BY <3>1, <3>2 DEF Unanswered
  <2>2. ASSUME e.type = "completed", n = 1
        PROVE  Unanswered(next, a, 0)
    <3>1. /\ In(next, a, "model", "started") = calls /\ Failed(next, a) = failures
          /\ In(next, a, "model", "completed") = answers \union {last}
      BY <1>2, <1>3, <1>4, <1>7, <2>2
    <3>2. Cardinality(calls) = Cardinality(answers \union {last}) + Cardinality(failures) + 0
      BY <1>1, <1>5, <2>2
    <3> QED BY <3>1, <3>2 DEF Unanswered
  <2>3. ASSUME e.type = "failed", e.failure # "misconfigured", n = 1
        PROVE  Unanswered(next, a, 0)
    <3>1. /\ In(next, a, "model", "started") = calls /\ Failed(next, a) = failures \union {last}
          /\ In(next, a, "model", "completed") = answers
      BY <1>2, <1>3, <1>4, <1>7, <2>3
    <3>2. Cardinality(calls) = Cardinality(answers) + Cardinality(failures \union {last}) + 0
      BY <1>1, <1>5, <2>3
    <3> QED BY <3>1, <3>2 DEF Unanswered
  <2>4. e.type = "failed" /\ e.failure = "misconfigured" => Unanswered(next, a, n)
    BY <1>1, <1>2, <1>3, <1>4, <1>5, <1>7 DEF Unanswered
  <2> QED BY <2>1, <2>2, <2>3, <2>4
<1> QED BY <1>6, <1>7 DEF next

LEMMA CallsStay ==
  ASSUME CallsOK, trail' = trail, run'.attempt = run.attempt, crashes' = crashes,
         InModel' <=> InModel
  PROVE  CallsOK'
  BY DEF CallsOK, Waiting, Unanswered, In, Failed

\* An event of the attempt: of something else, or the begin or the end of a call.
LEMMA CallsEvent ==
  ASSUME ShapeOK, CallsOK, NEW e \in TrailEvent, e.attempt = run.attempt,
         trail' = Append(trail, e), run'.attempt = run.attempt, crashes' = crashes,
         \/ e.kind # "model" /\ (InModel' <=> InModel)
         \/ e.kind = "model" /\ e.type = "started" /\ ~InModel /\ InModel'
         \/ e.kind = "model" /\ e.type = "completed" /\ InModel /\ ~InModel'
         \/ e.kind = "model" /\ e.type = "failed" /\ e.failure # "misconfigured" /\ InModel /\ ~InModel'
         \/ e.kind = "model" /\ e.type = "failed" /\ e.failure = "misconfigured" /\ ~InModel /\ ~InModel'
  PROVE  CallsOK'
<1> SUFFICES ASSUME crashes = 0, NEW a \in 1 .. run.attempt
             PROVE  Unanswered(Append(trail, e), a, Waiting(a)')
  BY DEF CallsOK, Unanswered, In, Failed
<1>1. trail \in Seq(TrailEvent)
  BY DEF ShapeOK, TypesOK, TrailOK
<1>2. Unanswered(trail, a, Waiting(a)) /\ Waiting(a) \in {0, 1}
  BY DEF CallsOK, Waiting
<1>3. CASE a # run.attempt
  <2>1. Waiting(a) = 0 /\ Waiting(a)' = 0
    BY <1>3 DEF Waiting
  <2> QED BY <1>1, <1>2, <1>3, <2>1, UnansweredStep
<1>4. CASE a = run.attempt
  <2>1. /\ Waiting(a) = IF InModel THEN 1 ELSE 0
        /\ Waiting(a)' = IF InModel' THEN 1 ELSE 0
    BY <1>4 DEF Waiting
  <2>2. CASE e.kind # "model" /\ (InModel' <=> InModel)
    <3>1. Waiting(a)' = Waiting(a)
      BY <2>1, <2>2
    <3> QED BY <1>1, <1>2, <2>2, <3>1, UnansweredStep
  <2>3. CASE e.kind = "model" /\ e.type = "started" /\ ~InModel /\ InModel'
    <3>1. Unanswered(trail, a, 0) /\ Waiting(a)' = 0 + 1
      BY <1>2, <2>1, <2>3
    <3>2. Unanswered(Append(trail, e), a, 0 + 1)
      BY <1>1, <1>4, <2>3, <3>1, UnansweredStep
    <3> QED BY <3>1, <3>2
  <2>4. CASE e.kind = "model" /\ e.type = "completed" /\ InModel /\ ~InModel'
    <3>1. Unanswered(trail, a, 1) /\ Waiting(a)' = 0
      BY <1>2, <2>1, <2>4
    <3> QED BY <1>1, <1>4, <2>4, <3>1, UnansweredStep
  <2>5. CASE /\ e.kind = "model" /\ e.type = "failed" /\ e.failure # "misconfigured"
             /\ InModel /\ ~InModel'
    <3>1. Unanswered(trail, a, 1) /\ Waiting(a)' = 0
      BY <1>2, <2>1, <2>5
    <3> QED BY <1>1, <1>4, <2>5, <3>1, UnansweredStep
  <2>6. CASE /\ e.kind = "model" /\ e.type = "failed" /\ e.failure = "misconfigured"
             /\ ~InModel /\ ~InModel'
    <3>1. Unanswered(trail, a, 0) /\ Waiting(a)' = 0
      BY <1>2, <2>1, <2>6
    <3> QED BY <1>1, <1>4, <2>6, <3>1, UnansweredStep
  <2> QED BY <2>2, <2>3, <2>4, <2>5, <2>6
<1> QED BY <1>3, <1>4

\* The innermost call of a model that may raise is inside the call.
LEMMA CallsUnwind == ShapeOK /\ CallsOK /\ Unwind => CallsOK'
<1> SUFFICES ASSUME ShapeOK, CallsOK, Unwind
             PROVE  CallsOK'
  OBVIOUS
<1> DEFINE e == Event("failed", "model", "generate_response", raised)
<1>1. /\ raised # None /\ stack # <<>> /\ stack' = <<>>
      /\ IF TellsModelFailed THEN trail' = Append(trail, e) ELSE trail' = trail
      /\ UNCHANGED <<run, crashes>>
  BY DEF Unwind, Write
<1>2. TypesOK /\ StackOK /\ RaisedOK /\ raised \in Exception
  BY <1>1 DEF ShapeOK, TypesOK
<1>3. e \in TrailEvent /\ e.attempt = run.attempt /\ e.kind = "model" /\ e.type = "failed"
      /\ e.failure = raised
  BY <1>2, EventFields DEF Types, Event, Kinds, Nodes
<1> HIDE DEF e
<1>4. ~InModel'
  BY <1>1 DEF InModel
<1>5. InModel <=> Top.kind = "model" /\ Top.pc # "enter"
  BY <1>1, <1>2 DEF InModel, RaisedOK
<1>6. InModel => raised # "misconfigured"
  BY <1>1, <1>2, <1>5 DEF RaisedOK
<1>7. CASE InModel
  <2>1. trail' = Append(trail, e)
    BY <1>1, <1>5, <1>7 DEF TellsModelFailed
  <2> QED BY <1>1, <1>3, <1>4, <1>6, <1>7, <2>1, CallsEvent
<1>8. CASE ~InModel /\ TellsModelFailed
  <2>1. raised = "misconfigured"
    BY <1>5, <1>8 DEF TellsModelFailed
  <2> QED BY <1>1, <1>3, <1>4, <1>8, <2>1, CallsEvent
<1>9. CASE ~InModel /\ ~TellsModelFailed
  BY <1>1, <1>4, <1>9, CallsStay
<1> QED BY <1>7, <1>8, <1>9

\* What run_once writes is no call.
LEMMA CallsSettle == ShapeOK /\ CallsOK /\ Settle => CallsOK'
<1> SUFFICES ASSUME ShapeOK, CallsOK, Settle
             PROVE  CallsOK'
  OBVIOUS
<1>1. TypesOK /\ raised \in Exception /\ stack = <<>> /\ stack' = <<>> /\ crashes' = crashes
  BY DEF Settle, ShapeOK, TypesOK
<1>2. PICK type \in Types, status \in {"cancelled", "queued", "failed"} :
        /\ run' = [run EXCEPT !.status = status, !.failure = raised]
        /\ trail' = IF raised \in Retryable
                      THEN Append(Append(trail, Reason1), Event(type, "run", None, raised))
                      ELSE Append(trail, Event(type, "run", None, raised))
  BY <1>1, SettleTrail
<1> DEFINE e == Event(type, "run", None, raised)
<1>3. e \in TrailEvent /\ e.kind = "run"
  BY <1>1, EventFields DEF Event
<1>4. Reason1 \in TrailEvent /\ Reason1.kind = "run"
  BY <1>1, EventFields DEF Reason1, Types, Event
<1>5. trail \in Seq(TrailEvent)
  BY <1>1 DEF TypesOK, TrailOK
<1> HIDE DEF e
<1>6. ASSUME crashes = 0, NEW a \in 1 .. run.attempt
      PROVE  Unanswered(trail', a, 0)
  <2>0. Unanswered(trail, a, 0)
    BY <1>1, <1>6 DEF CallsOK, Waiting, InModel
  <2>1. CASE raised \notin Retryable
    <3>1. trail' = Append(trail, e)
      BY <1>2, <2>1 DEF e
    <3> QED BY <1>3, <1>5, <2>0, <3>1, UnansweredStep
  <2>2. CASE raised \in Retryable
    <3> DEFINE first == Append(trail, Reason1)
    <3>1. first \in Seq(TrailEvent)
      BY <1>4, <1>5, AppendEvent
    <3>2. Unanswered(first, a, 0)
      BY <1>4, <1>5, <2>0, UnansweredStep
    <3>3. trail' = Append(first, e)
      BY <1>2, <2>2 DEF e
    <3> HIDE DEF first
    <3> QED BY <1>3, <3>1, <3>2, <3>3, UnansweredStep
  <2> QED BY <2>1, <2>2
<1>7. run'.attempt = run.attempt
  BY <1>1, <1>2 DEF TypesOK, RunState
<1>8. \A a : Waiting(a)' = 0
  BY <1>1 DEF Waiting, InModel
<1> QED BY <1>1, <1>6, <1>7, <1>8 DEF CallsOK, Unanswered, In, Failed

LEMMA CallsClaim == ShapeOK /\ CallsOK /\ ClaimRun => CallsOK'
<1> SUFFICES ASSUME ShapeOK, CallsOK, ClaimRun
             PROVE  CallsOK'
  OBVIOUS
<1> DEFINE e == [Event("started", "run", None, None) EXCEPT !.attempt = run.attempt + 1]
<1>1. /\ stack = <<>> /\ stack' = <<Enter("workflow", None)>> /\ trail' = Append(trail, e)
      /\ crashes' = crashes /\ run.attempt < MaxAttempts
  BY DEF ClaimRun, Busy
<1>2. run.attempt \in Nat /\ trail \in Seq(TrailEvent)
      /\ \A i \in DOMAIN trail : trail[i].attempt <= run.attempt
  BY DEF ShapeOK, TypesOK, TrailOK, RunState
<1>3. run'.attempt = run.attempt + 1
  BY DEF ClaimRun, ShapeOK, TypesOK, RunState
<1>4. e \in TrailEvent /\ e.kind = "run"
  <2>1. run.attempt + 1 \in 0 .. MaxAttempts
    BY <1>1, <1>2
  <2> QED BY <2>1 DEF Event, TrailEvent, Types
<1> HIDE DEF e
<1>5. ~InModel'
  BY <1>1 DEF InModel, Top, Last, Enter
<1>6. ASSUME crashes = 0, NEW a \in 1 .. run.attempt + 1
      PROVE  Unanswered(trail, a, 0)
  <2>1. CASE a \in 1 .. run.attempt
    BY <1>1, <1>6, <2>1 DEF CallsOK, Waiting, InModel
  <2>2. CASE a = run.attempt + 1
    <3>1. \A type : In(trail, a, "model", type) = {}
      BY <1>2, <2>2 DEF In
    <3>2. Failed(trail, a) = {}
      BY <3>1 DEF Failed
    <3> QED BY <3>1, <3>2, FS_EmptySet DEF Unanswered
  <2> QED BY <1>2, <2>1, <2>2
<1>7. ASSUME crashes = 0, NEW a \in 1 .. run.attempt + 1
      PROVE  Unanswered(trail', a, 0)
  BY <1>1, <1>2, <1>4, <1>6, <1>7, UnansweredStep
<1>8. \A a : Waiting(a)' = 0
  BY <1>5 DEF Waiting
<1> QED BY <1>1, <1>3, <1>7, <1>8 DEF CallsOK, Unanswered, In, Failed

LEMMA CallsExecute ==
  ASSUME ShapeOK, CallsOK, Execute, raised = None, stack # <<>>
  PROVE  CallsOK'
<1>1. StackOK /\ TypesOK /\ Top \in Frame
  BY Running
<1>2. CASE Check
  <2>1. UNCHANGED <<run, trail, crashes>> /\ Top.pc \in {"enter", "check", "leave"}
        /\ (stack' = stack \/ Goto(Checked[Top.pc]))
    BY <1>2 DEF Check, Checked
  <2>2. InModel' <=> InModel
    <3>1. CASE stack' = stack
      BY <3>1 DEF InModel, Top
    <3>2. CASE Goto(Checked[Top.pc])
      <4>1. /\ Checked[Top.pc] \in Steps
            /\ Checked[Top.pc] \in {"enter", "start"} <=> Top.pc \in {"enter", "start"}
        BY <2>1 DEF Checked, Steps
      <4>2. stack' # <<>> /\ Top'.kind = Top.kind /\ Top'.pc = Checked[Top.pc]
        BY <1>1, <3>2, <4>1, GotoStack DEF Frame
      <4> QED BY <4>1, <4>2 DEF InModel
    <3> QED BY <2>1, <3>1, <3>2
  <2> QED BY <2>1, <2>2, CallsStay
<1>3. CASE Start
  <2> DEFINE e == Event("started", Top.kind, Top.node, None)
  <2>1. Top.pc = "start" /\ trail' = Append(trail, e) /\ Goto("check") /\ UNCHANGED <<run, crashes>>
    BY <1>3 DEF Start, At, Write
  <2>2. e \in TrailEvent /\ e.attempt = run.attempt /\ e.kind = Top.kind /\ e.type = "started"
    BY <1>1, EventFields DEF Types, Event, Frame
  <2>3. stack' # <<>> /\ Top'.kind = Top.kind /\ Top'.pc = "check"
    BY <1>1, <2>1, GotoStack DEF Frame, Steps
  <2> HIDE DEF e
  <2>4. ~InModel /\ (InModel' <=> Top.kind = "model")
    BY <2>1, <2>3 DEF InModel
  <2> QED BY <2>1, <2>2, <2>4, CallsEvent
<1>4. CASE Descend
  <2>1. UNCHANGED <<run, trail, crashes>> /\ Top.kind # "model"
    BY <1>4 DEF Descend
  <2>2. Top'.pc = "enter"
    <3>1. PICK f \in Frame :
            f.pc = "enter" /\ stack' = Append(Append(Under, [Top EXCEPT !.pc = "leave"]), f)
      <4>1. Enter("node", FirstNode) \in Frame /\ Enter("node", FirstNode).pc = "enter"
        BY DEF Enter, Frame, FirstNode, Kinds, Nodes, Steps
      <4>2. /\ Enter(Wraps(Top.node), Top.node) \in Frame
            /\ Enter(Wraps(Top.node), Top.node).pc = "enter"
        BY <1>1 DEF Enter, Frame, Wraps, Kinds, Steps
      <4> QED BY <1>4, <4>1, <4>2 DEF Descend
    <3> QED BY <1>1, <3>1, PushStack
  <2> QED BY <2>1, <2>2, CallsStay DEF InModel
<1>5. CASE BuildFails \/ BodyFails
  BY <1>5, CallsStay DEF BuildFails, BodyFails, InModel, Top
<1>6. CASE Body
  <2>1. Top.pc = "body" /\ Goto("leave") /\ UNCHANGED <<run, trail, crashes>>
    BY <1>6 DEF Body, At
  <2>2. stack' # <<>> /\ Top'.kind = Top.kind /\ Top'.pc = "leave"
    BY <1>1, <2>1, GotoStack DEF Frame, Steps
  <2> QED BY <2>1, <2>2, CallsStay DEF InModel
<1>7. CASE Finish
  <2> DEFINE e == Event("completed", Top.kind, Top.node, None)
  <2>1. Top.pc = "finish" /\ trail' = Append(trail, e) /\ UNCHANGED <<run, crashes>>
    BY <1>7 DEF Finish, At, Write
  <2>2. e \in TrailEvent /\ e.attempt = run.attempt /\ e.kind = Top.kind /\ e.type = "completed"
    BY <1>1, EventFields DEF Types, Event, Frame
  <2> HIDE DEF e
  <2>3. ~InModel'
    BY <1>7, FinishStack DEF InModel
  <2>4. InModel <=> Top.kind = "model"
    BY <2>1 DEF InModel
  <2> QED BY <2>1, <2>2, <2>3, <2>4, CallsEvent
<1>8. CASE FinishWorkflow
  <2> DEFINE e == Event("completed", "workflow", None, None)
  <2>1. Top.kind = "workflow" /\ trail' = Append(trail, e) /\ Goto("complete")
        /\ UNCHANGED <<run, crashes>>
    BY <1>8 DEF FinishWorkflow, At, Write
  <2>2. e \in TrailEvent /\ e.attempt = run.attempt /\ e.kind = "workflow"
    BY <1>1, EventFields DEF Types, Event, Kinds
  <2> HIDE DEF e
  <2>3. Top'.kind = "workflow"
    BY <1>1, <2>1, GotoStack DEF Frame, Steps
  <2> QED BY <2>1, <2>2, <2>3, CallsEvent DEF InModel
<1>9. CASE Complete
  <2> DEFINE e == Event("completed", "run", None, None)
  <2>1. /\ Top.kind = "workflow" /\ trail' = Append(trail, e) /\ stack' = <<>>
        /\ run' = [run EXCEPT !.status = "completed"] /\ crashes' = crashes
    BY <1>1, <1>9, TopShape DEF Complete, At, Write, Set
  <2>2. e \in TrailEvent /\ e.attempt = run.attempt /\ e.kind = "run"
    BY <1>1, EventFields DEF Types, Event
  <2> HIDE DEF e
  <2>3. run'.attempt = run.attempt
    BY <1>1, <2>1 DEF TypesOK, RunState
  <2> QED BY <2>1, <2>2, <2>3, CallsEvent DEF InModel
<1>10. ~Unwind /\ ~Settle
  BY DEF Unwind, Settle
<1> QED BY <1>2, <1>3, <1>4, <1>5, <1>6, <1>7, <1>8, <1>9, <1>10 DEF Execute

\* Whether an exception is on its way decides which steps there are.
LEMMA ExecuteCases ==
  ASSUME Execute
  PROVE  \/ raised = None /\ stack # <<>>
         \/ Unwind \/ Settle
  BY DEF Execute, Check, Start, Descend, BuildFails, Body, BodyFails, Finish,
         FinishWorkflow, Complete, At

LEMMA CallsStep == ShapeOK /\ CallsOK /\ [ExecNext]_execVars => CallsOK'
<1> SUFFICES ASSUME ShapeOK, CallsOK, [ExecNext]_execVars
             PROVE  CallsOK'
  OBVIOUS
<1>1. CASE RequestCancel
  <2>1. PICK type \in {"cancelled", "cancel_requested"} :
          trail' = Append(trail, Event(type, "run", None, None))
    BY <1>1 DEF RequestCancel, Write
  <2>2. TypesOK
    BY DEF ShapeOK
  <2> DEFINE e == Event(type, "run", None, None)
  <2>3. e \in TrailEvent /\ e.kind = "run" /\ e.attempt = run.attempt
    BY <2>2, EventFields DEF Types, Event
  <2> HIDE DEF e
  <2>4. run'.attempt = run.attempt /\ stack' = stack /\ crashes' = crashes
    BY <1>1, <2>2 DEF RequestCancel, Set, TypesOK, RunState
  <2>5. InModel' <=> InModel
    BY <2>4 DEF InModel, Top
  <2> QED BY <2>1, <2>3, <2>4, <2>5, CallsEvent DEF e
<1>2. CASE DeadlinePasses
  BY <1>2, CallsStay DEF DeadlinePasses, InModel, Top
<1>3. CASE Crash
  BY <1>3 DEF Crash, CallsOK, ShapeOK, TypesOK
<1>4. CASE UNCHANGED execVars
  BY <1>4, CallsStay DEF execVars, InModel, Top
<1>5. CASE Execute
  BY <1>5, ExecuteCases, CallsExecute, CallsUnwind, CallsSettle
<1> QED BY <1>1, <1>2, <1>3, <1>4, <1>5, CallsClaim DEF ExecNext

-----------------------------------------------------------------------------
(* The page reads the trail *)

\* What an event adds to the nodes that are told of.
LEMMA AppendNodes ==
  ASSUME NEW events \in Seq(TrailEvent), NEW e \in TrailEvent, NEW node
  PROVE  /\ Started(Append(events, e), node)
              <=> Started(events, node) \/ (StartsNode(e) /\ e.node = node)
         /\ Ended(Append(events, e), node)
              <=> Ended(events, node) \/ (EndsNode(e) /\ e.node = node)
<1> DEFINE next == Append(events, e)
<1>1. /\ Len(events) \in Nat
      /\ DOMAIN events = 1 .. Len(events) /\ DOMAIN next = 1 .. Len(events) + 1
      /\ \A i \in 1 .. Len(events) : next[i] = events[i]
      /\ next[Len(events) + 1] = e
  BY AppendEvent
<1> HIDE DEF next
<1>2. \A i \in 1 .. Len(events) + 1 : i = Len(events) + 1 \/ i \in 1 .. Len(events)
  BY <1>1
<1>3. Started(next, node) <=> Started(events, node) \/ (StartsNode(e) /\ e.node = node)
  BY <1>1, <1>2 DEF Started
<1>4. Ended(next, node) <=> Ended(events, node) \/ (EndsNode(e) /\ e.node = node)
  BY <1>1, <1>2 DEF Ended
<1> QED BY <1>3, <1>4 DEF next

LEMMA AppendQuiet ==
  ASSUME NEW events \in Seq(TrailEvent), NEW e \in TrailEvent, QuietBefore(events),
         e.attempt = 0 => e.kind = "run"
  PROVE  QuietBefore(Append(events, e))
<1> DEFINE next == Append(events, e)
<1>1. /\ Len(events) \in Nat
      /\ DOMAIN events = 1 .. Len(events) /\ DOMAIN next = 1 .. Len(events) + 1
      /\ \A i \in 1 .. Len(events) : next[i] = events[i]
      /\ next[Len(events) + 1] = e
  BY AppendEvent
<1> HIDE DEF next
<1>2. \A i \in 1 .. Len(events) + 1 : i = Len(events) + 1 \/ i \in 1 .. Len(events)
  BY <1>1
<1>3. QuietBefore(next)
  BY <1>1, <1>2 DEF QuietBefore
<1> QED BY <1>3 DEF next

LEMMA NodesStay ==
  ASSUME NodesOK, trail' = trail, run'.attempt = run.attempt,
         stack' # <<>> => /\ stack # <<>> /\ (InNode' <=> InNode)
                          /\ InNode => stack'[2].node = stack[2].node
  PROVE  NodesOK'
<1>1. \A node : Started(trail', node) <=> Started(trail, node)
  BY DEF Started
<1>2. \A node : Ended(trail', node) <=> Ended(trail, node)
  BY DEF Ended
<1>3. QuietBefore(trail')
  BY DEF NodesOK, QuietBefore
<1> QED BY <1>1, <1>2, <1>3 DEF NodesOK

\* An event that is not about a node.
LEMMA NodesOther ==
  ASSUME ShapeOK, NodesOK, NEW e \in TrailEvent, trail' = Append(trail, e),
         run'.attempt = run.attempt, e.kind # "node", e.attempt = 0 => e.kind = "run",
         stack' # <<>> => /\ stack # <<>> /\ (InNode' <=> InNode)
                          /\ InNode => stack'[2].node = stack[2].node
  PROVE  NodesOK'
<1>1. trail \in Seq(TrailEvent)
  BY DEF ShapeOK, TypesOK, TrailOK
<1>2. QuietBefore(trail')
  BY <1>1, AppendQuiet DEF NodesOK
<1>3. \A node : /\ Started(trail', node) <=> Started(trail, node)
                /\ Ended(trail', node) <=> Ended(trail, node)
  BY <1>1, AppendNodes DEF StartsNode, EndsNode
<1> QED BY <1>2, <1>3 DEF NodesOK

\* The frame of the node, when only the innermost call goes on.
LEMMA SecondFrame ==
  ASSUME StackOK, stack # <<>>, NEW pc \in Steps, Goto(pc),
         pc \in {"enter", "start"} <=> Top.pc \in {"enter", "start"}
  PROVE  /\ stack' # <<>> /\ (InNode' <=> InNode)
         /\ InNode => stack'[2].node = stack[2].node
<1>1. /\ stack' # <<>> /\ Len(stack') = Len(stack)
      /\ Top' = [Top EXCEPT !.pc = pc] /\ Top' = stack'[Len(stack)]
      /\ \A i \in 1 .. Len(stack) - 1 : stack'[i] = stack[i]
  BY GotoStack
<1>2. Len(stack) \in 1 .. 3 /\ Top = stack[Len(stack)] /\ Top \in Frame
  BY StackFacts
<1>3. Top'.pc = pc /\ Top'.node = Top.node
  BY <1>1, <1>2 DEF Frame
<1>4. CASE Len(stack) = 2
  BY <1>1, <1>2, <1>3, <1>4 DEF InNode
<1>5. CASE Len(stack) = 3
  BY <1>1, <1>2, <1>5 DEF InNode
<1>6. CASE Len(stack) = 1
  BY <1>1, <1>2, <1>6 DEF InNode
<1> QED BY <1>2, <1>4, <1>5, <1>6

\* A node is told to start where none is open.
LEMMA NodesStart ==
  ASSUME ShapeOK, NodesOK, Start, Top.kind = "node"
  PROVE  NodesOK'
<1> DEFINE e == Event("started", Top.kind, Top.node, None)
<1>1. /\ raised = None /\ stack # <<>> /\ Top.pc = "start" /\ trail' = Append(trail, e)
      /\ Goto("check") /\ run' = run
  BY DEF Start, At, Write
<1>2. StackOK /\ TypesOK /\ Top \in Frame /\ run.attempt # 0
  BY <1>1, Running
<1>3. /\ e \in TrailEvent /\ e.attempt = run.attempt /\ StartsNode(e) /\ e.node = Top.node
      /\ ~EndsNode(e)
  BY <1>2, EventFields DEF Types, Event, Frame, StartsNode, EndsNode
<1> HIDE DEF e
<1>4. Len(stack) = 2 /\ Top = stack[2]
  BY <1>1, <1>2, TopShape, StackFacts
<1>5. stack' # <<>> /\ Len(stack') = 2 /\ stack'[2] = Top' /\ Top'.pc = "check"
      /\ Top'.node = Top.node
  BY <1>1, <1>2, <1>4, GotoStack DEF Frame, Steps
<1>6. ~InNode /\ InNode' /\ stack'[2].node = Top.node
  BY <1>1, <1>4, <1>5 DEF InNode
<1>7. trail \in Seq(TrailEvent)
  BY <1>2 DEF TypesOK, TrailOK
<1>8. \A node : /\ Started(trail', node) <=> Started(trail, node) \/ Top.node = node
                /\ Ended(trail', node) <=> Ended(trail, node)
  BY <1>1, <1>3, <1>7, AppendNodes
<1>9. QuietBefore(trail')
  BY <1>1, <1>2, <1>3, <1>7, AppendQuiet DEF NodesOK
<1> QED BY <1>1, <1>6, <1>8, <1>9 DEF NodesOK

\* And told to end where it is open.
LEMMA NodesFinish ==
  ASSUME ShapeOK, NodesOK, Finish, Top.kind = "node"
  PROVE  NodesOK'
<1> DEFINE e == Event("completed", Top.kind, Top.node, None)
<1>1. /\ raised = None /\ stack # <<>> /\ Top.pc = "finish" /\ trail' = Append(trail, e)
      /\ run' = run
  BY DEF Finish, At, Write
<1>2. StackOK /\ TypesOK /\ Top \in Frame /\ run.attempt # 0
  BY <1>1, Running
<1>3. /\ e \in TrailEvent /\ e.attempt = run.attempt /\ EndsNode(e) /\ e.node = Top.node
      /\ ~StartsNode(e)
  BY <1>2, EventFields DEF Types, Event, Frame, StartsNode, EndsNode
<1> HIDE DEF e
<1>4. Len(stack) = 2 /\ Top = stack[2]
  BY <1>1, <1>2, TopShape, StackFacts
<1>5. InNode /\ stack[2].node = Top.node
  BY <1>1, <1>4 DEF InNode
<1>6. ~InNode'
  <2>1. CASE Len(stack') = 1
    BY <2>1 DEF InNode
  <2>2. CASE Len(stack') = 2 /\ Top'.pc = "enter"
    BY <2>2 DEF InNode, Top, Last
  <2> QED BY <2>1, <2>2, FinishStack
<1>7. trail \in Seq(TrailEvent)
  BY <1>2 DEF TypesOK, TrailOK
<1>8. \A node : /\ Started(trail', node) <=> Started(trail, node)
                /\ Ended(trail', node) <=> Ended(trail, node) \/ Top.node = node
  BY <1>1, <1>3, <1>7, AppendNodes
<1>9. QuietBefore(trail')
  BY <1>1, <1>2, <1>3, <1>7, AppendQuiet DEF NodesOK
<1> QED BY <1>1, <1>5, <1>6, <1>8, <1>9 DEF NodesOK

LEMMA NodesExecute ==
  ASSUME ShapeOK, NodesOK, Execute, raised = None, stack # <<>>
  PROVE  NodesOK'
<1>1. StackOK /\ TypesOK /\ Top \in Frame /\ run.attempt # 0
  BY Running
<1>2. CASE Check
  <2>1. UNCHANGED <<run, trail>> /\ Top.pc \in {"enter", "check", "leave"}
        /\ (stack' = stack \/ Goto(Checked[Top.pc]))
    BY <1>2 DEF Check, Checked
  <2>2. CASE stack' = stack
    BY <2>1, <2>2, NodesStay DEF InNode
  <2>3. CASE Goto(Checked[Top.pc])
    <3>1. /\ Checked[Top.pc] \in Steps
          /\ Checked[Top.pc] \in {"enter", "start"} <=> Top.pc \in {"enter", "start"}
      BY <2>1 DEF Checked, Steps
    <3> QED BY <1>1, <2>1, <2>3, <3>1, SecondFrame, NodesStay
  <2> QED BY <2>1, <2>2, <2>3
<1>3. CASE Start /\ Top.kind # "node"
  <2> DEFINE e == Event("started", Top.kind, Top.node, None)
  <2>1. Top.pc = "start" /\ trail' = Append(trail, e) /\ Goto("check") /\ run' = run
    BY <1>3 DEF Start, At, Write
  <2>2. e \in TrailEvent /\ e.attempt = run.attempt /\ e.kind # "node"
    BY <1>1, <1>3, EventFields DEF Types, Event, Frame
  <2> HIDE DEF e
  <2>3. /\ stack' # <<>> /\ Len(stack') = Len(stack)
        /\ \A i \in 1 .. Len(stack) - 1 : stack'[i] = stack[i]
    BY <1>1, <2>1, GotoStack DEF Steps
  <2>4. Len(stack) \in {1, 3}
    BY <1>1, <1>3, StackFacts, TopShape
  <2>5. (InNode' <=> InNode) /\ (InNode => stack'[2].node = stack[2].node)
    BY <2>3, <2>4 DEF InNode
  <2> QED BY <1>1, <2>1, <2>2, <2>5, NodesOther
<1>4. CASE Descend
  <2>1. run' = run /\ trail' = trail /\ Top.pc = "body" /\ Top.kind \in {"workflow", "node"}
    BY <1>4 DEF Descend, At
  <2>2. PICK f \in Frame :
          f.pc = "enter" /\ stack' = Append(Append(Under, [Top EXCEPT !.pc = "leave"]), f)
    <3>1. Enter("node", FirstNode) \in Frame /\ Enter("node", FirstNode).pc = "enter"
      BY DEF Enter, Frame, FirstNode, Kinds, Nodes, Steps
    <3>2. /\ Enter(Wraps(Top.node), Top.node) \in Frame
          /\ Enter(Wraps(Top.node), Top.node).pc = "enter"
      BY <1>1 DEF Enter, Frame, Wraps, Kinds, Steps
    <3> QED BY <1>4, <3>1, <3>2 DEF Descend
  <2>3. /\ Len(stack') = Len(stack) + 1 /\ stack'[Len(stack) + 1] = f
        /\ stack'[Len(stack)] = [Top EXCEPT !.pc = "leave"]
    BY <1>1, <2>2, PushStack
  <2>4. /\ Len(stack) \in 1 .. 2 /\ Top = stack[Len(stack)]
        /\ stack'[Len(stack)].pc = "leave" /\ stack'[Len(stack)].node = Top.node
    BY <1>1, <2>1, <2>3, StackFacts, TopShape DEF Frame
  <2>5. (InNode' <=> InNode) /\ (InNode => stack'[2].node = stack[2].node)
    <3>1. CASE Len(stack) = 1
      BY <2>2, <2>3, <3>1 DEF InNode
    <3>2. CASE Len(stack) = 2
      <4>1. Len(stack') = 3 /\ stack[2] = Top /\ stack'[2].pc = "leave" /\ stack'[2].node = Top.node
        <5>1. Len(stack') = 3 /\ stack[2] = Top
          BY <2>3, <2>4, <3>2
        <5>2. stack'[2].pc = "leave" /\ stack'[2].node = Top.node
          BY <2>4, <3>2
        <5> QED BY <5>1, <5>2
      <4>2. InNode
        BY <2>1, <3>2, <4>1 DEF InNode
      <4>3. InNode'
        BY <4>1 DEF InNode
      <4> QED BY <4>1, <4>2, <4>3
    <3> QED BY <2>4, <3>1, <3>2
  <2> QED BY <2>1, <2>5, NodesStay
<1>5. CASE BuildFails \/ BodyFails
  BY <1>5, NodesStay DEF BuildFails, BodyFails, InNode
<1>6. CASE Body
  <2>1. Top.pc = "body" /\ Goto("leave") /\ UNCHANGED <<run, trail>>
    BY <1>6 DEF Body, At
  <2> QED BY <1>1, <2>1, SecondFrame, NodesStay DEF Steps
<1>7. CASE Finish /\ Top.kind # "node"
  <2> DEFINE e == Event("completed", Top.kind, Top.node, None)
  <2>1. trail' = Append(trail, e) /\ run' = run
    BY <1>7 DEF Finish, At, Write
  <2>2. e \in TrailEvent /\ e.attempt = run.attempt /\ e.kind # "node"
    BY <1>1, <1>7, EventFields DEF Types, Event, Frame
  <2> HIDE DEF e
  <2>3. Len(stack) = 3 /\ Len(stack') = 2 /\ stack'[2] = stack[2]
    BY <1>7, FinishStack
  <2>4. (InNode' <=> InNode) /\ (InNode => stack'[2].node = stack[2].node)
    BY <2>3 DEF InNode
  <2> QED BY <1>1, <2>1, <2>2, <2>4, NodesOther
<1>8. CASE FinishWorkflow
  <2> DEFINE e == Event("completed", "workflow", None, None)
  <2>1. Top.kind = "workflow" /\ trail' = Append(trail, e) /\ Goto("complete") /\ run' = run
    BY <1>8 DEF FinishWorkflow, At, Write
  <2>2. e \in TrailEvent /\ e.attempt = run.attempt /\ e.kind # "node"
    BY <1>1, EventFields DEF Types, Event, Kinds
  <2> HIDE DEF e
  <2>3. Len(stack') = 1 /\ Len(stack) = 1
    BY <1>1, <2>1, GotoStack, TopShape DEF Steps
  <2> QED BY <1>1, <2>1, <2>2, <2>3, NodesOther DEF InNode
<1>9. CASE Complete
  <2> DEFINE e == Event("completed", "run", None, None)
  <2>1. /\ trail' = Append(trail, e) /\ stack' = <<>>
        /\ run' = [run EXCEPT !.status = "completed"]
    BY <1>9 DEF Complete, Write, Set
  <2>2. e \in TrailEvent /\ e.kind = "run"
    BY <1>1, EventFields DEF Types, Event
  <2> HIDE DEF e
  <2>3. run'.attempt = run.attempt
    BY <1>1, <2>1 DEF TypesOK, RunState
  <2> QED BY <2>1, <2>2, <2>3, NodesOther
<1>10. ~Unwind /\ ~Settle
  BY DEF Unwind, Settle
<1>11. CASE Start /\ Top.kind = "node"
  BY <1>11, NodesStart
<1>12. CASE Finish /\ Top.kind = "node"
  BY <1>12, NodesFinish
<1> QED BY <1>2, <1>3, <1>4, <1>5, <1>6, <1>7, <1>8, <1>9, <1>10, <1>11, <1>12 DEF Execute

\* A stack that is empty says nothing of the nodes.
LEMMA NodesEmpty ==
  ASSUME stack' = <<>>, QuietBefore(trail')
  PROVE  NodesOK'
BY DEF NodesOK, QuietBefore

LEMMA NodesUnwind == ShapeOK /\ NodesOK /\ Unwind => NodesOK'
<1> SUFFICES ASSUME ShapeOK, NodesOK, Unwind
             PROVE  NodesOK'
  OBVIOUS
<1> DEFINE e == Event("failed", "model", "generate_response", raised)
<1>1. /\ stack' = <<>> /\ raised # None /\ (trail' = trail \/ trail' = Append(trail, e))
  BY DEF Unwind, Write
<1>2. TypesOK /\ raised \in Exception /\ trail \in Seq(TrailEvent)
  BY <1>1 DEF ShapeOK, TypesOK, TrailOK
<1>3. run.attempt # 0
  BY <1>1 DEF ShapeOK, StatusOK, Busy
<1>4. e \in TrailEvent /\ e.attempt # 0
  BY <1>2, <1>3, EventFields DEF Types, Kinds, Nodes
<1> HIDE DEF e
<1>5. QuietBefore(trail) /\ QuietBefore(Append(trail, e))
  BY <1>2, <1>4, AppendQuiet DEF NodesOK
<1> QED BY <1>1, <1>5, NodesEmpty

LEMMA NodesSettle == ShapeOK /\ NodesOK /\ Settle => NodesOK'
<1> SUFFICES ASSUME ShapeOK, NodesOK, Settle
             PROVE  NodesOK'
  OBVIOUS
<1>1. stack' = <<>> /\ raised # None /\ TypesOK /\ trail \in Seq(TrailEvent) /\ raised \in Exception
  BY DEF Settle, ShapeOK, TypesOK, TrailOK
<1>2. PICK type \in Types :
        trail' = IF raised \in Retryable
                   THEN Append(Append(trail, Reason1), Event(type, "run", None, raised))
                   ELSE Append(trail, Event(type, "run", None, raised))
  BY <1>1, SettleTrail
<1> DEFINE e == Event(type, "run", None, raised)
<1>3. e \in TrailEvent /\ e.kind = "run" /\ Reason1 \in TrailEvent /\ Reason1.kind = "run"
  BY <1>1, EventFields DEF Event, Reason1, Types
<1>4. trail' = Append(trail, e) \/ trail' = Append(Append(trail, Reason1), e)
  BY <1>2
<1> HIDE DEF e
<1>5. Append(trail, Reason1) \in Seq(TrailEvent) /\ QuietBefore(Append(trail, Reason1))
  BY <1>1, <1>3, AppendEvent, AppendQuiet DEF NodesOK
<1>6. QuietBefore(Append(trail, e)) /\ QuietBefore(Append(Append(trail, Reason1), e))
  BY <1>1, <1>3, <1>5, AppendQuiet DEF NodesOK
<1> QED BY <1>1, <1>4, <1>6, NodesEmpty

\* Before the first attempt no node is told of.
LEMMA NodesClaim == ShapeOK /\ NodesOK /\ ClaimRun => NodesOK'
<1> SUFFICES ASSUME ShapeOK, NodesOK, ClaimRun
             PROVE  NodesOK'
  OBVIOUS
<1> DEFINE e == [Event("started", "run", None, None) EXCEPT !.attempt = run.attempt + 1]
<1>1. stack' = <<Enter("workflow", None)>> /\ trail' = Append(trail, e) /\ run.attempt < MaxAttempts
  BY DEF ClaimRun
<1>2. /\ run.attempt \in Nat /\ trail \in Seq(TrailEvent)
      /\ \A i \in DOMAIN trail : trail[i].attempt <= run.attempt
  BY DEF ShapeOK, TypesOK, TrailOK, RunState
<1>3. run'.attempt = run.attempt + 1
  BY DEF ClaimRun, ShapeOK, TypesOK, RunState
<1>4. e \in TrailEvent /\ e.kind = "run"
  <2>1. run.attempt + 1 \in 0 .. MaxAttempts
    BY <1>1, <1>2
  <2> QED BY <2>1 DEF Event, TrailEvent, Types
<1> HIDE DEF e
<1>5. QuietBefore(trail')
  BY <1>1, <1>2, <1>4, AppendQuiet DEF NodesOK
<1>6. ~InNode'
  BY <1>1 DEF InNode
<1>7. ASSUME run'.attempt = 1, NEW node
      PROVE  ~Started(trail', node)
  <2>1. run.attempt = 0
    BY <1>2, <1>3, <1>7
  <2>2. \A i \in DOMAIN trail : trail[i].attempt = 0
    <3> SUFFICES ASSUME NEW i \in DOMAIN trail
                 PROVE  trail[i].attempt = 0
      OBVIOUS
    <3>1. trail[i] \in TrailEvent
      BY <1>2
    <3>2. trail[i].attempt \in Nat
      BY <3>1 DEF TrailEvent
    <3> QED BY <1>2, <2>1, <3>2
  <2>3. \A i \in DOMAIN trail : trail[i].kind = "run"
    BY <2>2 DEF NodesOK, QuietBefore
  <2>4. ~Started(trail, node)
    BY <2>3 DEF Started, StartsNode
  <2> QED BY <1>1, <1>2, <1>4, <2>4, AppendNodes DEF StartsNode
<1> QED BY <1>5, <1>6, <1>7 DEF NodesOK

LEMMA NodesStep == ShapeOK /\ NodesOK /\ [ExecNext]_execVars => NodesOK'
<1> SUFFICES ASSUME ShapeOK, NodesOK, [ExecNext]_execVars
             PROVE  NodesOK'
  OBVIOUS
<1>1. CASE RequestCancel
  <2>1. PICK type \in {"cancelled", "cancel_requested"} :
          trail' = Append(trail, Event(type, "run", None, None))
    BY <1>1 DEF RequestCancel, Write
  <2>2. TypesOK
    BY DEF ShapeOK
  <2> DEFINE e == Event(type, "run", None, None)
  <2>3. e \in TrailEvent /\ e.kind = "run"
    BY <2>2, EventFields DEF Types, Event
  <2> HIDE DEF e
  <2>4. run'.attempt = run.attempt /\ stack' = stack
    BY <1>1, <2>2 DEF RequestCancel, Set, TypesOK, RunState
  <2>5. InNode' <=> InNode
    BY <2>4 DEF InNode
  <2>6. trail' = Append(trail, e)
    BY <2>1 DEF e
  <2> QED BY <2>3, <2>4, <2>5, <2>6, NodesOther
<1>2. CASE DeadlinePasses
  BY <1>2, NodesStay DEF DeadlinePasses, InNode
<1>3. CASE Crash
  BY <1>3, NodesEmpty DEF Crash, NodesOK, QuietBefore
<1>4. CASE UNCHANGED execVars
  BY <1>4, NodesStay DEF execVars, InNode
<1>5. CASE Execute
  BY <1>5, ExecuteCases, NodesExecute, NodesUnwind, NodesSettle
<1> QED BY <1>1, <1>2, <1>3, <1>4, <1>5, NodesClaim DEF ExecNext

-----------------------------------------------------------------------------
(* The page explains a failure *)

\* What an event adds to what is told of failures.
LEMMA AppendTells ==
  ASSUME NEW events \in Seq(TrailEvent), NEW e \in TrailEvent
  PROVE  /\ \A a : NoneFailed(Append(events, e), a)
                     <=> NoneFailed(events, a) /\ (e.attempt = a => ~TellsFailure(e))
         /\ \A a, f : FailedFor(Append(events, e), a, f)
                        <=> FailedFor(events, a, f)
                            /\ (e.attempt = a /\ TellsFailure(e) => e.failure = f)
         /\ SawTimeout(Append(events, e)) <=> SawTimeout(events) \/ TellsTimeout(e)
         /\ TimeoutsTell(Append(events, e))
              <=> TimeoutsTell(events) /\ (TellsTimeout(e) => e.failure = "timed_out")
<1> DEFINE next == Append(events, e)
<1>1. /\ Len(events) \in Nat
      /\ DOMAIN events = 1 .. Len(events) /\ DOMAIN next = 1 .. Len(events) + 1
      /\ \A i \in 1 .. Len(events) : next[i] = events[i]
      /\ next[Len(events) + 1] = e
  BY AppendEvent
<1> HIDE DEF next
<1>2. /\ \A i \in 1 .. Len(events) + 1 : i = Len(events) + 1 \/ i \in 1 .. Len(events)
      /\ 1 .. Len(events) \subseteq 1 .. Len(events) + 1
      /\ Len(events) + 1 \in 1 .. Len(events) + 1
  BY <1>1
<1>3. \A a : NoneFailed(next, a) <=> NoneFailed(events, a) /\ (e.attempt = a => ~TellsFailure(e))
  BY <1>1, <1>2 DEF NoneFailed
<1>4. \A a, f : FailedFor(next, a, f)
                  <=> FailedFor(events, a, f)
                      /\ (e.attempt = a /\ TellsFailure(e) => e.failure = f)
  BY <1>1, <1>2 DEF FailedFor
<1>5. SawTimeout(next) <=> SawTimeout(events) \/ TellsTimeout(e)
  BY <1>1, <1>2 DEF SawTimeout
<1>6. TimeoutsTell(next) <=> TimeoutsTell(events) /\ (TellsTimeout(e) => e.failure = "timed_out")
  BY <1>1, <1>2 DEF TimeoutsTell
<1> QED BY <1>3, <1>4, <1>5, <1>6 DEF next

\* What none was told of was not told wrongly.
LEMMA NoneIsRight ==
  ASSUME NEW events, NEW a, NEW f, NoneFailed(events, a)
  PROVE  FailedFor(events, a, f)
BY DEF NoneFailed, FailedFor

\* A step that tells of no failure.
SaysNothing ==
  \/ trail' = trail
  \/ \E e \in TrailEvent : trail' = Append(trail, e) /\ ~TellsFailure(e) /\ ~TellsTimeout(e)

LEMMA NothingTold ==
  ASSUME ShapeOK, SaysNothing
  PROVE  /\ \A a : NoneFailed(trail', a) <=> NoneFailed(trail, a)
         /\ \A a, f : FailedFor(trail', a, f) <=> FailedFor(trail, a, f)
         /\ SawTimeout(trail') <=> SawTimeout(trail)
         /\ TimeoutsTell(trail') <=> TimeoutsTell(trail)
<1>1. CASE trail' = trail
  BY <1>1 DEF NoneFailed, FailedFor, SawTimeout, TimeoutsTell
<1>2. CASE \E e \in TrailEvent : trail' = Append(trail, e) /\ ~TellsFailure(e) /\ ~TellsTimeout(e)
  <2>1. PICK e \in TrailEvent : trail' = Append(trail, e) /\ ~TellsFailure(e) /\ ~TellsTimeout(e)
    BY <1>2
  <2>2. trail \in Seq(TrailEvent)
    BY DEF ShapeOK, TypesOK, TrailOK
  <2> QED BY <2>1, <2>2, AppendTells
<1> QED BY <1>1, <1>2 DEF SaysNothing

\* What the executor tells while nothing is raised: what begins and what ends.
LEMMA ExecuteTells ==
  ASSUME ShapeOK, Execute, raised = None, stack # <<>>
  PROVE  SaysNothing
<1>1. TypesOK /\ Top \in Frame
  BY Running
<1>2. \/ trail' = trail
      \/ trail' = Append(trail, Event("started", Top.kind, Top.node, None))
      \/ trail' = Append(trail, Event("completed", Top.kind, Top.node, None))
      \/ trail' = Append(trail, Event("completed", "workflow", None, None))
      \/ trail' = Append(trail, Event("completed", "run", None, None))
  BY DEF Execute, Check, Start, Descend, BuildFails, Body, BodyFails, Finish, FinishWorkflow,
         Complete, Unwind, Settle, Write
<1>3. ASSUME NEW type \in {"started", "completed"}, NEW kind \in Kinds \union {"run"},
             NEW node \in Nodes \union {None}
      PROVE  /\ Event(type, kind, node, None) \in TrailEvent
             /\ ~TellsFailure(Event(type, kind, node, None))
             /\ ~TellsTimeout(Event(type, kind, node, None))
  BY <1>1, EventFields DEF Event, Types, TellsFailure, TellsTimeout
<1>4. Top.kind \in Kinds /\ Top.node \in Nodes \union {None}
  BY <1>1 DEF Frame
<1> QED BY <1>2, <1>3, <1>4 DEF SaysNothing, Kinds

\* What the executor does while nothing is raised.
LEMMA FailuresExecute ==
  ASSUME ShapeOK, FailuresOK, Execute, raised = None, stack # <<>>
  PROVE  FailuresOK'
<1>1. StackOK /\ TypesOK /\ Top \in Frame /\ run.attempt # 0
  BY Running
<1>2. run.status \in {"running", "cancelling"}
  BY DEF ShapeOK, StatusOK, Busy
<1>3. run'.attempt = run.attempt /\ run'.status # "failed" /\ late' = late
  <2>1. late' = late /\ (run' = run \/ run' = [run EXCEPT !.status = "completed"])
    BY DEF Execute, Check, Start, Descend, BuildFails, Body, BodyFails, Finish, FinishWorkflow,
           Complete, Unwind, Settle, Set
  <2> QED BY <1>1, <1>2, <2>1 DEF TypesOK, RunState
<1>4. SaysNothing
  BY ExecuteTells
<1>5. raised' = "timed_out" => late
  <2>1. BodyFails \/ BuildFails => raised' # "timed_out"
    BY <1>1, BodiesRaise, BuildsRaise DEF BodyFails, BuildFails, TypesOK, RunState
  <2>2. Check => raised' # "timed_out" \/ late
    BY DEF Check, Exception
  <2>3. raised' # "timed_out" \/ BodyFails \/ BuildFails \/ Check
    BY DEF Exception, Execute, Start, Descend, Body, Finish, FinishWorkflow, Complete,
           Unwind, Settle
  <2> QED BY <2>1, <2>2, <2>3
<1>6. NoneFailed(trail', run.attempt) /\ TimeoutsTell(trail')
  BY <1>4, NothingTold DEF FailuresOK
<1>7. CASE ~SawTimeout(trail)
  BY <1>3, <1>4, <1>5, <1>6, <1>7, NothingTold, NoneIsRight DEF FailuresOK
<1>8. CASE SawTimeout(trail)
  <2>1. late /\ Len(stack) = 1 /\ Top.pc = "enter"
    BY <1>8 DEF FailuresOK
  <2>2. Check
    BY <2>1 DEF Execute, Start, Descend, BuildFails, Body, BodyFails, Finish, FinishWorkflow,
                Complete, Unwind, Settle, At
  <2>3. stack' = stack /\ raised' \in {"cancelled", "timed_out"}
    BY <2>1, <2>2 DEF Check
  <2>4. Top' = Top
    BY <2>3 DEF Top
  <2> QED BY <1>3, <1>5, <1>6, <2>1, <2>3, <2>4, NoneIsRight DEF FailuresOK
<1> QED BY <1>7, <1>8

LEMMA FailuresUnwind == ShapeOK /\ FailuresOK /\ Unwind => FailuresOK'
<1> SUFFICES ASSUME ShapeOK, FailuresOK, Unwind
             PROVE  FailuresOK'
  OBVIOUS
<1> DEFINE e == Event("failed", "model", "generate_response", raised)
<1>1. /\ stack # <<>> /\ stack' = <<>> /\ raised # None
      /\ raised' = raised /\ run' = run /\ late' = late
      /\ trail' = trail \/ trail' = Append(trail, e)
  BY DEF Unwind, Write
<1>2. TypesOK /\ raised \in Exception /\ trail \in Seq(TrailEvent)
  BY <1>1 DEF ShapeOK, TypesOK, TrailOK
<1>3. run.status # "failed"
  BY <1>1 DEF ShapeOK, StatusOK, Busy
<1>4. /\ e \in TrailEvent /\ e.attempt = run.attempt /\ e.failure = raised /\ ~TellsTimeout(e)
  BY <1>2, EventFields DEF Types, Kinds, Nodes, Event, TellsTimeout
<1> HIDE DEF e
<1>5. NoneFailed(trail, run.attempt) /\ FailedFor(trail, run.attempt, raised)
  BY <1>1 DEF FailuresOK
<1>6. FailedFor(trail', run.attempt, raised) /\ TimeoutsTell(trail')
      /\ (SawTimeout(trail') <=> SawTimeout(trail))
  <2>1. TimeoutsTell(trail)
    BY DEF FailuresOK
  <2>2. /\ FailedFor(Append(trail, e), run.attempt, raised) /\ TimeoutsTell(Append(trail, e))
        /\ SawTimeout(Append(trail, e)) <=> SawTimeout(trail)
    BY <1>2, <1>4, <1>5, <2>1, AppendTells
  <2>3. CASE trail' = trail
    BY <1>5, <2>1, <2>3
  <2>4. CASE trail' = Append(trail, e)
    BY <2>2, <2>4
  <2> QED BY <1>1, <2>3, <2>4
<1> QED BY <1>1, <1>3, <1>6 DEF FailuresOK

LEMMA FailuresSettle == ShapeOK /\ FailuresOK /\ Settle => FailuresOK'
<1> SUFFICES ASSUME ShapeOK, FailuresOK, Settle
             PROVE  FailuresOK'
  OBVIOUS
<1>1. /\ stack' = <<>> /\ raised # None /\ raised' = None /\ late' = late
      /\ TypesOK /\ trail \in Seq(TrailEvent) /\ raised \in Exception
  BY DEF Settle, ShapeOK, TypesOK, TrailOK
<1>2. PICK status \in {"cancelled", "queued", "failed"}, type \in Types :
        /\ run' = [run EXCEPT !.status = status, !.failure = raised]
        /\ status = "cancelled" <=> raised = "cancelled"
        /\ type # "timeout_exceeded"
        /\ trail' = IF raised \in Retryable
                      THEN Append(Append(trail, Reason1), Event(type, "run", None, raised))
                      ELSE Append(trail, Event(type, "run", None, raised))
  BY <1>1, SettleTrail
<1> DEFINE e == Event(type, "run", None, raised)
<1>3. /\ e \in TrailEvent /\ ~TellsFailure(e) /\ ~TellsTimeout(e) /\ e.failure = raised
      /\ Reason1 \in TrailEvent /\ ~TellsFailure(Reason1) /\ Reason1.failure = raised
      /\ TellsTimeout(Reason1) => raised = "timed_out"
  BY <1>1, <1>2, EventFields DEF Event, Reason1, Types, TellsFailure, TellsTimeout
<1>4. trail' = Append(trail, e) \/ trail' = Append(Append(trail, Reason1), e)
  BY <1>2
<1> HIDE DEF e
<1>5. Append(trail, Reason1) \in Seq(TrailEvent)
  BY <1>1, <1>3, AppendEvent
<1>6. TimeoutsTell(trail) /\ FailedFor(trail, run.attempt, raised)
  BY <1>1 DEF FailuresOK
<1>7. /\ TimeoutsTell(trail') /\ FailedFor(trail', run.attempt, raised)
      /\ SawTimeout(trail') => SawTimeout(trail) \/ raised = "timed_out"
  <2>1. CASE trail' = Append(trail, e)
    <3>1. /\ TimeoutsTell(Append(trail, e)) /\ FailedFor(Append(trail, e), run.attempt, raised)
          /\ SawTimeout(Append(trail, e)) => SawTimeout(trail) \/ raised = "timed_out"
      BY <1>1, <1>3, <1>5, <1>6, AppendTells
    <3> QED BY <2>1, <3>1
  <2>2. CASE trail' = Append(Append(trail, Reason1), e)
    <3> DEFINE first == Append(trail, Reason1)
    <3>1. /\ TimeoutsTell(first) /\ FailedFor(first, run.attempt, raised)
          /\ SawTimeout(first) => SawTimeout(trail) \/ raised = "timed_out"
      BY <1>1, <1>3, <1>6, AppendTells
    <3>2. first \in Seq(TrailEvent) /\ trail' = Append(first, e)
      BY <1>5, <2>2
    <3> HIDE DEF first
    <3>3. /\ TimeoutsTell(Append(first, e)) /\ FailedFor(Append(first, e), run.attempt, raised)
          /\ SawTimeout(Append(first, e)) => SawTimeout(first)
      BY <1>3, <1>5, <3>1, <3>2, AppendTells
    <3> QED BY <3>1, <3>2, <3>3
  <2> QED BY <1>4, <2>1, <2>2
<1>8. /\ run'.attempt = run.attempt /\ run'.failure = raised
      /\ run'.status = "failed" => raised # "cancelled"
  BY <1>1, <1>2 DEF TypesOK, RunState
<1>9. SawTimeout(trail') => late /\ raised \in {"timed_out", "cancelled"}
  BY <1>1, <1>7 DEF FailuresOK
<1>10. /\ (raised = "timed_out" => late)' /\ raised' \in {None, "timed_out", "cancelled"}
       /\ (run.status = "failed" => FailedFor(trail, run.attempt, run.failure))'
       /\ (SawTimeout(trail) /\ run.status = "failed" => run.failure = "timed_out")'
  BY <1>1, <1>7, <1>8, <1>9 DEF Exception
<1> QED BY <1>1, <1>7, <1>9, <1>10 DEF FailuresOK

LEMMA FailuresClaim == ShapeOK /\ FailuresOK /\ ClaimRun => FailuresOK'
<1> SUFFICES ASSUME ShapeOK, FailuresOK, ClaimRun
             PROVE  FailuresOK'
  OBVIOUS
<1> DEFINE e == [Event("started", "run", None, None) EXCEPT !.attempt = run.attempt + 1]
<1>1. /\ stack' = <<Enter("workflow", None)>> /\ trail' = Append(trail, e)
      /\ run.attempt < MaxAttempts /\ raised = None /\ raised' = None /\ late' = late
  BY DEF ClaimRun, Busy
<1>2. /\ run.attempt \in Nat /\ trail \in Seq(TrailEvent)
      /\ \A i \in DOMAIN trail : trail[i].attempt <= run.attempt
  BY DEF ShapeOK, TypesOK, TrailOK, RunState
<1>3. run'.attempt = run.attempt + 1 /\ run'.status # "failed"
  BY DEF ClaimRun, ShapeOK, TypesOK, RunState
<1>4. e \in TrailEvent /\ ~TellsFailure(e) /\ ~TellsTimeout(e)
  <2>1. run.attempt + 1 \in 0 .. MaxAttempts
    BY <1>1, <1>2
  <2> QED BY <2>1 DEF Event, TrailEvent, Types, TellsFailure, TellsTimeout
<1> HIDE DEF e
<1>5. SaysNothing
  BY <1>1, <1>4 DEF SaysNothing
<1>6. NoneFailed(trail, run.attempt + 1)
  BY <1>2 DEF NoneFailed
<1>7. Len(stack') = 1 /\ Top'.pc = "enter"
  BY <1>1 DEF Top, Last, Enter
<1> QED BY <1>1, <1>3, <1>5, <1>6, <1>7, NothingTold DEF FailuresOK

LEMMA FailuresStep == ShapeOK /\ FailuresOK /\ [ExecNext]_execVars => FailuresOK'
<1> SUFFICES ASSUME ShapeOK, FailuresOK, [ExecNext]_execVars
             PROVE  FailuresOK'
  OBVIOUS
<1>1. CASE RequestCancel
  <2>1. PICK type \in {"cancelled", "cancel_requested"} :
          trail' = Append(trail, Event(type, "run", None, None))
    BY <1>1 DEF RequestCancel, Write
  <2>2. TypesOK
    BY DEF ShapeOK
  <2>3. SaysNothing
    <3> DEFINE e == Event(type, "run", None, None)
    <3>1. e \in TrailEvent /\ ~TellsFailure(e) /\ ~TellsTimeout(e)
      BY <2>2, EventFields DEF Types, Event, TellsFailure, TellsTimeout
    <3> QED BY <2>1, <3>1 DEF SaysNothing
  <2>4. /\ run'.attempt = run.attempt /\ run'.status # "failed" /\ stack' = stack
        /\ Top' = Top /\ raised' = raised /\ late' = late
    BY <1>1, <2>2 DEF RequestCancel, Set, TypesOK, RunState, Top
  <2> QED BY <2>3, <2>4, NothingTold DEF FailuresOK
<1>2. CASE DeadlinePasses
  <2>1. UNCHANGED <<run, trail, stack, raised>> /\ Top' = Top /\ late' = TRUE
    BY <1>2 DEF DeadlinePasses, Top
  <2> QED BY <2>1, NothingTold DEF FailuresOK, SaysNothing
<1>3. CASE Crash
  <2>1. /\ UNCHANGED <<run, trail, late>> /\ stack' = <<>> /\ raised' = None
        /\ raised' # "timed_out"
    BY <1>3 DEF Crash, Exception
  <2> QED BY <2>1, NothingTold DEF FailuresOK, SaysNothing
<1>4. CASE UNCHANGED execVars
  <2>1. UNCHANGED <<run, trail, stack, raised, late>> /\ Top' = Top
    BY <1>4 DEF execVars, Top
  <2> QED BY <2>1, NothingTold DEF FailuresOK, SaysNothing
<1>5. CASE Execute
  BY <1>5, ExecuteCases, FailuresExecute, FailuresUnwind, FailuresSettle
<1> QED BY <1>1, <1>2, <1>3, <1>4, <1>5, FailuresClaim DEF ExecNext

\* Of finitely many events one is the last.
LEMMA LatestIs ==
  ASSUME NEW n \in Nat, NEW S, S \subseteq 1 .. n, S # {}
  PROVE  Latest(S) \in S /\ \A j \in S : j <= Latest(S)
<1> DEFINE R == {ss \in Nat \X Nat : ss[1] < ss[2]}
           T == {n - i : i \in S}
<1>1. IsWellFoundedOn(R, Nat)
  BY NatLessThanWellFounded DEF OpToRel
<1>2. T \subseteq Nat /\ T # {}
  <2>1. ASSUME NEW i \in S
        PROVE  n - i \in Nat
    <3>1. i \in 1 .. n
      OBVIOUS
    <3> QED BY <3>1
  <2>2. T \subseteq Nat
    BY <2>1
  <2>3. PICK i \in S : TRUE
    OBVIOUS
  <2>4. n - i \in T
    BY <2>3
  <2> QED BY <2>2, <2>4
<1> HIDE DEF T
<1>3. PICK x \in T : \A y \in T : ~ <<y, x>> \in R
  BY <1>1, <1>2, WFMin
<1>4. \A y \in T : x <= y
  <2> SUFFICES ASSUME NEW y \in T
               PROVE  x <= y
    OBVIOUS
  <2>1. x \in Nat /\ y \in Nat
    BY <1>2
  <2>2. ~ (y < x)
    BY <1>3, <2>1
  <2> QED BY <2>1, <2>2
<1>5. PICK i \in S : x = n - i
  BY DEF T
<1>6. \A j \in S : j <= i
  <2> SUFFICES ASSUME NEW j \in S
               PROVE  j <= i
    OBVIOUS
  <2>1. n - j \in T
    BY DEF T
  <2>2. n - i <= n - j
    BY <1>4, <1>5, <2>1
  <2>3. i \in 1 .. n /\ j \in 1 .. n
    OBVIOUS
  <2> QED BY <2>2, <2>3
<1> QED BY <1>6 DEF Latest

LEMMA TheActiveNode == ShapeOK /\ NodesOK => ActiveNodeIsOpen
<1> SUFFICES ASSUME ShapeOK, NodesOK, run.attempt = 1, stack # <<>>
             PROVE  \/ /\ FindActiveNode(trail) = None
                       /\ \A n \in OpenNodes :
                            \E i \in DOMAIN trail : EndsNode(trail[i]) /\ trail[i].node = n
                    \/ FindActiveNode(trail) \in OpenNodes
  BY DEF ActiveNodeIsOpen
<1> DEFINE completed == {trail[i].node : i \in {j \in DOMAIN trail : EndsNode(trail[j])}}
           starts == {i \in DOMAIN trail : StartsNode(trail[i]) /\ trail[i].node \notin completed}
<1>1. /\ \A node : Started(trail, node) =>
           (InNode /\ node = stack[2].node) \/ Ended(trail, node)
      /\ InNode => Started(trail, stack[2].node)
  BY DEF NodesOK
<1>2. \A n : n \in completed <=> Ended(trail, n)
  BY DEF Ended
<1>3. \A n : n \in OpenNodes <=> InNode /\ n = stack[2].node
  <2>1. /\ Len(stack) \in 1 .. 3 /\ DOMAIN stack = 1 .. Len(stack)
        /\ \A j \in 1 .. Len(stack) : stack[j].kind \in KindsAt(j)
    BY StackFacts DEF ShapeOK, StackOK
  <2>2. \A j \in 1 .. Len(stack) : stack[j].kind = "node" <=> j = 2
    BY <2>1 DEF KindsAt
  <2>3. {j \in DOMAIN stack : stack[j].kind = "node" /\ stack[j].pc \notin {"enter", "start"}}
          = IF InNode THEN {2} ELSE {}
    BY <2>1, <2>2 DEF InNode
  <2> QED BY <2>3 DEF OpenNodes
<1>4. /\ starts \subseteq 1 .. Len(trail) /\ Len(trail) \in Nat
      /\ FindActiveNode(trail) = IF starts = {} THEN None ELSE trail[Latest(starts)].node
  <2>1. Len(trail) \in Nat /\ DOMAIN trail = 1 .. Len(trail)
    BY LenProperties DEF ShapeOK, TypesOK, TrailOK
  <2> QED BY <2>1 DEF FindActiveNode
<1>5. CASE starts = {}
  <2>1. \A n \in OpenNodes : Ended(trail, n)
    BY <1>1, <1>2, <1>3, <1>5 DEF Started
  <2> QED BY <1>4, <1>5, <2>1 DEF Ended
<1>6. CASE starts # {}
  <2>1. Latest(starts) \in starts
    BY <1>4, <1>6, LatestIs
  <2>2. Started(trail, trail[Latest(starts)].node) /\ ~Ended(trail, trail[Latest(starts)].node)
    BY <1>2, <2>1 DEF Started
  <2> QED BY <1>1, <1>3, <1>4, <1>6, <2>2
<1> QED BY <1>5, <1>6

LEMMA TheFailureShown == ShapeOK /\ NodesOK /\ FailuresOK => FailureShownIsTheLast
<1> SUFFICES ASSUME ShapeOK, NodesOK, FailuresOK, run.status = "failed",
                    \A a \in 1 .. run.attempt - 1 : Has(a, "model", "failed") = {}
             PROVE  FailureSummary(trail) = run.failure
  BY DEF FailureShownIsTheLast
<1> DEFINE told == {i \in DOMAIN trail : trail[i].kind = "model" /\ trail[i].type = "failed"}
           timeouts == {i \in DOMAIN trail :
                          trail[i].kind = "run" /\ trail[i].type = "timeout_exceeded"}
<1>1. FailureSummary(trail) = IF told # {} THEN trail[Latest(told)].failure
                              ELSE IF timeouts # {} THEN trail[Latest(timeouts)].failure
                              ELSE run.failure
  BY DEF FailureSummary
<1>2. /\ trail \in Seq(TrailEvent) /\ Len(trail) \in Nat /\ DOMAIN trail = 1 .. Len(trail)
      /\ run.attempt \in Nat /\ \A i \in DOMAIN trail : trail[i].attempt <= run.attempt
  BY LenProperties DEF ShapeOK, TypesOK, TrailOK, RunState
<1>3. told \subseteq 1 .. Len(trail) /\ timeouts \subseteq 1 .. Len(trail)
  BY <1>2
<1>4. CASE told # {}
  <2>1. Latest(told) \in told
    BY <1>2, <1>3, <1>4, LatestIs
  <2> DEFINE i == Latest(told)
  <2>2. i \in DOMAIN trail /\ trail[i].kind = "model" /\ trail[i].type = "failed"
    BY <2>1
  <2> HIDE DEF i
  <2>3. trail[i].attempt \in Nat /\ trail[i].attempt <= run.attempt /\ trail[i].attempt # 0
    <3>1. trail[i] \in TrailEvent
      BY <1>2, <2>2
    <3> QED BY <1>2, <2>2, <3>1 DEF TrailEvent, NodesOK, QuietBefore
  <2>4. trail[i].attempt \notin 1 .. run.attempt - 1
    BY <2>2 DEF Has
  <2>5. trail[i].attempt = run.attempt
    BY <1>2, <2>3, <2>4
  <2>6. trail[i].failure = run.failure
    BY <2>2, <2>5 DEF FailuresOK, FailedFor, TellsFailure
  <2> QED BY <1>1, <1>4, <2>6 DEF i
<1>5. CASE told = {} /\ timeouts # {}
  <2>1. Latest(timeouts) \in timeouts
    BY <1>2, <1>3, <1>5, LatestIs
  <2>2. TellsTimeout(trail[Latest(timeouts)]) /\ Latest(timeouts) \in DOMAIN trail
    BY <2>1 DEF TellsTimeout
  <2>3. SawTimeout(trail) /\ trail[Latest(timeouts)].failure = "timed_out"
    BY <2>2 DEF SawTimeout, FailuresOK, TimeoutsTell
  <2>4. run.failure = "timed_out"
    BY <2>3 DEF FailuresOK
  <2> QED BY <1>1, <1>5, <2>3, <2>4
<1> QED BY <1>1, <1>4, <1>5

\* The page, which reads the trail as if there was one attempt and one visit per node,
\* shows the node that the executor is in, and the failure of the last attempt unless an
\* earlier one told of a model that failed.
THEOREM PagesReadTheTrail == ExecSpec => []PageReadsTheTrail
<1>1. ExecInit => NodesOK
  BY DEF ExecInit, NodesOK, QuietBefore
<1>2. ExecInit => FailuresOK
  <2> SUFFICES ASSUME ExecInit
               PROVE  FailuresOK
    OBVIOUS
  <2>1. trail = <<>> /\ stack = <<>> /\ raised = None /\ run.status = "queued"
    BY DEF ExecInit
  <2>2. raised # "timed_out"
    BY <2>1 DEF Exception
  <2>3. ~SawTimeout(trail) /\ TimeoutsTell(trail)
    BY <2>1 DEF SawTimeout, TimeoutsTell
  <2> QED BY <2>1, <2>2, <2>3 DEF FailuresOK
<1>3. ShapeOK /\ NodesOK /\ FailuresOK => PageReadsTheTrail
  BY TheActiveNode, TheFailureShown DEF PageReadsTheTrail
<1> QED BY <1>1, <1>2, <1>3, InitShape, ShapeStep, NodesStep, FailuresStep, PTL DEF ExecSpec

-----------------------------------------------------------------------------
(* Refusals, and every failure of the model *)

LEMMA AppendRefused ==
  ASSUME NEW events \in Seq(TrailEvent), NEW e \in TrailEvent, NEW a
  PROVE  Refused(Append(events, e), a)
           = IF e.attempt = a /\ TellsFailure(e) /\ e.failure = "misconfigured"
               THEN Refused(events, a) \union {Len(events) + 1}
               ELSE Refused(events, a)
<1> DEFINE next == Append(events, e)
<1>1. /\ Len(events) \in Nat
      /\ DOMAIN events = 1 .. Len(events) /\ DOMAIN next = 1 .. Len(events) + 1
      /\ \A i \in 1 .. Len(events) : next[i] = events[i]
      /\ next[Len(events) + 1] = e
  BY AppendEvent
<1> HIDE DEF next
<1>2. ASSUME NEW i
      PROVE  i \in Refused(next, a)
               <=> i \in (IF e.attempt = a /\ TellsFailure(e) /\ e.failure = "misconfigured"
                            THEN Refused(events, a) \union {Len(events) + 1}
                            ELSE Refused(events, a))
  <2>1. CASE i = Len(events) + 1
    BY <1>1, <2>1 DEF Refused
  <2>2. CASE i \in 1 .. Len(events)
    BY <1>1, <2>2 DEF Refused
  <2>3. CASE i \notin 1 .. Len(events) + 1
    BY <1>1, <2>3 DEF Refused
  <2> QED BY <1>1, <2>1, <2>2, <2>3
<1> QED BY <1>2 DEF next

\* A step that tells of no failure leaves what is told of refusals.
LEMMA RefusalsStay ==
  ASSUME ShapeOK, RefusalsOK, run'.attempt = run.attempt, crashes' = crashes,
         \A a : Refused(trail', a) = Refused(trail, a),
         Refusing' <=> Refusing,
         run'.failure = "misconfigured" => run'.status = "failed"
  PROVE  RefusalsOK'
  BY DEF RefusalsOK

LEMMA SilentRefusals ==
  ASSUME ShapeOK, SaysNothing
  PROVE  \A a : Refused(trail', a) = Refused(trail, a)
<1>1. trail \in Seq(TrailEvent)
  BY DEF ShapeOK, TypesOK, TrailOK
<1>2. CASE trail' = trail
  BY <1>2
<1>3. ASSUME NEW e \in TrailEvent, trail' = Append(trail, e), ~TellsFailure(e), NEW a
      PROVE  Refused(trail', a) = Refused(trail, a)
  <2>1. Refused(Append(trail, e), a) = Refused(trail, a)
    BY <1>1, <1>3, AppendRefused
  <2> QED BY <1>3, <2>1
<1> QED BY <1>2, <1>3 DEF SaysNothing

\* While the executor is in a call, the run was not refused.
LEMMA NotRefused ==
  ASSUME ShapeOK, RefusalsOK, stack # <<>>
  PROVE  ~Refusing
  BY DEF ShapeOK, StatusOK, Busy, RefusalsOK, Refusing

LEMMA RefusalsExecute ==
  ASSUME ShapeOK, RefusalsOK, Execute, raised = None, stack # <<>>
  PROVE  RefusalsOK'
<1>1. StackOK /\ TypesOK /\ Top \in Frame
  BY Running
<1>2. /\ run'.attempt = run.attempt /\ run'.failure = run.failure /\ crashes' = crashes
      /\ stack' = <<>> => raised' = None
      /\ run'.failure # "misconfigured"
  <2>1. crashes' = crashes /\ (run' = run \/ run' = [run EXCEPT !.status = "completed"])
    BY DEF Execute, Check, Start, Descend, BuildFails, Body, BodyFails, Finish, FinishWorkflow,
           Complete, Unwind, Settle, Set
  <2>2. stack' = <<>> => raised' = None
    BY DEF Execute, Check, Start, Descend, BuildFails, Body, BodyFails, Finish, FinishWorkflow,
           Complete, Unwind, Settle
  <2>3. run.failure # "misconfigured"
    BY NotRefused DEF Refusing
  <2> QED BY <1>1, <2>1, <2>2, <2>3 DEF TypesOK, RunState
<1>3. SaysNothing
  BY ExecuteTells
<1>4. ~Refusing /\ ~Refusing'
  BY <1>2, NotRefused DEF Refusing, Exception
<1> QED BY <1>2, <1>3, <1>4, SilentRefusals, RefusalsStay

\* The exception leaves the executor: a refusal is told, for the first time in the attempt.
LEMMA RefusalsUnwind == ShapeOK /\ FailuresOK /\ RefusalsOK /\ Unwind => RefusalsOK'
<1> SUFFICES ASSUME ShapeOK, FailuresOK, RefusalsOK, Unwind
             PROVE  RefusalsOK'
  OBVIOUS
<1> DEFINE e == Event("failed", "model", "generate_response", raised)
<1>1. /\ raised # None /\ raised' = raised /\ stack # <<>> /\ stack' = <<>>
      /\ IF TellsModelFailed THEN trail' = Append(trail, e) ELSE trail' = trail
      /\ UNCHANGED <<run, crashes>>
  BY DEF Unwind, Write
<1>2. /\ TypesOK /\ RaisedOK /\ raised \in Exception /\ trail \in Seq(TrailEvent)
      /\ Len(trail) \in Nat /\ run.attempt \in Nat
  BY <1>1, LenProperties DEF ShapeOK, TypesOK, TrailOK, RunState
<1>3. e \in TrailEvent /\ e.attempt = run.attempt /\ e.failure = raised /\ TellsFailure(e)
  BY <1>2, EventFields DEF Types, Event, Kinds, Nodes, TellsFailure
<1> HIDE DEF e
<1>4. ~Refusing /\ (Refusing' <=> raised = "misconfigured") /\ run.failure # "misconfigured"
  BY <1>1, NotRefused DEF Refusing
<1>5. CASE raised # "misconfigured"
  <2>1. ASSUME NEW a
        PROVE  Refused(trail', a) = Refused(trail, a)
    <3>1. Refused(Append(trail, e), a) = Refused(trail, a)
      BY <1>2, <1>3, <1>5, AppendRefused
    <3> QED BY <1>1, <3>1
  <2> QED BY <1>1, <1>4, <1>5, <2>1, RefusalsStay
<1>6. CASE raised = "misconfigured"
  <2>1. trail' = Append(trail, e)
    BY <1>1, <1>2, <1>6 DEF RaisedOK, TellsModelFailed
  <2>2. Refused(trail, run.attempt) = {}
    BY <1>1 DEF FailuresOK, NoneFailed, Refused
  <2>3. Refused(trail', run.attempt) = {Len(trail) + 1}
    BY <1>2, <1>3, <1>6, <2>1, <2>2, AppendRefused
  <2>4. Cardinality(Refused(trail', run.attempt)) = 1
    BY <2>3, FS_Singleton
  <2>5. ASSUME crashes = 0, NEW a \in 1 .. run.attempt, a # run.attempt
        PROVE  Cardinality(Refused(trail', a)) = 0
    <3>1. Refused(trail', a) = Refused(trail, a)
      BY <1>2, <1>3, <2>1, <2>5, AppendRefused
    <3> QED BY <2>5, <3>1 DEF RefusalsOK
  <2> QED BY <1>1, <1>4, <1>6, <2>4, <2>5 DEF RefusalsOK
<1> QED BY <1>5, <1>6

\* What is refused is not tried again: the run fails for it.
LEMMA RefusalsSettle == ShapeOK /\ RefusalsOK /\ Settle => RefusalsOK'
<1> SUFFICES ASSUME ShapeOK, RefusalsOK, Settle
             PROVE  RefusalsOK'
  OBVIOUS
<1>1. /\ stack = <<>> /\ stack' = <<>> /\ raised # None /\ raised' = None /\ crashes' = crashes
      /\ TypesOK /\ trail \in Seq(TrailEvent) /\ raised \in Exception
  BY DEF Settle, ShapeOK, TypesOK, TrailOK
<1>2. PICK status \in {"cancelled", "queued", "failed"}, type \in Types :
        /\ run' = [run EXCEPT !.status = status, !.failure = raised]
        /\ trail' = IF raised \in Retryable
                      THEN Append(Append(trail, Reason1), Event(type, "run", None, raised))
                      ELSE Append(trail, Event(type, "run", None, raised))
  BY <1>1, SettleTrail
<1> DEFINE e == Event(type, "run", None, raised)
<1>3. /\ e \in TrailEvent /\ ~TellsFailure(e)
      /\ Reason1 \in TrailEvent /\ ~TellsFailure(Reason1)
  BY <1>1, EventFields DEF Event, Reason1, Types, TellsFailure
<1>4. trail' = Append(trail, e) \/ trail' = Append(Append(trail, Reason1), e)
  BY <1>2
<1> HIDE DEF e
<1>5. \A a : Refused(trail', a) = Refused(trail, a)
  <2>1. Append(trail, Reason1) \in Seq(TrailEvent)
    BY <1>1, <1>3, AppendEvent
  <2>2. \A a : Refused(Append(trail, Reason1), a) = Refused(trail, a)
    BY <1>1, <1>3, AppendRefused
  <2>3. \A a : Refused(Append(Append(trail, Reason1), e), a) = Refused(Append(trail, Reason1), a)
    BY <1>3, <2>1, AppendRefused
  <2>4. \A a : Refused(Append(trail, e), a) = Refused(trail, a)
    BY <1>1, <1>3, AppendRefused
  <2> QED BY <1>4, <2>2, <2>3, <2>4
<1>6. run'.attempt = run.attempt /\ run'.failure = raised /\ run'.status = status
  BY <1>1, <1>2 DEF TypesOK, RunState
<1>7. run.status \notin {"failed"}
  BY <1>1 DEF ShapeOK, StatusOK, Busy
<1>8. Refusing' <=> Refusing
  BY <1>1, <1>6, <1>7, WorkflowsAssumption DEF Refusing, RefusalsOK, Exception
<1>9. raised = "misconfigured" => run'.status = "failed"
  <2> SUFFICES ASSUME raised = "misconfigured" PROVE run'.status = "failed"
    OBVIOUS
  <2>1. Explained("failed", "failed")
    BY DEF Settle, Retryable
  <2> QED BY <1>1, <2>1 DEF Explained, TypesOK, RunState
<1> QED BY <1>1, <1>5, <1>6, <1>8, <1>9, RefusalsStay

LEMMA RefusalsClaim == ShapeOK /\ RefusalsOK /\ ClaimRun => RefusalsOK'
<1> SUFFICES ASSUME ShapeOK, RefusalsOK, ClaimRun
             PROVE  RefusalsOK'
  OBVIOUS
<1> DEFINE e == [Event("started", "run", None, None) EXCEPT !.attempt = run.attempt + 1]
<1>1. /\ stack' # <<>> /\ trail' = Append(trail, e) /\ crashes' = crashes
      /\ run.attempt < MaxAttempts /\ raised = None /\ run.status # "failed"
  BY DEF ClaimRun, Busy, Terminal
<1>2. /\ run.attempt \in Nat /\ trail \in Seq(TrailEvent)
      /\ \A i \in DOMAIN trail : trail[i].attempt <= run.attempt
  BY DEF ShapeOK, TypesOK, TrailOK, RunState
<1>3. run'.attempt = run.attempt + 1 /\ run'.failure = run.failure
  BY DEF ClaimRun, ShapeOK, TypesOK, RunState
<1>4. e \in TrailEvent /\ ~TellsFailure(e)
  <2>1. run.attempt + 1 \in 0 .. MaxAttempts
    BY <1>1, <1>2
  <2> QED BY <2>1 DEF Event, TrailEvent, Types, TellsFailure
<1> HIDE DEF e
<1>5. \A a : Refused(trail', a) = Refused(trail, a)
  BY <1>1, <1>2, <1>4, AppendRefused
<1>6. Refused(trail, run.attempt + 1) = {}
  BY <1>2 DEF Refused
<1>7. ~Refusing /\ ~Refusing'
  BY <1>1, <1>3 DEF Refusing, RefusalsOK, Exception
<1>8. ASSUME crashes = 0, NEW a \in 1 .. run.attempt + 1
      PROVE  Cardinality(Refused(trail', a)) = 0
  <2>1. CASE a \in 1 .. run.attempt
    BY <1>5, <1>7, <1>8, <2>1 DEF RefusalsOK
  <2>2. CASE a = run.attempt + 1
    BY <1>5, <1>6, <2>2, FS_EmptySet
  <2> QED BY <1>2, <2>1, <2>2
<1> QED BY <1>1, <1>3, <1>7, <1>8 DEF RefusalsOK, Refusing

LEMMA RefusalsStep == ShapeOK /\ FailuresOK /\ RefusalsOK /\ [ExecNext]_execVars => RefusalsOK'
<1> SUFFICES ASSUME ShapeOK, FailuresOK, RefusalsOK, [ExecNext]_execVars
             PROVE  RefusalsOK'
  OBVIOUS
<1>1. CASE RequestCancel
  <2>1. PICK type \in {"cancelled", "cancel_requested"} :
          trail' = Append(trail, Event(type, "run", None, None))
    BY <1>1 DEF RequestCancel, Write
  <2>2. TypesOK
    BY DEF ShapeOK
  <2>3. SaysNothing
    <3> DEFINE e == Event(type, "run", None, None)
    <3>1. e \in TrailEvent /\ ~TellsFailure(e) /\ ~TellsTimeout(e)
      BY <2>2, EventFields DEF Types, Event, TellsFailure, TellsTimeout
    <3> QED BY <2>1, <3>1 DEF SaysNothing
  <2>4. /\ run'.attempt = run.attempt /\ run'.failure = run.failure /\ run.status # "failed"
        /\ stack' = stack /\ raised' = raised /\ crashes' = crashes
    BY <1>1, <2>2 DEF RequestCancel, Set, TypesOK, RunState
  <2>5. run.failure # "misconfigured" /\ (Refusing' <=> Refusing)
    BY <2>4 DEF RefusalsOK, Refusing
  <2> QED BY <2>3, <2>4, <2>5, SilentRefusals, RefusalsStay
<1>2. CASE DeadlinePasses \/ UNCHANGED execVars
  <2>1. UNCHANGED <<run, trail, stack, raised, crashes>>
    BY <1>2 DEF DeadlinePasses, execVars
  <2>2. Refusing' <=> Refusing
    BY <2>1 DEF Refusing
  <2> QED BY <2>1, <2>2, RefusalsStay DEF RefusalsOK
<1>3. CASE Crash
  <2>1. run' = run /\ crashes' = crashes + 1 /\ crashes \in Nat
    BY <1>3 DEF Crash, ShapeOK, TypesOK
  <2> QED BY <2>1 DEF RefusalsOK
<1>4. CASE Execute
  BY <1>4, ExecuteCases, RefusalsExecute, RefusalsUnwind, RefusalsSettle
<1> QED BY <1>1, <1>2, <1>3, <1>4, RefusalsClaim DEF ExecNext

\* Unless a worker died, every call of the model that the executor began was answered or
\* is told as model.failed, whatever ended it; a configuration error is told as well,
\* once, by the attempt that it ends; and nothing else is.
THEOREM FailuresOfTheModelAreTold == ExecSpec => []ModelFailuresAreTold
<1>1. ExecInit => CallsOK /\ FailuresOK /\ RefusalsOK
  <2> SUFFICES ASSUME ExecInit PROVE CallsOK /\ FailuresOK /\ RefusalsOK
    OBVIOUS
  <2>1. /\ run.status = "queued" /\ run.attempt = 0 /\ run.failure = None
        /\ trail = <<>> /\ stack = <<>> /\ raised = None
    BY DEF ExecInit
  <2> QED BY <2>1 DEF CallsOK, FailuresOK, RefusalsOK, TimeoutsTell, SawTimeout, Exception
<1>2. ShapeOK /\ CallsOK /\ RefusalsOK => ModelFailuresAreTold
  <2> SUFFICES ASSUME ShapeOK, CallsOK, RefusalsOK, stack = <<>>, crashes = 0,
                      NEW a \in 1 .. run.attempt
               PROVE  LET failures == Has(a, "model", "failed")
                          refused  == {i \in failures : trail[i].failure = "misconfigured"}
                          refusal  == a = run.attempt /\ "misconfigured" \in {raised, run.failure}
                      IN /\ Cardinality(Has(a, "model", "started"))
                              = Cardinality(Has(a, "model", "completed"))
                                + Cardinality(failures \ refused)
                         /\ Cardinality(refused) = IF refusal THEN 1 ELSE 0
    BY DEF ModelFailuresAreTold
  <2>1. Unanswered(trail, a, 0)
    BY DEF CallsOK, Waiting, InModel
  <2>2. /\ Has(a, "model", "started") = In(trail, a, "model", "started")
        /\ Has(a, "model", "completed") = In(trail, a, "model", "completed")
        /\ Has(a, "model", "failed") = In(trail, a, "model", "failed")
    BY DEF Has, In
  <2>3. Has(a, "model", "failed") \ {i \in Has(a, "model", "failed") : trail[i].failure = "misconfigured"}
          = Failed(trail, a)
    BY <2>2 DEF Failed
  <2>4. Cardinality(In(trail, a, "model", "completed")) + Cardinality(Failed(trail, a)) \in Nat
    <3>1. trail \in Seq(TrailEvent)
      BY DEF ShapeOK, TypesOK, TrailOK
    <3>2. /\ Len(trail) \in Nat
          /\ In(trail, a, "model", "completed") \subseteq 1 .. Len(trail)
          /\ Failed(trail, a) \subseteq 1 .. Len(trail)
      BY <3>1, Counts
    <3>3. /\ Cardinality(In(trail, a, "model", "completed")) \in Nat
          /\ Cardinality(Failed(trail, a)) \in Nat
      BY <3>2, OneMore
    <3> QED BY <3>3
  <2>5. Cardinality(In(trail, a, "model", "started"))
          = Cardinality(In(trail, a, "model", "completed")) + Cardinality(Failed(trail, a))
    BY <2>1, <2>4 DEF Unanswered
  <2>6. {i \in Has(a, "model", "failed") : trail[i].failure = "misconfigured"} = Refused(trail, a)
    BY DEF Has, Refused, TellsFailure
  <2>7. Refusing <=> "misconfigured" \in {raised, run.failure}
    BY DEF Refusing
  <2>8. Cardinality(Refused(trail, a)) = IF a = run.attempt /\ Refusing THEN 1 ELSE 0
    BY DEF RefusalsOK
  <2> QED BY <2>2, <2>3, <2>5, <2>6, <2>7, <2>8
<1> QED BY <1>1, <1>2, InitShape, ShapeStep, CallsStep, FailuresStep, RefusalsStep, PTL DEF ExecSpec

-----------------------------------------------------------------------------
(* Brackets *)

\* Induction, over the set of the numbers that have the property.
LEMMA NatSets ==
  ASSUME NEW T, 0 \in T, \A n \in T \cap Nat : n + 1 \in T
  PROVE  Nat \subseteq T
<1> DEFINE R == {ss \in Nat \X Nat : ss[1] < ss[2]}
<1>1. IsWellFoundedOn(R, Nat)
  BY NatLessThanWellFounded DEF OpToRel
<1> SUFFICES ASSUME Nat \ T # {}
             PROVE  FALSE
  OBVIOUS
<1>2. PICK x \in Nat \ T : \A y \in Nat \ T : ~ <<y, x>> \in R
  <2>1. Nat \ T \subseteq Nat
    OBVIOUS
  <2> QED BY <1>1, <2>1, WFMin
<1>3. x # 0 /\ x - 1 \in Nat /\ x - 1 < x
  BY <1>2
<1>4. x - 1 \in T \cap Nat
  BY <1>2, <1>3
<1>5. (x - 1) + 1 \in T
  BY <1>4
<1>6. (x - 1) + 1 = x
  BY <1>2
<1> QED BY <1>2, <1>5, <1>6

\* What an event does to the open brackets of an attempt.
Told(open, e, attempt) ==
  IF e.attempt = attempt /\ e.kind # "run" THEN Bracket(open, e) ELSE open

\* What the fold asks of a table of the brackets that some of the events leave open.
Tells(events, attempt, S, g) ==
  g = [s \in SUBSET S |->
         IF s = {} THEN <<>> ELSE Told(g[s \ {Max(s)}], events[Max(s)], attempt)]

\* What the fold of the library comes to.
LEMMA OpenIs ==
  ASSUME NEW events, NEW attempt
  PROVE  Open(events, attempt) = (CHOOSE g : Tells(events, attempt, DOMAIN events, g))[DOMAIN events]
BY DEF Open, FoldLeft, MapThenFoldSet, Tells, Told

LEMMA MaxIs ==
  ASSUME NEW n \in Nat, NEW s \in SUBSET (1 .. n + 1), n + 1 \in s
  PROVE  Max(s) = n + 1
<1>1. \A y \in s : n + 1 >= y
  OBVIOUS
<1>2. PICK x \in s : x = Max(s) /\ \A y \in s : x >= y
  BY <1>1 DEF Max
<1>3. x \in 1 .. n + 1 /\ x >= n + 1
  BY <1>2
<1> QED BY <1>2, <1>3

\* The last of the first numbers, and the others.
LEMMA FirstNumbers ==
  ASSUME NEW n \in Nat
  PROVE  1 .. n + 1 # {} /\ Max(1 .. n + 1) = n + 1 /\ (1 .. n + 1) \ {n + 1} = 1 .. n
<1>1. n + 1 \in 1 .. n + 1 /\ (1 .. n + 1) \ {n + 1} = 1 .. n
  OBVIOUS
<1> QED BY <1>1, MaxIs

LEMMA TellsExist ==
  ASSUME NEW events, NEW attempt, NEW n \in Nat
  PROVE  \E g : Tells(events, attempt, 1 .. n, g)
<1> DEFINE T == {k \in Nat : \E g : Tells(events, attempt, 1 .. k, g)}
<1>1. 0 \in T
  <2> DEFINE g == [s \in SUBSET (1 .. 0) |-> <<>>]
  <2>1. \A s \in SUBSET (1 .. 0) : s = {}
    OBVIOUS
  <2>2. Tells(events, attempt, 1 .. 0, g)
    BY <2>1 DEF Tells
  <2> QED BY <2>2
<1>2. ASSUME NEW k \in T \cap Nat
      PROVE  k + 1 \in T
  <2>1. PICK g : Tells(events, attempt, 1 .. k, g)
    OBVIOUS
  <2> DEFINE h == [s \in SUBSET (1 .. k + 1) |->
                     IF k + 1 \in s THEN Told(g[s \ {k + 1}], events[k + 1], attempt) ELSE g[s]]
  <2>2. ASSUME NEW s \in SUBSET (1 .. k + 1)
        PROVE  h[s] = IF s = {} THEN <<>> ELSE Told(h[s \ {Max(s)}], events[Max(s)], attempt)
    <3>1. CASE k + 1 \in s
      <4>1. Max(s) = k + 1 /\ s # {}
        BY <3>1, MaxIs
      <4>2. s \ {k + 1} \in SUBSET (1 .. k + 1) /\ k + 1 \notin s \ {k + 1}
        OBVIOUS
      <4>3. h[s \ {k + 1}] = g[s \ {k + 1}]
        BY <4>2
      <4>4. h[s] = Told(g[s \ {k + 1}], events[k + 1], attempt)
        BY <3>1
      <4> QED BY <4>1, <4>3, <4>4
    <3>2. CASE k + 1 \notin s
      <4>1. s \in SUBSET (1 .. k) /\ s \ {Max(s)} \in SUBSET (1 .. k)
        <5>1. \A i \in s : i \in 1 .. k + 1 /\ i # k + 1
          BY <3>2
        <5>2. \A i \in s : i \in 1 .. k
          BY <5>1
        <5> QED BY <5>2
      <4>2. k + 1 \notin s \ {Max(s)} /\ s \ {Max(s)} \in SUBSET (1 .. k + 1)
        BY <3>2
      <4>3. h[s] = g[s] /\ h[s \ {Max(s)}] = g[s \ {Max(s)}]
        BY <3>2, <4>2
      <4>4. g[s] = IF s = {} THEN <<>> ELSE Told(g[s \ {Max(s)}], events[Max(s)], attempt)
        BY <2>1, <4>1 DEF Tells
      <4> QED BY <4>3, <4>4
    <3> QED BY <3>1, <3>2
  <2>3. h = [s \in SUBSET (1 .. k + 1) |-> h[s]]
    OBVIOUS
  <2> HIDE DEF h
  <2>4. Tells(events, attempt, 1 .. k + 1, h)
    BY <2>2, <2>3 DEF Tells
  <2> QED BY <2>4
<1>3. Nat \subseteq T
  BY <1>1, <1>2, NatSets
<1> QED BY <1>3

\* What the first events leave open, by what those before the last of them do.
LEMMA TellsStep ==
  ASSUME NEW events, NEW attempt, NEW n \in Nat, NEW g, Tells(events, attempt, 1 .. n, g),
         NEW k \in Nat, k + 1 <= n
  PROVE  g[1 .. k + 1] = Told(g[1 .. k], events[k + 1], attempt)
<1> DEFINE s == 1 .. k + 1
<1>1. s # {} /\ Max(s) = k + 1 /\ s \ {k + 1} = 1 .. k
  BY FirstNumbers
<1>2. s \in SUBSET (1 .. n)
  OBVIOUS
<1> HIDE DEF s
<1>3. g[s] = Told(g[s \ {Max(s)}], events[Max(s)], attempt)
  <2> DEFINE S == SUBSET (1 .. n)
  <2>1. g = [r \in S |-> IF r = {} THEN <<>> ELSE Told(g[r \ {Max(r)}], events[Max(r)], attempt)]
    BY DEF Tells
  <2>2. s \in S
    BY <1>2
  <2> HIDE DEF S
  <2> QED BY <1>1, <2>1, <2>2
<1> QED BY <1>1, <1>3 DEF s

\* Tables of two trails that agree on the first events agree on what these leave open.
LEMMA TellsAgree ==
  ASSUME NEW events, NEW later, NEW attempt, NEW n \in Nat, NEW m \in Nat, n <= m,
         \A i \in 1 .. n : events[i] = later[i],
         NEW g, Tells(events, attempt, 1 .. n, g), NEW h, Tells(later, attempt, 1 .. m, h)
  PROVE  g[1 .. n] = h[1 .. n]
<1>a. \A k \in Nat : k + 1 <= n => g[1 .. k + 1] = Told(g[1 .. k], events[k + 1], attempt)
  BY TellsStep
<1>b. \A k \in Nat : k + 1 <= m => h[1 .. k + 1] = Told(h[1 .. k], later[k + 1], attempt)
  BY TellsStep
<1> DEFINE T == {k \in Nat : k <= n => g[1 .. k] = h[1 .. k]}
<1>1. 0 \in T
  <2>1. 1 .. 0 = {}
    OBVIOUS
  <2>2. g[{}] = <<>> /\ h[{}] = <<>>
    BY DEF Tells
  <2> QED BY <2>1, <2>2
<1>2. ASSUME NEW k \in T \cap Nat
      PROVE  k + 1 \in T
  <2> SUFFICES ASSUME k + 1 <= n
               PROVE  g[1 .. k + 1] = h[1 .. k + 1]
    OBVIOUS
  <2>1. /\ k \in Nat /\ k + 1 <= n /\ k + 1 <= m
        /\ g[1 .. k] = h[1 .. k] /\ events[k + 1] = later[k + 1]
    OBVIOUS
  <2> HIDE DEF T
  <2> QED BY <1>a, <1>b, <2>1
<1>3. Nat \subseteq T
  BY <1>1, <1>2, NatSets
<1> QED BY <1>3

\* The last event counts last.
LEMMA OpenAppend ==
  ASSUME NEW events \in Seq(TrailEvent), NEW e \in TrailEvent, NEW attempt
  PROVE  Open(Append(events, e), attempt) = Told(Open(events, attempt), e, attempt)
<1> DEFINE n == Len(events)
           later == Append(events, e)
           g == CHOOSE g : Tells(events, attempt, 1 .. n, g)
           h == CHOOSE h : Tells(later, attempt, 1 .. n + 1, h)
<1>1. /\ n \in Nat /\ DOMAIN events = 1 .. n /\ DOMAIN later = 1 .. n + 1
      /\ \A i \in 1 .. n : later[i] = events[i]
      /\ later[n + 1] = e
  BY AppendEvent
<1> HIDE DEF n, later
<1>2. Tells(events, attempt, 1 .. n, g) /\ Tells(later, attempt, 1 .. n + 1, h)
  <2>1. n + 1 \in Nat
    BY <1>1
  <2>2. /\ \E x : Tells(events, attempt, 1 .. n, x)
        /\ \E x : Tells(later, attempt, 1 .. n + 1, x)
    BY <1>1, <2>1, TellsExist
  <2> QED BY <2>2
<1>3. Open(events, attempt) = g[1 .. n] /\ Open(later, attempt) = h[1 .. n + 1]
  BY <1>1, OpenIs
<1> HIDE DEF g, h
<1>4. g[1 .. n] = h[1 .. n]
  BY <1>1, <1>2, TellsAgree
<1>5. h[1 .. n + 1] = Told(h[1 .. n], later[n + 1], attempt)
  <2>1. n + 1 \in Nat /\ n + 1 <= n + 1
    BY <1>1
  <2> QED BY <1>1, <1>2, <2>1, TellsStep
<1> QED BY <1>1, <1>3, <1>4, <1>5 DEF later

\* An attempt of which nothing is told has opened nothing.
LEMMA OpenNone ==
  ASSUME NEW events \in Seq(TrailEvent), NEW attempt,
         \A i \in DOMAIN events : events[i].attempt # attempt
  PROVE  Open(events, attempt) = <<>>
<1> DEFINE n == Len(events)
           g == CHOOSE g : Tells(events, attempt, 1 .. n, g)
           T == {k \in Nat : k <= n => g[1 .. k] = <<>>}
<1>1. n \in Nat /\ DOMAIN events = 1 .. n
  BY LenProperties
<1> HIDE DEF n
<1>2. Tells(events, attempt, 1 .. n, g)
  BY <1>1, TellsExist
<1>3. Open(events, attempt) = g[1 .. n]
  BY <1>1, OpenIs
<1> HIDE DEF g
<1>4. 0 \in T
  <2>1. 1 .. 0 = {}
    OBVIOUS
  <2>2. g[{}] = <<>>
    BY <1>2 DEF Tells
  <2> QED BY <2>1, <2>2
<1>5. ASSUME NEW k \in T \cap Nat
      PROVE  k + 1 \in T
  <2> SUFFICES ASSUME k + 1 <= n
               PROVE  g[1 .. k + 1] = <<>>
    OBVIOUS
  <2>1. k \in Nat /\ k + 1 <= n /\ k + 1 \in DOMAIN events /\ g[1 .. k] = <<>>
    BY <1>1
  <2> HIDE DEF T
  <2>2. g[1 .. k + 1] = Told(g[1 .. k], events[k + 1], attempt)
    BY <1>1, <1>2, <2>1, TellsStep
  <2> QED BY <2>1, <2>2 DEF Told
<1>6. Nat \subseteq T
  BY <1>4, <1>5, NatSets
<1> QED BY <1>1, <1>3, <1>6

\* The bracket that stands for a call.
Mark(frame) == [kind |-> frame.kind, node |-> frame.node]
Marks(frames, n) == [i \in 1 .. n |-> Mark(frames[i])]

\* How many of the calls are reported and open.
Bare == {"enter", "start", "complete"}
Depth(frames) == IF Last(frames).pc \in Bare THEN Len(frames) - 1 ELSE Len(frames)

LEMMA ReportedIs ==
  ASSUME NEW frames \in Seq(Frame), frames # <<>>
  PROVE  Reported(frames) = Marks(frames, Depth(frames))
<1>1. Len(frames) \in Nat \ {0} /\ DOMAIN frames = 1 .. Len(frames)
  <2>1. Len(frames) \in Nat /\ DOMAIN frames = 1 .. Len(frames)
    BY LenProperties
  <2> QED BY <2>1, EmptySeq
<1>2. /\ DOMAIN Front(frames) = 1 .. Len(frames) - 1
      /\ \A i \in 1 .. Len(frames) - 1 : Front(frames)[i] = frames[i]
  <2>1. \A i \in 1 .. Len(frames) - 1 : frames[i] \in Frame
    BY <1>1, ElementOfSeq
  <2>2. /\ Front(frames) \in Seq(Frame) /\ Len(Front(frames)) = Len(frames) - 1
        /\ \A i \in 1 .. Len(frames) - 1 : Front(frames)[i] = frames[1 + i - 1]
    BY <1>1, <2>1, SubSeqProperties DEF Front
  <2>3. DOMAIN Front(frames) = 1 .. Len(Front(frames))
    BY <2>2, LenProperties
  <2> QED BY <1>1, <2>2, <2>3
<1>3. CASE Last(frames).pc \in Bare
  <2>1. Reported(frames)
          = [i \in DOMAIN Front(frames) |->
               [kind |-> Front(frames)[i].kind, node |-> Front(frames)[i].node]]
    BY <1>3 DEF Reported, Bare
  <2>2. Depth(frames) = Len(frames) - 1
    BY <1>3 DEF Depth
  <2> QED BY <1>2, <2>1, <2>2 DEF Marks, Mark
<1>4. CASE Last(frames).pc \notin Bare
  <2>1. Reported(frames) = [i \in DOMAIN frames |-> [kind |-> frames[i].kind, node |-> frames[i].node]]
    BY <1>4 DEF Reported, Bare
  <2>2. Depth(frames) = Len(frames)
    BY <1>4 DEF Depth
  <2> QED BY <1>1, <2>1, <2>2 DEF Marks, Mark
<1> QED BY <1>3, <1>4

LEMMA MarksFacts ==
  ASSUME NEW frames, NEW n \in Nat
  PROVE  /\ Marks(frames, n + 1) = Append(Marks(frames, n), Mark(frames[n + 1]))
         /\ Marks(frames, n + 1) # <<>>
         /\ Last(Marks(frames, n + 1)) = Mark(frames[n + 1])
         /\ Front(Marks(frames, n + 1)) = Marks(frames, n)
<1> DEFINE U == {Mark(frames[i]) : i \in 1 .. n + 1}
           m == Marks(frames, n)
           w == Marks(frames, n + 1)
<1>1. /\ m \in Seq(U) /\ Len(m) = n /\ \A i \in 1 .. n : m[i] = Mark(frames[i])
  <2>1. m = [i \in 1 .. n |-> Mark(frames[i])] /\ \A i \in 1 .. n : Mark(frames[i]) \in U
    BY DEF Marks
  <2> HIDE DEF U, m
  <2> QED BY <2>1, SeqDef
<1>2. /\ w \in Seq(U) /\ Len(w) = n + 1 /\ \A i \in 1 .. n + 1 : w[i] = Mark(frames[i])
  <2>1. w = [i \in 1 .. n + 1 |-> Mark(frames[i])] /\ \A i \in 1 .. n + 1 : Mark(frames[i]) \in U
    BY DEF Marks
  <2> HIDE DEF U, w
  <2> QED BY <2>1, SeqDef
<1>3. Mark(frames[n + 1]) \in U
  OBVIOUS
<1> HIDE DEF U, m, w
<1>4. w = Append(m, Mark(frames[n + 1]))
  <2>1. /\ Append(m, Mark(frames[n + 1])) \in Seq(U) /\ Len(Append(m, Mark(frames[n + 1]))) = n + 1
        /\ \A i \in 1 .. n : Append(m, Mark(frames[n + 1]))[i] = m[i]
        /\ Append(m, Mark(frames[n + 1]))[n + 1] = Mark(frames[n + 1])
    BY <1>1, <1>3, AppendProperties
  <2>2. \A i \in 1 .. n + 1 : w[i] = Append(m, Mark(frames[n + 1]))[i]
    BY <1>1, <1>2, <2>1
  <2> QED BY <1>2, <2>1, <2>2, SeqEqual
<1>5. w # <<>> /\ Last(w) = Mark(frames[n + 1])
  BY <1>2, EmptySeq DEF Last
<1>6. Front(w) = m
  <2>1. \A i \in 1 .. n : w[i] \in U
    BY <1>2, ElementOfSeq
  <2>2. /\ Front(w) \in Seq(U) /\ Len(Front(w)) = n /\ \A i \in 1 .. n : Front(w)[i] = w[1 + i - 1]
    BY <1>2, <2>1, SubSeqProperties DEF Front
  <2>3. \A i \in 1 .. n : Front(w)[i] = m[i]
    BY <1>1, <1>2, <2>2
  <2> QED BY <1>1, <2>2, <2>3, SeqEqual
<1> QED BY <1>4, <1>5, <1>6 DEF m, w

LEMMA MarksSame ==
  ASSUME NEW f, NEW g, NEW n, \A i \in 1 .. n : Mark(f[i]) = Mark(g[i])
  PROVE  Marks(f, n) = Marks(g, n)
BY DEF Marks

\* What is reported of the executor's stack.
LEMMA StackReported ==
  ASSUME StackOK, stack # <<>>
  PROVE  /\ Reported(stack) = Marks(stack, Depth(stack))
         /\ Top.pc \in Bare => Depth(stack) = Len(stack) - 1
         /\ Top.pc \notin Bare => Depth(stack) = Len(stack)
         /\ Len(stack) \in 1 .. 3 /\ stack[Len(stack)] = Top
BY StackFacts, ReportedIs DEF StackOK, Depth, Top

\* The events of the current attempt tell its stack; a completed one has closed all it opened.
BracketsOK ==
  /\ stack # <<>> => Open(trail, run.attempt) = Reported(stack) /\ stack[1].node = None
  /\ run.status = "completed" => Open(trail, run.attempt) = <<>>

\* What is told of the run and not of a call opens and closes nothing.
LEMMA OpenRun ==
  ASSUME NEW events \in Seq(TrailEvent), NEW e \in TrailEvent, e.kind = "run", NEW attempt
  PROVE  Open(Append(events, e), attempt) = Open(events, attempt)
BY OpenAppend DEF Told

\* A call that has the same frames under it and is as deep is reported the same.
LEMMA BracketsStay ==
  ASSUME StackOK, stack # <<>>, stack' \in Seq(Frame), stack' # <<>>, BracketsOK,
         UNCHANGED <<run, trail>>, run.status # "completed",
         Depth(stack') = Depth(stack),
         \A i \in 1 .. Len(stack) : Mark(stack'[i]) = Mark(stack[i])
  PROVE  BracketsOK'
<1>1. Reported(stack) = Marks(stack, Depth(stack)) /\ Reported(stack') = Marks(stack', Depth(stack'))
  BY ReportedIs DEF StackOK
<1>2. Len(stack) \in 1 .. 3
  BY StackFacts
<1>3. \A i \in 1 .. Depth(stack) : Mark(stack'[i]) = Mark(stack[i])
  BY <1>2 DEF Depth
<1>4. Marks(stack', Depth(stack)) = Marks(stack, Depth(stack))
  BY <1>3, MarksSame
<1>5. stack'[1].node = None
  <2>1. stack[1].node = None
    BY DEF BracketsOK
  <2>2. Mark(stack'[1]) = Mark(stack[1])
    BY <1>2
  <2> QED BY <2>1, <2>2 DEF Mark
<1> QED BY <1>1, <1>4, <1>5 DEF BracketsOK

LEMMA GotoMarks ==
  ASSUME StackOK, stack # <<>>, NEW pc \in Steps, Goto(pc)
  PROVE  /\ stack' \in Seq(Frame) /\ stack' # <<>> /\ Len(stack') = Len(stack)
         /\ Depth(stack') = IF pc \in Bare THEN Len(stack) - 1 ELSE Len(stack)
         /\ \A i \in 1 .. Len(stack) : Mark(stack'[i]) = Mark(stack[i])
<1>1. /\ stack' \in Seq(Frame) /\ stack' # <<>> /\ Len(stack') = Len(stack)
      /\ Top' = [Top EXCEPT !.pc = pc] /\ Top' = stack'[Len(stack)]
      /\ \A i \in 1 .. Len(stack) - 1 : stack'[i] = stack[i]
  BY GotoStack
<1>2. Len(stack) \in 1 .. 3 /\ Top = stack[Len(stack)] /\ Top \in Frame
  BY StackFacts
<1>3. Top'.pc = pc /\ Mark(stack'[Len(stack)]) = Mark(stack[Len(stack)])
  BY <1>1, <1>2 DEF Frame, Mark
<1>4. ASSUME NEW i \in 1 .. Len(stack)
      PROVE  Mark(stack'[i]) = Mark(stack[i])
  <2>1. CASE i = Len(stack)
    BY <1>3, <2>1
  <2>2. CASE i # Len(stack)
    <3>1. i \in 1 .. Len(stack) - 1
      BY <1>2, <2>2
    <3> QED BY <1>1, <3>1
  <2> QED BY <2>1, <2>2
<1>5. Depth(stack') = IF pc \in Bare THEN Len(stack) - 1 ELSE Len(stack)
  BY <1>1, <1>3 DEF Depth, Top
<1> QED BY <1>1, <1>4, <1>5

\* The innermost call goes on and is still reported, or still not.
LEMMA BracketsGoto ==
  ASSUME StackOK, stack # <<>>, BracketsOK, NEW pc \in Steps, Goto(pc), pc \in Bare <=> Top.pc \in Bare,
         UNCHANGED <<run, trail>>, run.status # "completed"
  PROVE  BracketsOK'
<1>1. Depth(stack') = Depth(stack)
  BY GotoMarks, StackReported
<1>2. /\ stack' \in Seq(Frame) /\ stack' # <<>>
      /\ \A i \in 1 .. Len(stack) : Mark(stack'[i]) = Mark(stack[i])
  BY GotoMarks
<1> QED BY <1>1, <1>2, BracketsStay

\* What the executor does while nothing is raised.
LEMMA BracketsCheck == ShapeOK /\ BracketsOK /\ Check => BracketsOK'
<1> SUFFICES ASSUME ShapeOK, BracketsOK, Check
             PROVE  BracketsOK'
  OBVIOUS
<1>1. /\ raised = None /\ stack # <<>> /\ Top.pc \in {"enter", "check", "leave"}
      /\ UNCHANGED stack \/ Goto(Checked[Top.pc])
      /\ UNCHANGED <<run, trail, state>>
  BY DEF Check, Checked
<1>2. StackOK /\ TypesOK /\ run.status # "completed"
  BY <1>1, Running DEF ShapeOK, StatusOK, Busy
<1>3. CASE UNCHANGED stack
  BY <1>1, <1>3 DEF BracketsOK
<1>4. CASE Goto(Checked[Top.pc])
  <2> DEFINE pc == Checked[Top.pc]
  <2>1. pc \in Steps /\ pc # "complete" /\ (pc \in Bare <=> Top.pc \in Bare)
    BY <1>1 DEF Checked, Steps, Bare
  <2> HIDE DEF pc
  <2>2. Goto(pc)
    BY <1>4 DEF pc
  <2> QED BY <1>1, <1>2, <2>1, <2>2, BracketsGoto
<1> QED BY <1>1, <1>3, <1>4

LEMMA BracketsStart == ShapeOK /\ BracketsOK /\ Start => BracketsOK'
<1> SUFFICES ASSUME ShapeOK, BracketsOK, Start
             PROVE  BracketsOK'
  OBVIOUS
<1> DEFINE e == Event("started", Top.kind, Top.node, None)
           n == Len(stack) - 1
<1>1. /\ raised = None /\ stack # <<>> /\ Top.pc = "start"
      /\ trail' = Append(trail, e) /\ Goto("check") /\ UNCHANGED <<run, state>>
  BY DEF Start, At, Write
<1>2. StackOK /\ TypesOK /\ run.status # "completed"
  BY <1>1, Running DEF ShapeOK, StatusOK, Busy
<1>3. Top.kind \in Kinds /\ Top.node \in Nodes \union {None}
  BY <1>1, <1>2, TopShape
<1>4. /\ e \in TrailEvent /\ e.attempt = run.attempt /\ e.kind # "run" /\ e.type = "started"
      /\ [kind |-> e.kind, node |-> e.node] = Mark(Top)
  BY <1>2, <1>3, EventFields DEF Event, Kinds, Types, Mark
<1>5. n \in Nat /\ Reported(stack) = Marks(stack, n) /\ stack[n + 1] = Top
  BY <1>1, <1>2, StackReported DEF Bare
<1>6. /\ stack' \in Seq(Frame) /\ stack' # <<>> /\ Len(stack') = Len(stack)
      /\ Depth(stack') = Len(stack) /\ Len(stack) \in 1 .. 3
      /\ \A i \in 1 .. Len(stack) : Mark(stack'[i]) = Mark(stack[i])
  BY <1>1, <1>2, GotoMarks, StackFacts DEF Steps, Bare
<1>7. Reported(stack') = Marks(stack', n + 1)
  BY <1>6, ReportedIs
<1>8. Marks(stack', n + 1) = Marks(stack, n + 1) /\ stack'[1].node = None
  <2>1. n + 1 = Len(stack) /\ Mark(stack'[1]) = Mark(stack[1]) /\ stack[1].node = None
    BY <1>1, <1>6 DEF BracketsOK
  <2> QED BY <1>6, <2>1, MarksSame DEF Mark
<1> HIDE DEF e, n
<1>9. Open(trail', run.attempt) = Append(Open(trail, run.attempt), Mark(Top))
  <2>1. trail \in Seq(TrailEvent)
    BY <1>2 DEF TypesOK, TrailOK
  <2> QED BY <1>1, <1>4, <2>1, OpenAppend DEF Told, Bracket
<1>10. Open(trail, run.attempt) = Marks(stack, n)
  BY <1>1, <1>5 DEF BracketsOK
<1>11. Open(trail', run.attempt) = Marks(stack, n + 1)
  BY <1>5, <1>9, <1>10, MarksFacts
<1> QED BY <1>1, <1>2, <1>7, <1>8, <1>11 DEF BracketsOK

LEMMA BracketsDescend == ShapeOK /\ BracketsOK /\ Descend => BracketsOK'
<1> SUFFICES ASSUME ShapeOK, BracketsOK, Descend
             PROVE  BracketsOK'
  OBVIOUS
<1>1. raised = None /\ stack # <<>> /\ Top.pc = "body" /\ UNCHANGED <<run, trail, state>>
  BY DEF Descend, At
<1>2. StackOK /\ TypesOK /\ run.status # "completed"
  BY <1>1, Running DEF ShapeOK, StatusOK, Busy
<1>4. PICK f \in Frame : /\ f.pc = "enter"
                         /\ stack' = Append(Append(Under, [Top EXCEPT !.pc = "leave"]), f)
  <2>1. FirstNode \in Nodes /\ Top.node \in Nodes \union {None}
    BY <1>1, <1>2, TopShape DEF FirstNode, Nodes
  <2>2. Wraps(Top.node) # "node" => Wraps(Top.node) \in Kinds
    BY DEF Wraps, Kinds
  <2>3. Enter("node", FirstNode) \in Frame /\ Enter("node", FirstNode).pc = "enter"
    BY <2>1 DEF Enter, Frame, Kinds, Steps
  <2>4. Wraps(Top.node) # "node" => /\ Enter(Wraps(Top.node), Top.node) \in Frame
                                    /\ Enter(Wraps(Top.node), Top.node).pc = "enter"
    BY <2>1, <2>2 DEF Enter, Frame, Steps
  <2> QED BY <2>3, <2>4 DEF Descend
<1>5. /\ stack' \in Seq(Frame) /\ stack' # <<>> /\ Len(stack') = Len(stack) + 1 /\ Top' = f
      /\ stack'[Len(stack)] = [Top EXCEPT !.pc = "leave"]
      /\ \A i \in 1 .. Len(stack) - 1 : stack'[i] = stack[i]
  BY <1>1, <1>2, <1>4, PushStack
<1>6. Len(stack) \in 1 .. 3 /\ Top = stack[Len(stack)] /\ Top \in Frame
  BY <1>1, <1>2, StackFacts
<1>7. Depth(stack) = Len(stack)
  BY <1>1, <1>2, StackReported DEF Bare
<1>8. Depth(stack') = Len(stack)
  BY <1>4, <1>5, <1>6 DEF Depth, Bare, Top
<1>9. \A i \in 1 .. Len(stack) : Mark(stack'[i]) = Mark(stack[i])
  <2>1. Mark(stack'[Len(stack)]) = Mark(stack[Len(stack)])
    BY <1>5, <1>6 DEF Mark, Frame
  <2>2. ASSUME NEW i \in 1 .. Len(stack), i # Len(stack)
        PROVE  i \in 1 .. Len(stack) - 1
    BY <1>6, <2>2
  <2>3. ASSUME NEW i \in 1 .. Len(stack) - 1 PROVE Mark(stack'[i]) = Mark(stack[i])
    BY <1>5, <2>3 DEF Mark
  <2> QED BY <2>1, <2>2, <2>3
<1> QED BY <1>1, <1>2, <1>5, <1>7, <1>8, <1>9, BracketsStay

LEMMA BracketsBody == ShapeOK /\ BracketsOK /\ Body => BracketsOK'
<1> SUFFICES ASSUME ShapeOK, BracketsOK, Body
             PROVE  BracketsOK'
  OBVIOUS
<1>1. raised = None /\ stack # <<>> /\ Top.pc = "body" /\ Goto("leave") /\ UNCHANGED <<run, trail>>
  BY DEF Body, At
<1>2. StackOK /\ TypesOK /\ run.status # "completed"
  BY <1>1, Running DEF ShapeOK, StatusOK, Busy
<1>3. "leave" \in Steps /\ ("leave" \in Bare <=> Top.pc \in Bare)
  BY <1>1 DEF Steps, Bare
<1> QED BY <1>1, <1>2, <1>3, BracketsGoto

\* The innermost call is told to have ended.
LEMMA CompletedCloses ==
  ASSUME ShapeOK, stack # <<>>, Top.pc = "finish", BracketsOK,
         trail' = Append(trail, Event("completed", Top.kind, Top.node, None))
  PROVE  Open(trail', run.attempt) = Marks(stack, Len(stack) - 1)
<1> DEFINE e == Event("completed", Top.kind, Top.node, None)
           n == Len(stack) - 1
<1>1. StackOK /\ TypesOK
  BY DEF ShapeOK
<1>2. Top.kind \in Kinds /\ Top.node \in Nodes \union {None}
  BY <1>1, TopShape
<1>3. /\ e \in TrailEvent /\ e.attempt = run.attempt /\ e.kind # "run" /\ e.type = "completed"
      /\ [kind |-> e.kind, node |-> e.node] = Mark(Top)
  BY <1>1, <1>2, EventFields DEF Event, Kinds, Types, Mark
<1>4. n \in Nat /\ Reported(stack) = Marks(stack, n + 1) /\ stack[n + 1] = Top
  BY <1>1, StackReported DEF Bare
<1> HIDE DEF n
<1>5. trail' = Append(trail, e)
  OBVIOUS
<1> HIDE DEF e
<1>6. Open(trail, run.attempt) = Marks(stack, n + 1)
  BY <1>4 DEF BracketsOK
<1>7. /\ Marks(stack, n + 1) # <<>> /\ Last(Marks(stack, n + 1)) = Mark(Top)
      /\ Front(Marks(stack, n + 1)) = Marks(stack, n)
  BY <1>4, MarksFacts
<1>8. Open(trail', run.attempt) = Bracket(Marks(stack, n + 1), e)
  <2>1. trail \in Seq(TrailEvent)
    BY <1>1 DEF TypesOK, TrailOK
  <2> QED BY <1>3, <1>5, <1>6, <2>1, OpenAppend DEF Told
<1> QED BY <1>3, <1>7, <1>8 DEF Bracket, n

LEMMA BracketsFinish == ShapeOK /\ BracketsOK /\ Finish => BracketsOK'
<1> SUFFICES ASSUME ShapeOK, BracketsOK, Finish
             PROVE  BracketsOK'
  OBVIOUS
<1>1. /\ raised = None /\ stack # <<>> /\ Top.pc = "finish" /\ run' = run
      /\ trail' = Append(trail, Event("completed", Top.kind, Top.node, None))
      /\ stack' = IF Top.kind # "node" THEN Under
                  ELSE LET next == Successor(run.workflow, Top.node, state)
                       IN IF next = "END" THEN Under ELSE Append(Under, Enter("node", next))
  BY DEF Finish, At, Write
<1>2. StackOK /\ TypesOK /\ run.status # "completed"
  BY <1>1, Running DEF ShapeOK, StatusOK, Busy
<1>3. /\ StackOK' /\ stack' # <<>> /\ Top'.pc \in {"enter", "leave"}
  BY FinishStack
<1>4. Open(trail', run.attempt) = Marks(stack, Len(stack) - 1)
  BY <1>1, CompletedCloses
<1>5. /\ Len(stack) \in 1 .. 3 /\ Under \in Seq(Frame) /\ Len(Under) = Len(stack) - 1
      /\ \A i \in 1 .. Len(stack) - 1 : Under[i] = stack[i]
  BY <1>1, <1>2, StackFacts
<1>6. Len(stack) > 1
  <2>1. Top.kind # "workflow"
    BY DEF Finish
  <2> QED BY <1>1, <1>2, <1>5, <2>1, TopShape
<1>7. /\ Depth(stack') = Len(stack) - 1
      /\ \A i \in 1 .. Len(stack) - 1 : stack'[i] = stack[i]
  <2>1. CASE stack' = Under
    <3>1. Len(stack') = Len(stack) - 1 /\ Top'.pc = "leave"
      BY <1>1, <1>2, <1>6, <2>1, PopStack
    <3> QED BY <1>5, <2>1, <3>1 DEF Depth, Bare, Top
  <2>2. CASE stack' # Under
    <3> DEFINE f == Enter("node", Successor(run.workflow, Top.node, state))
    <3>1. stack' = Append(Under, f) /\ f.pc = "enter"
      BY <1>1, <2>2 DEF Enter
    <3>2. f \in Frame
      <4> DEFINE next == Successor(run.workflow, Top.node, state)
      <4>1. Top.kind = "node" /\ next # "END"
        BY <1>1, <2>2
      <4>2. run.workflow \in Registered /\ Top.node \in Nodes
        BY <1>1, <1>2, <1>6, TopShape
      <4>3. run.workflow = "demo.route" /\ Top.node = "classify" => state.category \in Categories
        BY <1>1, <1>2, <4>1, Below DEF Classified
      <4>4. state \in WorkflowState
        BY <1>2 DEF TypesOK
      <4>5. next \in Nodes \union {"END"}
        BY <4>2, <4>3, <4>4, SuccessorIsNode
      <4> HIDE DEF next
      <4>6. Enter("node", next) \in Frame
        BY <4>1, <4>5 DEF Enter, Frame, Kinds, Steps
      <4> QED BY <4>6 DEF next
    <3> HIDE DEF f
    <3>3. /\ Len(stack') = Len(stack) /\ Top' = f
          /\ \A i \in 1 .. Len(stack) - 1 : stack'[i] = stack[i]
      BY <1>1, <1>2, <3>1, <3>2, NextStack
    <3> QED BY <1>5, <3>1, <3>3 DEF Depth, Bare, Top
  <2> QED BY <2>1, <2>2
<1>8. Marks(stack', Len(stack) - 1) = Marks(stack, Len(stack) - 1) /\ stack'[1].node = None
  <2>1. \A i \in 1 .. Len(stack) - 1 : Mark(stack'[i]) = Mark(stack[i])
    BY <1>7
  <2>2. stack'[1] = stack[1] /\ stack[1].node = None
    BY <1>1, <1>5, <1>6, <1>7 DEF BracketsOK
  <2> QED BY <2>1, <2>2, MarksSame
<1>9. Reported(stack') = Marks(stack', Len(stack) - 1)
  BY <1>3, <1>7, ReportedIs DEF StackOK
<1> QED BY <1>1, <1>2, <1>4, <1>8, <1>9 DEF BracketsOK

LEMMA BracketsFinishWorkflow == ShapeOK /\ BracketsOK /\ FinishWorkflow => BracketsOK'
<1> SUFFICES ASSUME ShapeOK, BracketsOK, FinishWorkflow
             PROVE  BracketsOK'
  OBVIOUS
<1>1. /\ raised = None /\ stack # <<>> /\ Top.pc = "finish" /\ Top.kind = "workflow"
      /\ trail' = Append(trail, Event("completed", "workflow", None, None))
      /\ Goto("complete") /\ UNCHANGED <<run, state>>
  BY DEF FinishWorkflow, At, Write
<1>2. StackOK /\ TypesOK /\ run.status # "completed"
  BY <1>1, Running DEF ShapeOK, StatusOK, Busy
<1>3. Top.node = None
  <2>1. Len(stack) = 1 /\ Top = stack[1]
    BY <1>1, <1>2, StackFacts, TopShape
  <2> QED BY <1>1, <2>1 DEF BracketsOK
<1>4. Open(trail', run.attempt) = Marks(stack, Len(stack) - 1)
  BY <1>1, <1>3, CompletedCloses
<1>5. /\ stack' \in Seq(Frame) /\ stack' # <<>> /\ Depth(stack') = Len(stack) - 1
      /\ \A i \in 1 .. Len(stack) : Mark(stack'[i]) = Mark(stack[i])
  BY <1>1, <1>2, GotoMarks DEF Steps, Bare
<1>6. Reported(stack') = Marks(stack', Len(stack) - 1)
  BY <1>5, ReportedIs
<1>7. Marks(stack', Len(stack) - 1) = Marks(stack, Len(stack) - 1) /\ stack'[1].node = None
  <2>1. Len(stack) \in 1 .. 3
    BY <1>1, <1>2, StackFacts
  <2>2. \A i \in 1 .. Len(stack) - 1 : Mark(stack'[i]) = Mark(stack[i])
    BY <1>5, <2>1
  <2>3. Mark(stack'[1]) = Mark(stack[1]) /\ stack[1].node = None
    BY <1>1, <1>5, <2>1 DEF BracketsOK
  <2> QED BY <2>2, <2>3, MarksSame DEF Mark
<1> QED BY <1>1, <1>2, <1>4, <1>6, <1>7 DEF BracketsOK

LEMMA BracketsComplete == ShapeOK /\ BracketsOK /\ Complete => BracketsOK'
<1> SUFFICES ASSUME ShapeOK, BracketsOK, Complete
             PROVE  BracketsOK'
  OBVIOUS
<1> DEFINE e == Event("completed", "run", None, None)
<1>1. /\ raised = None /\ stack # <<>> /\ Top.pc = "complete" /\ stack' = <<>>
      /\ trail' = Append(trail, e) /\ run' = [run EXCEPT !.status = "completed"]
  BY DEF Complete, At, Write, Set
<1>2. StackOK /\ TypesOK
  BY <1>1, Running
<1>3. e \in TrailEvent /\ e.kind = "run" /\ trail \in Seq(TrailEvent)
  BY <1>2, EventFields DEF Event, Types, TypesOK, TrailOK
<1> HIDE DEF e
<1>4. Depth(stack) = 0
  <2>1. Top.kind = "workflow" /\ Len(stack) = 1
    BY <1>1, <1>2, TopShape
  <2> QED BY <1>1, <1>2, <2>1, StackReported DEF Bare
<1>5. Open(trail, run.attempt) = <<>>
  <2>1. Reported(stack) = Marks(stack, 0)
    BY <1>1, <1>2, <1>4, StackReported
  <2>2. Marks(stack, 0) = <<>>
    BY DEF Marks
  <2> QED BY <1>1, <2>1, <2>2 DEF BracketsOK
<1>6. Open(trail', run.attempt) = <<>>
  BY <1>1, <1>3, <1>5, OpenRun
<1>7. run'.attempt = run.attempt
  BY <1>1, <1>2 DEF TypesOK, RunState
<1> QED BY <1>1, <1>6, <1>7 DEF BracketsOK

\* What the executor does while nothing is raised.
LEMMA BracketsExecute ==
  ASSUME ShapeOK, BracketsOK, Execute, raised = None, stack # <<>>
  PROVE  BracketsOK'
<1>1. run.status # "completed"
  BY DEF ShapeOK, StatusOK, Busy
<1>2. BuildFails \/ BodyFails => BracketsOK'
  BY <1>1 DEF BuildFails, BodyFails, BracketsOK
<1>3. ~Unwind /\ ~Settle
  BY DEF Unwind, Settle
<1> QED BY <1>2, <1>3, BracketsCheck, BracketsStart, BracketsDescend, BracketsBody, BracketsFinish,
           BracketsFinishWorkflow, BracketsComplete DEF Execute

\* An executor that is left has told nothing that is wrong, and its run is not completed.
LEMMA BracketsLeft ==
  ASSUME stack' = <<>>, run'.status # "completed"
  PROVE  BracketsOK'
BY DEF BracketsOK

LEMMA BracketsClaim == ShapeOK /\ BracketsOK /\ ClaimRun => BracketsOK'
<1> SUFFICES ASSUME ShapeOK, BracketsOK, ClaimRun
             PROVE  BracketsOK'
  OBVIOUS
<1> DEFINE e == [Event("started", "run", None, None) EXCEPT !.attempt = run.attempt + 1]
           f == Enter("workflow", None)
<1>1. /\ trail' = Append(trail, e) /\ stack' = <<f>> /\ run.attempt < MaxAttempts
      /\ run' = [run EXCEPT !.attempt = @ + 1, !.status = IF asked # None THEN "cancelling" ELSE "running"]
  BY DEF ClaimRun
<1>2. TypesOK /\ trail \in Seq(TrailEvent) /\ run.attempt \in Nat
      /\ \A i \in DOMAIN trail : trail[i].attempt <= run.attempt
  BY DEF ShapeOK, TypesOK, TrailOK, RunState
<1>3. e \in TrailEvent /\ e.kind = "run"
  <2>1. Event("started", "run", None, None) \in TrailEvent
    BY <1>2, EventFields DEF Types
  <2>2. run.attempt + 1 \in 0 .. MaxAttempts
    BY <1>1, <1>2
  <2> QED BY <2>1, <2>2 DEF Event, TrailEvent
<1>4. run'.attempt = run.attempt + 1 /\ run'.status # "completed"
  BY <1>1, <1>2 DEF TypesOK, RunState
<1> HIDE DEF e
<1>5. Open(trail, run.attempt + 1) = <<>>
  <2>1. \A i \in DOMAIN trail : trail[i].attempt # run.attempt + 1
    <3> SUFFICES ASSUME NEW i \in DOMAIN trail
                 PROVE  trail[i].attempt # run.attempt + 1
      OBVIOUS
    <3>1. trail[i] \in TrailEvent
      BY <1>2, ElementOfSeq, LenProperties
    <3>2. trail[i].attempt \in Nat /\ trail[i].attempt <= run.attempt
      BY <1>2, <3>1 DEF TrailEvent
    <3> QED BY <1>2, <3>2
  <2> QED BY <1>2, <2>1, OpenNone
<1>6. Open(trail', run.attempt + 1) = <<>>
  BY <1>1, <1>2, <1>3, <1>5, OpenRun
<1>7. f \in Frame /\ f.pc = "enter" /\ f.node = None
  BY DEF Enter, Frame, Kinds, Steps
<1> HIDE DEF f
<1>8. /\ stack' \in Seq(Frame) /\ stack' # <<>> /\ Len(stack') = 1 /\ stack'[1] = f
  BY <1>1, <1>7
<1>9. Reported(stack') = <<>>
  <2>1. Depth(stack') = 0
    BY <1>7, <1>8 DEF Depth, Bare, Last
  <2> QED BY <1>8, <2>1, ReportedIs DEF Marks
<1> QED BY <1>4, <1>6, <1>7, <1>8, <1>9 DEF BracketsOK

LEMMA BracketsRequest == ShapeOK /\ BracketsOK /\ RequestCancel => BracketsOK'
<1> SUFFICES ASSUME ShapeOK, BracketsOK, RequestCancel
             PROVE  BracketsOK'
  OBVIOUS
<1>1. PICK type \in {"cancelled", "cancel_requested"} :
        trail' = Append(trail, Event(type, "run", None, None))
  BY DEF RequestCancel, Write
<1>2. TypesOK /\ trail \in Seq(TrailEvent)
  BY DEF ShapeOK, TypesOK, TrailOK
<1> DEFINE e == Event(type, "run", None, None)
<1>3. e \in TrailEvent /\ e.kind = "run" /\ trail' = Append(trail, e)
  BY <1>1, <1>2, EventFields DEF Types, Event
<1> HIDE DEF e
<1>4. run'.attempt = run.attempt /\ run'.status # "completed" /\ stack' = stack
  BY <1>2 DEF RequestCancel, Set, TypesOK, RunState
<1>5. Open(trail', run.attempt) = Open(trail, run.attempt)
  BY <1>2, <1>3, OpenRun
<1> QED BY <1>4, <1>5 DEF BracketsOK

LEMMA BracketsStep == ShapeOK /\ BracketsOK /\ [ExecNext]_execVars => BracketsOK'
<1> SUFFICES ASSUME ShapeOK, BracketsOK, [ExecNext]_execVars
             PROVE  BracketsOK'
  OBVIOUS
<1>0. TypesOK /\ (Busy => run.status # "completed")
  BY DEF ShapeOK, StatusOK
<1>1. CASE DeadlinePasses \/ UNCHANGED execVars
  BY <1>1 DEF DeadlinePasses, execVars, BracketsOK
<1>2. CASE Crash
  BY <1>0, <1>2, BracketsLeft DEF Crash
<1>3. CASE Unwind
  BY <1>0, <1>3, BracketsLeft DEF Unwind, Busy
<1>4. CASE Settle
  <2>1. PICK status \in {"cancelled", "queued", "failed"} :
          run' = [run EXCEPT !.status = status, !.failure = raised]
    BY <1>0, <1>4, SettleTrail
  <2>2. run'.status # "completed"
    BY <1>0, <2>1 DEF TypesOK, RunState
  <2> QED BY <1>4, <2>2, BracketsLeft DEF Settle
<1>5. CASE Execute
  BY <1>3, <1>4, <1>5, ExecuteCases, BracketsExecute
<1> QED BY <1>1, <1>2, <1>5, BracketsClaim, BracketsRequest DEF ExecNext

\* The events of an attempt, read as brackets, are the call stack of its executor at every
\* moment, and a completed attempt has closed all it opened.
THEOREM TrailsTellTheStack == ExecSpec => []TrailTellsStack
<1>1. ExecInit => BracketsOK
  BY DEF ExecInit, BracketsOK
<1>2. BracketsOK /\ ExecTypeOK => TrailTellsStack
  BY DEF BracketsOK, TrailTellsStack
<1> QED BY <1>1, <1>2, InitShape, ShapeStep, BracketsStep, ExecutionTypesCorrect, PTL DEF ExecSpec

====
