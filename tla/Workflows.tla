------------------------------ MODULE Workflows ------------------------------
(***************************************************************************)
(* The workflows of agent_harness_core/workflows as graphs: which node     *)
(* follows which, what a node does to the workflow's state, and what it    *)
(* may raise.                                                              *)
(*                                                                         *)
(* Abstracted: texts.  An input is the kind of question it asks, a         *)
(* response says where its text comes from.                                *)
(***************************************************************************)
EXTENDS Naturals, Sequences, FiniteSets, SequencesExt

CONSTANTS
  None,
  MaxUses,       \* bound: tools the model asks for in one answer
  MaxToolCalls   \* AnthropicReactConfig.max_tool_calls

\* The registry, and a name that is not in it: the API takes any name.
Registered == {"demo.echo", "demo.route", "demo.tool.single", "demo.tool.select",
               "demo.react.once", "demo.react", "anthropic.respond", "anthropic.react"}
Workflow == Registered \union {"unknown"}

Tools == {"calculator", "lookup_capital", "count_words"}
Categories == {"greeting", "question", "command", "statement"}

\* What an input asks for; "two_steps" is README.md's example of demo.react, "add
\* 3 and 5, then multiply the result by 2".
Question == {"math", "capital", "words", "two_steps", "nothing"}

Exception == {"cancelled", "timed_out", "misconfigured", "rate_limit_error",
              "connection_error", "service_error", "api_status_error", "error"}

ASSUME WorkflowsAssumption ==
  MaxUses \in Nat /\ MaxToolCalls \in Nat \ {0} /\ None \notin Nat \union Exception

\* output is the tool whose output the state holds; tool_calls is the length of
\* the history.
WorkflowState ==
  [normalized : BOOLEAN,
   category   : {None} \union Categories,
   selected   : {None} \union Tools,
   output     : {None} \union Tools,
   history    : Seq([tool : Tools, call : Nat]),
   response   : {None, "echo", "canned", "model"} \union Tools]

InitialState(w) ==
  [normalized |-> FALSE, category |-> None,
   selected |-> IF w = "demo.tool.single" THEN "count_words" ELSE None,
   output |-> None, history |-> <<>>, response |-> None]

\* choose_tool: the first pattern that matches; a sum in words matches none.
ChooseTool(asks) ==
  CASE asks = "math"    -> "calculator"
    [] asks = "capital" -> "lookup_capital"
    [] asks = "words"   -> "count_words"
    [] OTHER            -> None

\* What wraps a node's body: runtime.tool, _normalize_input_value and
\* _run_tool_value report a tool, _generate_response_value a model.
Wraps(node) ==
  CASE node \in {"normalize_input", "execute_tool", "use_tool"} -> "tool"
    [] node = "generate_response" -> "model"
    [] OTHER -> "node"

-----------------------------------------------------------------------------
(* The edges *)

FirstNode == "normalize_input"

\* route_by_category
RespondTo ==
  [greeting |-> "respond_greeting", question |-> "respond_question",
   command |-> "respond_command", statement |-> "respond_statement"]

\* route_after_reason of anthropic.react: previous_tool_calls counts the entries
\* of the history with an index below the number of entries, hence all of them.
RouteAfterAnswer(s) ==
  LET current  == Len(s.history)
      previous == Cardinality({i \in DOMAIN s.history : s.history[i].call < current})
  IN IF s.history # <<>> /\ current > previous /\ current < MaxToolCalls
       THEN "reason_with_model" ELSE "respond"

\* compile_workflow_graph, for workflows without a graph_factory.
TwoNodes(node) == IF node = "normalize_input" THEN "generate_response" ELSE "END"

DemoRoute(node, s) ==
  CASE node = "normalize_input" -> "classify"
    [] node = "classify"        -> RespondTo[s.category]
    [] OTHER                    -> "END"

DemoToolSingle(node, s) ==
  CASE node = "normalize_input"   -> "prepare_tool_call"
    [] node = "prepare_tool_call" -> "execute_tool"
    [] node = "execute_tool"      -> "respond"
    [] OTHER                      -> "END"

DemoToolSelect(node, s) ==
  CASE node = "normalize_input" -> "select_tool"
    [] node = "select_tool"     -> IF s.selected = None THEN "respond" ELSE "execute_tool"
    [] node = "execute_tool"    -> "respond"
    [] OTHER                    -> "END"

DemoReactOnce(node, s) ==
  CASE node = "normalize_input" -> "reason"
    [] node = "reason"          -> IF s.selected = None THEN "respond" ELSE "use_tool"
    [] node = "use_tool"        -> "respond"
    [] OTHER                    -> "END"

DemoReact(node, s) ==
  CASE node = "normalize_input" -> "reason"
    [] node = "reason"          -> IF s.selected = None THEN "respond" ELSE "use_tool"
    [] node = "use_tool"        -> "reason"
    [] OTHER                    -> "END"

AnthropicReact(node, s) ==
  CASE node = "normalize_input"   -> "reason_with_model"
    [] node = "reason_with_model" -> RouteAfterAnswer(s)
    [] OTHER                      -> "END"

\* The node after this one, or "END"; s is the state the node returned.
Successor(w, node, s) ==
  CASE w \in {"demo.echo", "anthropic.respond"} -> TwoNodes(node)
    [] w = "demo.route"       -> DemoRoute(node, s)
    [] w = "demo.tool.single" -> DemoToolSingle(node, s)
    [] w = "demo.tool.select" -> DemoToolSelect(node, s)
    [] w = "demo.react.once"  -> DemoReactOnce(node, s)
    [] w = "demo.react"       -> DemoReact(node, s)
    [] w = "anthropic.react"  -> AnthropicReact(node, s)

-----------------------------------------------------------------------------
(* The nodes *)

\* Mutant: demo.react chooses again after it has seen the tool's output.
ReasonAgain(w, s, asks) == [s EXCEPT !.selected = ChooseTool(asks)]

\* reason, select_tool: demo.react stops when a tool has answered.
Reason(w, s, asks) ==
  [s EXCEPT !.selected =
     IF w = "demo.react" /\ s.output # None THEN None ELSE ChooseTool(asks)]

\* use_tool, execute_tool
UseTool(s) ==
  IF s.selected = None THEN s
  ELSE [s EXCEPT !.output = s.selected,
                 !.history = Append(@, [tool |-> s.selected, call |-> 0])]

\* respond: a text about the last tool, or one without; demo.route's are canned.
Respond(w, s) ==
  [s EXCEPT !.response = IF w = "demo.route" THEN "canned"
                         ELSE IF s.history # <<>> THEN Last(s.history).tool ELSE "echo"]

\* The tools an answer of the model asks for, executed inside the node; the
\* index counts from zero in each answer.
WithAnswer(s, text, uses) ==
  [s EXCEPT !.response = text,
            !.history = @ \o [i \in DOMAIN uses |-> [tool |-> uses[i], call |-> i - 1]]]
Answers(s) ==
  {WithAnswer(s, text, uses) :
     text \in {None, "model"}, uses \in UNION {[1 .. n -> Tools] : n \in 0 .. MaxUses}}

\* The states a node's body may return for an input.
Results(w, node, s, asks, category) ==
  CASE node = "normalize_input"   -> {[s EXCEPT !.normalized = TRUE]}
    [] node = "classify"          -> {[s EXCEPT !.category = category]}
    [] node = "prepare_tool_call" -> {[s EXCEPT !.selected = "count_words"]}
    [] node \in {"reason", "select_tool"} -> {Reason(w, s, asks)}
    [] node \in {"use_tool", "execute_tool"} -> {UseTool(s)}
    [] node = "generate_response" ->
         {[s EXCEPT !.response = IF w = "demo.echo" THEN "echo" ELSE "model"]}
    [] node = "reason_with_model" -> Answers(s)
    [] OTHER -> {Respond(w, s)}

\* What the two clients make of a failed call of the provider: only the first
\* tells an answer with a status of 500 or more from the others.
RespondErrors == {"rate_limit_error", "connection_error", "service_error", "api_status_error"}
ReactErrors == {"rate_limit_error", "connection_error", "api_status_error"}

\* calculate_expression rejects what is not a sum, and divisions by zero.
ToolRaises(s) == IF s.selected = "calculator" THEN {"error"} ELSE {}

\* What a node's body may raise; an answer may lack text, or ask for a tool that
\* raises or does not exist.
Raises(w, node, s) ==
  CASE w = "anthropic.respond" /\ node = "generate_response" -> RespondErrors \union {"error"}
    [] node = "reason_with_model" -> ReactErrors \union {"error"}
    [] node \in {"use_tool", "execute_tool"} -> ToolRaises(s)
    [] OTHER -> {}

\* load_config: a provider's workflow needs a key and a model.
ConfigRaises(w) == IF w \in {"anthropic.respond", "anthropic.react"} THEN {"misconfigured"} ELSE {}

\* registry.get
BuildRaises(w) == IF w \in Registered THEN ConfigRaises(w) ELSE {"error"}
=============================================================================
