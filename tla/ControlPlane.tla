---------------------------- MODULE ControlPlane ----------------------------
(***************************************************************************)
(* The API's endpoints that write or list runs (main.py of apps/api) and   *)
(* what they and the workers tell Prometheus (PrometheusMetrics in         *)
(* observability/core.py).  FastAPI runs the endpoints in a thread pool:   *)
(* each is a store transaction, a second one that lists the runs, and      *)
(* updates of metrics, with other endpoints and the workers in between.    *)
(*                                                                         *)
(* The runs move as RunLifecycle lets them, for any number of attempts.    *)
(* Left out: HTTP metrics, node, tool and model metrics, durations and     *)
(* traces, the gauges that workers keep of the queue in their registries;  *)
(* get_run and the event stream are in RunDetails.                         *)
(***************************************************************************)
EXTENDS Naturals, Sequences, FiniteSets

CONSTANTS
  Runs, None,
  Calls,        \* the calls that may be in progress at once
  Isolated,     \* AGENT_HARNESS_PROCESS_ISOLATION, on by default
  MaxRepeats,   \* bound: cancel requests per run that come when it is decided
  MaxTroubles   \* bound: workers that die and requests that fail or are lost, in all

ASSUME ControlPlaneAssumption ==
  /\ None \notin Runs
  /\ Isolated \in BOOLEAN
  /\ MaxRepeats \in Nat /\ MaxTroubles \in Nat

VARIABLES
  phase,     \* phase[r]: absent, queued, active (running or cancelling) or decided
  born,      \* the runs in the order of created_at
  call,      \* call[c]: the call in place c, see CallState, or None
  gauge,     \* the API's queue_depth and active_runs, and the run whose age is
             \* its queue_oldest_age_seconds
  created,   \* the API's runs_created_total
  counted,   \* counted[r]: what all services added to run_terminal_total for r
  owed,      \* runs a worker has decided and not counted yet
  repeats,   \* repeats[r]: cancel requests that found r decided already
  troubles   \* workers that died and requests that failed or were lost

planeVars == <<phase, born, call, gauge, created, counted, owed, repeats, troubles>>

Decided == {"completed", "failed", "cancelled"}

\* list_runs: the newest run first.
Listed == [run : Runs, phase : {"queued", "active"} \union Decided]
Listing == [i \in 1 .. Len(born) |->
              LET r == born[Len(born) + 1 - i] IN [run |-> r, phase |-> phase[r]]]

\* status is what the first transaction returned, seen what the second did.
\* glance: a list nobody waits for any more.
CallState == [op     : {"create", "list", "cancel", "glance"},
              run    : Runs \union {None},
              status : {None, "queued", "active"} \union Decided,
              step   : {"count", "list", "depth", "active", "oldest", "end", "answer"},
              seen   : Seq(Listed)]

\* A place that is free is not taken for a call.
ASSUME CallAssumption == None \notin CallState

PlaneInit ==
  /\ phase = [r \in Runs |-> "absent"]
  /\ born = <<>>
  /\ call = [c \in Calls |-> None]
  /\ gauge = [depth |-> 0, active |-> 0, oldest |-> None]
  /\ created = 0
  /\ counted = [r \in Runs |-> 0]
  /\ owed = {}
  /\ repeats = [r \in Runs |-> 0]
  /\ troubles = 0

Begin(c, op, r, status, step, seen) ==
  /\ call[c] = None
  /\ call' = [call EXCEPT ![c] =
       [op |-> op, run |-> r, status |-> status, step |-> step, seen |-> seen]]

At(c, step) == call[c] # None /\ call[c].step = step
Goto(c, step) == call' = [call EXCEPT ![c].step = step]
Finish(c) == At(c, "answer") /\ call' = [call EXCEPT ![c] = None]

Moves(r, from, to) == phase[r] \in from /\ phase' = [phase EXCEPT ![r] = to]

-----------------------------------------------------------------------------
(* The endpoints, one action per store transaction or group of metrics *)

\* create_run: the run is queued.
CreateRun(c, r) ==
  /\ Moves(r, {"absent"}, "queued")
  /\ born' = Append(born, r)
  /\ Begin(c, "create", r, "queued", "count", <<>>)
  /\ UNCHANGED <<gauge, created, counted, owed, repeats, troubles>>

\* record_run_created.
RecordCreated(c) ==
  /\ At(c, "count")
  /\ created' = created + 1
  /\ Goto(c, "list")
  /\ UNCHANGED <<phase, born, gauge, counted, owed, repeats, troubles>>

\* cancel_run: it decides a queued run, asks for an active one, and returns a
\* decided one as it is.
CancelRun(c, r) ==
  /\ \/ Moves(r, {"queued"}, "cancelled") /\ UNCHANGED repeats
     \/ Moves(r, {"active"}, "active") /\ UNCHANGED repeats
     \/ /\ repeats[r] < MaxRepeats
        /\ Moves(r, Decided, phase[r])
        /\ repeats' = [repeats EXCEPT ![r] = @ + 1]
  /\ Begin(c, "cancel", r, phase'[r], "list", <<>>)
  /\ UNCHANGED <<born, gauge, created, counted, owed, troubles>>

\* list_runs, as an endpoint of its own and as the second half of the others.
ListRuns(c) ==
  /\ Begin(c, "list", None, None, "depth", Listing)
  /\ UNCHANGED <<phase, born, gauge, created, counted, owed, repeats, troubles>>
ListAgain(c) ==
  /\ At(c, "list")
  /\ call' = [call EXCEPT ![c].step = "depth", ![c].seen = Listing]
  /\ UNCHANGED <<phase, born, gauge, created, counted, owed, repeats, troubles>>

Seen(c, p) == {i \in DOMAIN call[c].seen : call[c].seen[i].phase = p}
OldestSeen(c) ==
  LET queued == Seen(c, "queued") IN
  IF queued = {} THEN None
  ELSE call[c].seen[CHOOSE i \in queued : \A j \in queued : j <= i].run

\* refresh_queue sets one gauge after the other, from the list it was given.
SetDepth(c) ==
  /\ At(c, "depth")
  /\ gauge' = [gauge EXCEPT !.depth = Cardinality(Seen(c, "queued"))]
  /\ Goto(c, "active")
  /\ UNCHANGED <<phase, born, created, counted, owed, repeats, troubles>>

\* Mutant: a cancel request for an active run is counted as its end.
AfterGaugesCountsRequests(c) ==
  LET k == call[c] IN
  call' = [call EXCEPT ![c] =
    CASE k.op = "cancel" -> [k EXCEPT !.step = "end", !.seen = <<>>]
      [] k.op = "glance" -> None
      [] OTHER -> [k EXCEPT !.step = "answer", !.seen = IF k.op = "list" THEN @ ELSE <<>>]]

SetActive(c) ==
  /\ At(c, "active")
  /\ gauge' = [gauge EXCEPT !.active = Cardinality(Seen(c, "active"))]
  /\ Goto(c, "oldest")
  /\ UNCHANGED <<phase, born, created, counted, owed, repeats, troubles>>

\* Only list_runs answers with the list.  An answer nobody here looks at, to a
\* cancel request or to a page that was left, has no step of its own.
AfterGauges(c) ==
  LET k == call[c] IN
  call' = [call EXCEPT ![c] =
    CASE k.op = "cancel" /\ k.status \in Decided -> [k EXCEPT !.step = "end", !.seen = <<>>]
      [] k.op = "cancel" /\ k.status \notin Decided -> None
      [] k.op = "glance" -> None
      [] OTHER -> [k EXCEPT !.step = "answer", !.seen = IF k.op = "list" THEN @ ELSE <<>>]]

\* Mutant: the early return of refresh_queue comes before the age is reset.
SetOldestKeepsAge(c) ==
  /\ At(c, "oldest")
  /\ gauge' = [gauge EXCEPT !.oldest = IF Seen(c, "queued") = {} THEN @ ELSE OldestSeen(c)]
  /\ AfterGauges(c)
  /\ UNCHANGED <<phase, born, created, counted, owed, repeats, troubles>>

\* The age of the oldest queued run counts from its created_at, whenever it is
\* scheduled and however often it was tried.
SetOldest(c) ==
  /\ At(c, "oldest")
  /\ gauge' = [gauge EXCEPT !.oldest = OldestSeen(c)]
  /\ AfterGauges(c)
  /\ UNCHANGED <<phase, born, created, counted, owed, repeats, troubles>>

CountEnd(r) == counted' = [counted EXCEPT ![r] = @ + 1]

\* record_run_terminal of the cancel endpoint, for the status it was given.
RecordEnded(c) ==
  /\ At(c, "end")
  /\ CountEnd(call[c].run)
  /\ call' = [call EXCEPT ![c] = None]
  /\ UNCHANGED <<phase, born, gauge, created, owed, repeats, troubles>>

Serve(c) ==
  \/ RecordCreated(c) \/ ListAgain(c) \/ RecordEnded(c)
  \/ SetDepth(c) \/ SetActive(c) \/ SetOldest(c)

\* create_run or cancel_run raises though it committed, or the list_runs behind it
\* raises: the client gets a 500, and what the endpoint had still to count or to
\* refresh is left out.
ServeRaises(c) ==
  /\ call[c] # None /\ call[c].step \in {"count", "list"}
  /\ troubles < MaxTroubles
  /\ troubles' = troubles + 1
  /\ call' = [call EXCEPT ![c] = None]
  /\ UNCHANGED <<phase, born, gauge, created, counted, owed, repeats>>

\* The answer is with the client.
Answer(c) ==
  /\ Finish(c)
  /\ UNCHANGED <<phase, born, gauge, created, counted, owed, repeats, troubles>>

-----------------------------------------------------------------------------
(* The workers *)

\* A claim, or a retry.
Take(r) ==
  /\ Moves(r, {"queued"}, "active") \/ Moves(r, {"active"}, "queued")
  /\ UNCHANGED <<born, call, gauge, created, counted, owed, repeats, troubles>>

\* mark_run_completed, mark_run_failed or mark_run_cancelled.  The executor and
\* run_once count what they decide.  IsolatedExecutor does not, and the executor
\* of its child counts in a registry that nobody reads: under isolation only
\* failures because of a store call that raised are run_once's.
Settle(r) ==
  /\ \E status \in Decided :
       /\ Moves(r, {"active"}, status)
       /\ \E counts \in BOOLEAN :
            /\ ~Isolated => counts
            /\ Isolated /\ counts => status = "failed"
            /\ owed' = IF counts THEN owed \union {r} ELSE owed
  /\ UNCHANGED <<born, call, gauge, created, counted, repeats, troubles>>

\* record_run_terminal of the executor or of run_once.
RecordTerminal(r) ==
  /\ r \in owed
  /\ owed' = owed \ {r}
  /\ CountEnd(r)
  /\ UNCHANGED <<phase, born, call, gauge, created, repeats, troubles>>

WorkerDies(r) ==
  /\ r \in owed /\ troubles < MaxTroubles
  /\ owed' = owed \ {r}
  /\ troubles' = troubles + 1
  /\ UNCHANGED <<phase, born, call, gauge, created, counted, repeats>>

Work(r) == Take(r) \/ Settle(r) \/ RecordTerminal(r) \/ WorkerDies(r)

-----------------------------------------------------------------------------
With(phases) == {r \in Runs : phase[r] \in phases}

\* The oldest queued run.
Oldest ==
  LET queued == {i \in DOMAIN born : phase[born[i]] = "queued"} IN
  IF queued = {} THEN None ELSE born[CHOOSE i \in queued : \A j \in queued : i <= j]

GaugesAreRight ==
  gauge = [depth  |-> Cardinality(With({"queued"})),
           active |-> Cardinality(With({"active"})),
           oldest |-> Oldest]

\* The counters tell what happened: every run created is counted once; every
\* decided run is counted once, by the endpoint or the worker that decided it, and
\* once more for every cancel request that came too late.  Nothing is counted that
\* did not happen, and nothing is left out but for a worker that died or a request
\* that failed, one count for each, and by a worker that isolates its runs.
CountsTell ==
  /\ created <= Len(born)
  /\ Len(born) <= created + troubles
  /\ \A r \in With(Decided) :
       LET due == 1 + repeats[r] IN
       /\ counted[r] <= due
       /\ due <= counted[r] + troubles \/ Isolated

\* They come to tell it, and nothing that is late makes them wrong again.
CountsAreRight == <>[]CountsTell
=============================================================================
