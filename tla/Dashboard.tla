------------------------------ MODULE Dashboard ------------------------------
(***************************************************************************)
(* The dashboard (dashboard-page.tsx) before the API: it asks for the list *)
(* of runs every four seconds, whether or not the last answer has come,    *)
(* submits runs, and shows what came last.  Other clients call the same    *)
(* endpoints, and workers decide the runs meanwhile.                       *)
(*                                                                         *)
(* Left out: the form and its validation, and the texts of the page.       *)
(***************************************************************************)
EXTENDS ControlPlane

VARIABLE shown   \* the runs in the state of the page

vars == <<planeVars, shown>>

DashboardInit == PlaneInit /\ shown = <<>>

\* loadRuns, on mounting and then at every interval.
Poll(c) ==
  /\ ListRuns(c)
  /\ UNCHANGED shown

\* Mutant: the new list is put before the old one.
ShowRunsAdds(c) ==
  /\ Answer(c) /\ call[c].op = "list"
  /\ shown' = call[c].seen \o shown

\* setRuns(nextRuns): the answer that comes last wins, not the one asked for last.
ShowRuns(c) ==
  /\ Answer(c) /\ call[c].op = "list"
  /\ shown' = call[c].seen

\* handleSubmit; the button is disabled while a request is under way.
SubmitRun(c, r) ==
  /\ {d \in Calls : call[d] # None /\ call[d].op = "create"} = {}
  /\ CreateRun(c, r)
  /\ UNCHANGED shown

\* setRuns([createdRun, ...currentRuns]): a poll may have listed it already.
ShowCreated(c) ==
  /\ Answer(c) /\ call[c].op = "create"
  /\ shown' = <<[run |-> call[c].run, phase |-> call[c].status]>> \o shown

\* The page is left, for the page of the run that was created for one, and
\* visited again: it starts anew, and what is under way it does not hear of.
Visit ==
  /\ shown # <<>>
  /\ shown' = <<>>
  /\ call' = [c \in Calls |->
       IF call[c] = None \/ call[c].op = "cancel" THEN call[c]
       ELSE IF call[c].step = "answer" THEN None
       ELSE [call[c] EXCEPT !.op = "glance", !.run = None, !.status = None]]
  /\ UNCHANGED <<phase, born, gauge, created, counted, owed, repeats, troubles>>

\* The request fails: the page keeps what it shows and tells the error.
LoseAnswer(c) ==
  /\ troubles < MaxTroubles
  /\ Finish(c)
  /\ troubles' = troubles + 1
  /\ UNCHANGED <<phase, born, gauge, created, counted, owed, repeats, shown>>

\* An answer arrives.
Deliver(c) == ShowRuns(c) \/ ShowCreated(c)

\* The steps of the API and of the workers leave the page alone.
Behind(step) == step /\ UNCHANGED shown

DashboardNext ==
  \/ \E c \in Calls : Poll(c) \/ Behind(Serve(c)) \/ Behind(ServeRaises(c))
                      \/ Deliver(c) \/ LoseAnswer(c)
  \/ \E c \in Calls, r \in Runs : SubmitRun(c, r) \/ Behind(CancelRun(c, r))
  \/ \E r \in Runs : Behind(Work(r))
  \/ Visit

DashboardSpec == DashboardInit /\ [][DashboardNext]_vars

\* The API serves what it has begun, answers arrive or are lost, the interval
\* fires, and a worker that does not die counts what it decided.
FairDashboardSpec ==
  /\ DashboardSpec
  /\ \A c \in Calls : WF_vars(Behind(Serve(c))) /\ WF_vars(Deliver(c))
  /\ SF_vars(\E c \in Calls : Poll(c))
  /\ \A r \in Runs : WF_vars(Behind(RecordTerminal(r)))

-----------------------------------------------------------------------------
\* summarizeRuns, as far as the success rate and the number of runs go.
Summary == [terminalRuns  |-> Cardinality({i \in DOMAIN shown : shown[i].phase \in Decided}),
            completedRuns |-> Cardinality({i \in DOMAIN shown : shown[i].phase = "completed"}),
            totalRuns     |-> Len(shown)]

\* The success rate is that of real runs, each counted once: no run is shown as
\* decided twice, or decided otherwise than in the store, though a run may be
\* listed twice, when a poll saw it before the form's answer came, and though
\* answers overtake one another.
SuccessRateIsReal ==
  /\ Summary.terminalRuns <= Cardinality(With(Decided))
  /\ Summary.completedRuns <= Cardinality(With({"completed"}))
  /\ Summary.totalRuns <= Len(born) + 1
  /\ \A i \in DOMAIN shown : shown[i].phase \in Decided => shown[i].phase = phase[shown[i].run]

\* From some time on the workers and the clients leave the runs as they are, and
\* the page stays open.
AtRest == <>[][~Visit]_vars /\ <>[][FALSE]_phase

\* Then the dashboard comes to show the runs as they are, whatever old answers
\* were still under way; and while somebody looks at it the API's gauges come to
\* tell the truth, though two refreshes may leave one gauge from each list.
ViewsSettle == AtRest => <>[](shown = Listing /\ GaugesAreRight)
=============================================================================
