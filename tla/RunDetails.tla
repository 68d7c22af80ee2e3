----------------------------- MODULE RunDetails -----------------------------
(***************************************************************************)
(* A run followed in the browser: the details page (run-details-page.tsx)  *)
(* loads the run and its events, opens an EventSource on the API's stream  *)
(* of events (stream_run_events), asks for a new snapshot of the run when  *)
(* certain events arrive, and opens the stream again after an error.  The  *)
(* run itself moves by transactions of the store.                          *)
(*                                                                         *)
(* Abstracted: what an event or a run says beyond its type and status; the *)
(* proxy, which hands requests and bytes through; React's batching: an     *)
(* effect happens with the state change that triggers it.                  *)
(***************************************************************************)
EXTENDS RunStore, SequencesExt

CONSTANTS
  Shown,      \* the run the page shows
  MaxEvents,  \* bound: reports and retries stop when the log is this long
  MaxClicks,  \* bound: uses of the buttons "Cancel run" and "Refresh snapshot"
  MaxOpen,    \* bound: snapshot requests open at once, the next event waits
  MaxTroubles \* bound: connections that break, requests that fail, answers that
              \* overtake an earlier one, and clicks while the page is loading

ASSUME DetailsAssumption ==
  /\ Shown \in Runs
  /\ None \notin RunStatus
  /\ MaxEvents \in Nat /\ MaxClicks \in Nat /\ MaxTroubles \in Nat
  /\ MaxOpen \in Nat \ {0}

VARIABLES
  loading,  \* loadRunDetail: what each of its two requests has read, None before,
            \* and whether it waits for them, has shown them or has failed
  page,     \* the page's React state, see PageState
  seen,     \* the sequence numbers of the events in the page's list
  conn,     \* the generator behind the page's open EventSource, see Connection
  wire,     \* the events on their way from it to the page
  asking,   \* snapshot requests the server has not read for
  answers,  \* the statuses in responses on their way to the page
  early,    \* "Refresh snapshot" was used while the page was loading
  clicks,
  drops,    \* connections that broke
  lost      \* requests that failed and answers that were overtaken

detailsVars == <<runs, log, order, loading, page, seen, conn, wire, asking, answers,
                 early, clicks, drops, lost>>

\* status: the run of the page, None until loaded; last: lastSequenceRef;
\* timer: reconnectTimerRef is set.
PageState == [status : {None} \union RunStatus,
              last   : Nat,
              stream : {"idle", "connecting", "live", "reconnecting", "closed"},
              timer  : BOOLEAN]

Connection == [pc : {"none", "list", "check", "ended"}, cursor : Nat]
NoConn == [pc |-> "none", cursor |-> 0]

Row1 == [NoRow EXCEPT !.status = "queued", !.max_attempts = MaxAttempts]

\* The page is opened when the run has been submitted.
DetailsInit ==
  /\ runs = [r \in Runs |-> IF r = Shown THEN Row1 ELSE NoRow]
  /\ log = [r \in Runs |-> IF r = Shown THEN <<"run.created", "run.queued">> ELSE <<>>]
  /\ order = <<Shown>>
  /\ loading = [run |-> None, events |-> None, pc |-> "waits"]
  /\ page = [status |-> None, last |-> 0, stream |-> "idle", timer |-> FALSE]
  /\ seen = {}
  /\ conn = NoConn
  /\ wire = <<>>
  /\ asking = 0
  /\ answers = <<>>
  /\ early = FALSE
  /\ clicks = 0 /\ drops = 0 /\ lost = 0

Status == runs[Shown].status
Open == asking + Len(answers)
Troubles == drops + lost + (IF early THEN 1 ELSE 0)
Trouble == Troubles < MaxTroubles
Events == log[Shown]

-----------------------------------------------------------------------------
(* The run *)

RunMoves ==
  /\ \/ \E w \in Workers : ClaimNextRun(Shown, w, {})
     \/ /\ Status \in Active /\ Len(Events) < MaxEvents
        /\ \/ \E type \in {"workflow.started", "workflow.completed"} : AppendEvent(Shown, type)
           \/ /\ runs[Shown].attempt_count < runs[Shown].max_attempts
              /\ RequeueRun(Shown, 0)
     \/ /\ Status \in Active
        /\ (MarkRunCompleted(Shown) \/ MarkRunFailed(Shown))
     \/ /\ Status = "cancelling"
        /\ MarkRunCancelled(Shown)
  /\ UNCHANGED <<loading, page, seen, conn, wire, asking, answers, early, clicks, drops, lost>>

-----------------------------------------------------------------------------
(* The effects of the page *)

\* Mutant: since_sequence taken for the first event to send.
FollowFromNext(status, last) ==
  /\ conn' = IF status \in Terminal THEN NoConn ELSE [pc |-> "list", cursor |-> last + 1]
  /\ wire' = <<>>

\* The stream effect, after a change of run.status or streamAttempt: its cleanup
\* closes the EventSource and clears the timer; a run that is not over is
\* followed from the last event received.
Follow(status, last) ==
  IF status \in Terminal
    THEN conn' = NoConn /\ wire' = <<>>
    ELSE conn' = [pc |-> "list", cursor |-> last] /\ wire' = <<>>

\* setRun and setStreamState; stream is the state of the stream if the run is not
\* over.  The stream effect runs if the status is a new one.
ShowRun(status, last, stream) ==
  IF status # page.status
    THEN /\ Follow(status, last)
         /\ page' = [status |-> status, last |-> last, timer |-> FALSE,
                     stream |-> IF status \in Terminal THEN "closed" ELSE "connecting"]
    ELSE /\ page' = [page EXCEPT !.last = last,
                       !.stream = IF status \in Terminal THEN "closed" ELSE stream]
         /\ UNCHANGED <<conn, wire>>

-----------------------------------------------------------------------------
(* loadRunDetail: two requests at once *)

ReadRun ==
  /\ loading.pc = "waits" /\ loading.run = None
  /\ loading' = [loading EXCEPT !.run = Status]
  /\ UNCHANGED <<runs, log, order, page, seen, conn, wire, asking, answers, early, clicks, drops, lost>>

\* The stream with follow = false.
ReadEvents ==
  /\ loading.pc = "waits" /\ loading.events = None
  /\ loading' = [loading EXCEPT !.events = Len(Events)]
  /\ UNCHANGED <<runs, log, order, page, seen, conn, wire, asking, answers, early, clicks, drops, lost>>

\* Both answers are shown, over whatever the page has by then.
Loaded ==
  /\ loading.pc = "waits" /\ loading.run # None /\ loading.events # None
  /\ loading' = [loading EXCEPT !.pc = "shown"]
  /\ seen' = 1 .. loading.events
  /\ ShowRun(loading.run, loading.events, "connecting")
  /\ UNCHANGED <<runs, log, order, asking, answers, early, clicks, drops, lost>>

\* One of them fails: the page says so and shows no run until it is refreshed.
LoadFails ==
  /\ loading.pc = "waits" /\ Trouble
  /\ loading' = [loading EXCEPT !.pc = "failed"]
  /\ lost' = lost + 1
  /\ UNCHANGED <<runs, log, order, page, seen, conn, wire, asking, answers, early, clicks, drops>>

-----------------------------------------------------------------------------
(* stream_run_events *)

\* list_events and the events of its result ...
StreamLists ==
  /\ conn.pc = "list"
  /\ wire' = wire \o [i \in 1 .. Len(Events) - conn.cursor |-> conn.cursor + i]
  /\ conn' = [pc |-> "check", cursor |-> Len(Events)]
  /\ UNCHANGED <<runs, log, order, loading, page, seen, asking, answers, early, clicks, drops, lost>>

\* ... and then get_run: the stream ends if the run is over by now.
StreamChecks ==
  /\ conn.pc = "check"
  /\ conn' = [conn EXCEPT !.pc = IF Status \in Terminal THEN "ended" ELSE "list"]
  /\ UNCHANGED <<runs, log, order, loading, page, seen, wire, asking, answers, early, clicks, drops, lost>>

-----------------------------------------------------------------------------
(* The page *)

TerminalEvents == {"run.completed", "run.failed", "run.cancelled"}
\* Mutant: the end of a run is no reason to ask for it.
AsksUntilOver == EventType \ ({"workflow.started"} \union TerminalEvents)

\* The event types that start with "run.", and workflow.completed.
Asks == EventType \ {"workflow.started"}

\* Mutant: workflow.completed taken for the end of the run.
ReceiveClosesEarly ==
  /\ wire # <<>> /\ Open < MaxOpen
  /\ LET n == Head(wire) IN
       /\ seen' = seen \union {n}
       /\ asking' = IF Events[n] \in Asks THEN asking + 1 ELSE asking
       /\ page' = [page EXCEPT !.last = IF n > @ THEN n ELSE @,
                     !.stream = IF Events[n] \in TerminalEvents \union {"workflow.completed"}
                                  THEN "closed" ELSE "live"]
  /\ wire' = Tail(wire)
  /\ UNCHANGED <<runs, log, order, loading, conn, answers, early, clicks, drops, lost>>

\* onRunEvent and handleIncomingEvent
Receive ==
  /\ wire # <<>> /\ Open < MaxOpen
  /\ LET n == Head(wire) IN
       /\ seen' = seen \union {n}
       /\ asking' = IF Events[n] \in Asks THEN asking + 1 ELSE asking
       /\ page' = [page EXCEPT !.last = IF n > @ THEN n ELSE @,
                     !.stream = IF Events[n] \in TerminalEvents THEN "closed" ELSE "live"]
  /\ wire' = Tail(wire)
  /\ UNCHANGED <<runs, log, order, loading, conn, answers, early, clicks, drops, lost>>

\* Mutant: the stream is closed and nothing opens it again.
StreamErrorIsTheEnd ==
  /\ page' = [page EXCEPT !.stream = "reconnecting"]
  /\ conn' = NoConn
  /\ wire' = <<>>
  /\ UNCHANGED <<runs, log, order, loading, seen, asking, answers, early, clicks, lost>>

\* onerror: after the end of the stream, or because the connection breaks.
StreamError ==
  /\ page' = [page EXCEPT !.stream = "reconnecting", !.timer = TRUE]
  /\ conn' = NoConn
  /\ wire' = <<>>
  /\ UNCHANGED <<runs, log, order, loading, seen, asking, answers, early, clicks, lost>>

StreamEnds == conn.pc = "ended" /\ wire = <<>> /\ StreamError /\ UNCHANGED drops
StreamDrops == conn.pc # "none" /\ Trouble /\ StreamError /\ drops' = drops + 1

\* The timer fires: a new streamAttempt.
Reconnect ==
  /\ page.timer
  /\ Follow(page.status, page.last)
  /\ page' = [page EXCEPT !.timer = FALSE,
                !.stream = IF page.status \in Terminal THEN @ ELSE "connecting"]
  /\ UNCHANGED <<runs, log, order, loading, seen, asking, answers, early, clicks, drops, lost>>

\* The API reads the run for a refreshRunSnapshot.
ReadSnapshot ==
  /\ asking > 0
  /\ asking' = asking - 1
  /\ answers' = Append(answers, Status)
  /\ UNCHANGED <<runs, log, order, loading, page, seen, conn, wire, early, clicks, drops, lost>>

\* Response i arrives; nothing keeps responses of different requests in order.
Answer ==
  /\ \E i \in DOMAIN answers :
       /\ \/ i = 1 /\ UNCHANGED lost
          \/ i > 1 /\ Trouble /\ lost' = lost + 1
       /\ ShowRun(answers[i], page.last, page.stream)
       /\ answers' = RemoveAt(answers, i)
  /\ UNCHANGED <<runs, log, order, loading, seen, asking, early, clicks, drops>>

\* A request fails on its way: a snapshot is given up without a word.
LoseAnswer ==
  /\ Trouble
  /\ lost' = lost + 1
  /\ \E i \in DOMAIN answers : answers' = RemoveAt(answers, i)
  /\ UNCHANGED <<runs, log, order, loading, page, seen, conn, wire, asking, early, clicks, drops>>

\* handleCancel, and cancel_run at the API; a run that is over is returned.
CancelClick ==
  /\ page.status \notin {None} \union Terminal
  /\ clicks < MaxClicks /\ Open < MaxOpen
  /\ clicks' = clicks + 1
  /\ IF Status \in Terminal THEN UNCHANGED storeVars ELSE CancelRun(Shown)
  /\ answers' = Append(answers, Status')
  /\ UNCHANGED <<loading, page, seen, conn, wire, asking, early, drops, lost>>

RefreshClick ==
  /\ Open < MaxOpen
  /\ \/ loading.pc # "waits" /\ UNCHANGED early
     \/ loading.pc = "waits" /\ Trouble /\ early' = TRUE
  /\ clicks < MaxClicks
  /\ clicks' = clicks + 1
  /\ asking' = asking + 1
  /\ UNCHANGED <<runs, log, order, loading, page, seen, conn, wire, answers, drops, lost>>

DetailsNext ==
  \/ RunMoves
  \/ ReadRun \/ ReadEvents \/ Loaded \/ LoadFails
  \/ StreamLists \/ StreamChecks
  \/ Receive \/ StreamEnds \/ StreamDrops \/ Reconnect
  \/ ReadSnapshot \/ Answer \/ LoseAnswer
  \/ CancelClick \/ RefreshClick

DetailsSpec == DetailsInit /\ [][DetailsNext]_detailsVars

\* The run gets on, the API serves what it is asked, and the page's callbacks
\* run; nobody has to click.
DetailsFairness ==
  /\ WF_detailsVars(RunMoves)
  /\ WF_detailsVars(ReadRun) /\ WF_detailsVars(ReadEvents) /\ WF_detailsVars(Loaded)
  /\ WF_detailsVars(StreamLists) /\ WF_detailsVars(StreamChecks)
  /\ WF_detailsVars(Receive) /\ WF_detailsVars(StreamEnds) /\ WF_detailsVars(Reconnect)
  /\ WF_detailsVars(ReadSnapshot) /\ WF_detailsVars(Answer)

FairDetailsSpec == DetailsSpec /\ DetailsFairness

-----------------------------------------------------------------------------
(* Correctness *)

DetailsTypeOK ==
  /\ StoreTypeOK
  /\ loading \in [run : {None} \union RunStatus, events : {None} \union Nat,
                  pc : {"waits", "shown", "failed"}]
  /\ page \in PageState
  /\ seen \subseteq 1 .. Len(Events)
  /\ conn \in Connection
  /\ wire \in Seq(1 .. Len(Events))
  /\ asking \in Nat
  /\ answers \in Seq(RunStatus)
  /\ early \in BOOLEAN
  /\ clicks \in 0 .. MaxClicks
  /\ drops \in Nat /\ lost \in Nat /\ Troubles <= MaxTroubles

\* However often the stream broke and was opened again, the page's list has no
\* gap: every event up to the last one, which is where it goes on.  It would have
\* one if the button had started the stream before the page was loaded, because
\* the load then overwrites what the stream brought.
\* And what a connection has on its way begins where the list ends.
NoEventIsSkipped ==
  /\ DetailsTypeOK
  /\ ~early => /\ seen = 1 .. page.last
               /\ \A i \in DOMAIN wire : wire[i] = page.last + i
               /\ conn.pc # "none" => conn.cursor = page.last + Len(wire)

\* The page shows an outcome only if it is the run's outcome, and says that the
\* stream is closed only if the run is over: nothing it missed can still come.
PageIsNotAhead ==
  /\ page.status \in Terminal => page.status = Status
  /\ page.stream = "closed" => Status \in Terminal

\* In the end a page that was loaded and does not show the outcome has every
\* event: the stream may end before the last ones, but the page comes back for them.
EventsArrive ==
  <>[](\/ seen = DOMAIN Events
       \/ page.status \in Terminal \/ loading.pc = "failed" \/ early)

\* When the stream brought the outcome the page will show it and keep it: the
\* snapshot it asks for is later than the event.  It needs answers that are
\* neither lost nor overtaken.
OutcomeIsShown ==
  (page.stream = "closed" /\ conn.pc # "none") ~>
    ([](page.status \in Terminal) \/ lost > 0 \/ early)

=============================================================================
