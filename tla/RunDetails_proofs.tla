-------------------------- MODULE RunDetails_proofs --------------------------
(***************************************************************************)
(* What the details page shows, for every number of attempts, events,      *)
(* clicks, snapshots, broken connections and lost or overtaken answers:    *)
(* its list of events has no gap, and an outcome or a closed stream on the *)
(* page is the run's.                                                      *)
(***************************************************************************)
EXTENDS RunDetails, RunStore_proofs, SequenceTheorems

\* A status that was read some time ago: an outcome is still the outcome.
StillTrue(status) == status \in Terminal => status = Status

\* The log has an outcome only when the run is over.
OutcomeIsLate == \A i \in DOMAIN Events : Events[i] \in TerminalEvents => Status \in Terminal

RunOK == StoreInv /\ OutcomeIsLate /\ Status \in RunStatus

LoadingOK ==
  /\ loading \in [run : {None} \union RunStatus, events : {None} \union Nat,
                  pc : {"waits", "shown", "failed"}]
  /\ StillTrue(loading.run)
  /\ loading.events # None => loading.events <= Len(Events)

PageOK ==
  /\ page \in PageState /\ page.last <= Len(Events)
  /\ seen \subseteq 1 .. Len(Events)
  /\ StillTrue(page.status)
  /\ page.stream = "closed" => Status \in Terminal

StreamOK ==
  /\ conn \in Connection /\ conn.cursor <= Len(Events)
  /\ wire \in Seq(1 .. Len(Events))

SnapshotsOK ==
  /\ asking \in Nat
  /\ answers \in Seq(RunStatus) /\ \A i \in DOMAIN answers : StillTrue(answers[i])

CountsOK ==
  /\ early \in BOOLEAN
  /\ clicks \in 0 .. MaxClicks
  /\ drops \in Nat /\ lost \in Nat /\ Troubles <= MaxTroubles

\* The list ends where what is on its way begins, and a page that waits for its load
\* has nothing yet.
GapFree ==
  /\ seen = 1 .. page.last
  /\ \A i \in DOMAIN wire : wire[i] = page.last + i
  /\ conn.pc # "none" => conn.cursor = page.last + Len(wire)
Untouched ==
  /\ page.last = 0 /\ page.status = None /\ ~page.timer
  /\ conn.pc = "none" /\ wire = <<>>
  /\ asking = 0 /\ answers = <<>>

DetailsInv ==
  /\ RunOK /\ LoadingOK /\ PageOK /\ StreamOK /\ SnapshotsOK /\ CountsOK
  /\ ~early => GapFree /\ (loading.pc = "waits" => Untouched)

USE RunStoreAssumption, DetailsAssumption

-----------------------------------------------------------------------------
(* The run *)

\* The log grows and an outcome stays.
RunGoesOn ==
  /\ RunOK'
  /\ Len(Events) <= Len(Events)'
  /\ Status \in Terminal => Status' = Status

LEMMA EventsType ==
  ASSUME StoreInv
  PROVE  Events \in Seq(EventType) /\ Len(Events) \in Nat /\ DOMAIN Events = 1 .. Len(Events)
<1>1. log[Shown] \in Seq(EventType)
  BY DEF StoreInv
<1> QED BY <1>1, LenProperties DEF Events

LEMMA OneEventMore ==
  ASSUME RunOK, StoreInv', NEW type, InsertEvent(Shown, type), type \in EventType,
         Status \notin Terminal, Status' \in RunStatus,
         type \in TerminalEvents => Status' \in Terminal
  PROVE  RunGoesOn
<1>1. Events' = Append(Events, type)
  BY DEF InsertEvent, Events, RunOK, StoreInv
<1>2. /\ Events \in Seq(EventType) /\ Len(Events) \in Nat /\ Len(Events)' = Len(Events) + 1
      /\ DOMAIN Events' = 1 .. Len(Events) + 1 /\ Events'[Len(Events) + 1] = type
      /\ \A i \in 1 .. Len(Events) : Events'[i] = Events[i] /\ Events[i] \notin TerminalEvents
  BY <1>1, EventsType, Appended DEF RunOK, OutcomeIsLate
<1>3. OutcomeIsLate'
  BY <1>2 DEF OutcomeIsLate
<1> QED BY <1>2, <1>3 DEF RunGoesOn, RunOK

LEMMA CancelGoesOn ==
  ASSUME RunOK, CancelRun(Shown)
  PROVE  RunGoesOn
<1>1. StoreInv /\ StoreInv'
  BY CancelRunInv DEF RunOK
<1>2. \/ Status = "queued" /\ Status' = "cancelled"
      \/ Status \in Active /\ Status' = "cancelling"
  BY <1>1, CancelRunRow DEF Status
<1>3. PICK type \in {"run.cancelled", "run.cancel_requested"} :
        /\ InsertEvent(Shown, type)
        /\ Status \in Active => type = "run.cancel_requested"
  BY DEF CancelRun, CancelQueuedRun, CancelActiveRun, Active, Status
<1>4. /\ type \in EventType /\ Status \notin Terminal /\ Status' \in RunStatus
      /\ type \in TerminalEvents => Status' \in Terminal
  BY <1>2, <1>3 DEF EventType, LifecycleEvents, Active, Terminal, RunStatus, TerminalEvents
<1> QED BY <1>1, <1>3, <1>4, OneEventMore

LEMMA RunMovesOn ==
  ASSUME RunOK, RunMoves
  PROVE  RunGoesOn
<1>1. StoreInv /\ Status \in RunStatus
  BY DEF RunOK
<1>2. ASSUME NEW w \in Workers, ClaimNextRun(Shown, w, {}) PROVE RunGoesOn
  <2>1. InsertEvent(Shown, "run.started") /\ StoreInv'
    BY <1>1, <1>2, ClaimNextRunInv DEF ClaimNextRun
  <2>2. Status \notin Terminal /\ Status' \in RunStatus
    BY <1>1, <1>2, ClaimNextRunRow DEF Status, Active, Terminal, RunStatus
  <2> QED BY <2>1, <2>2, OneEventMore DEF EventType, LifecycleEvents, TerminalEvents
<1>3. ASSUME NEW type \in {"workflow.started", "workflow.completed"}, AppendEvent(Shown, type),
             Status \in Active
      PROVE  RunGoesOn
  <2>1. type \in ReportEvents /\ type \in EventType /\ type \notin TerminalEvents
    BY DEF ReportEvents, EventType, TerminalEvents
  <2>2. InsertEvent(Shown, type) /\ StoreInv'
    BY <1>1, <1>3, <2>1, AppendEventInv DEF AppendEvent
  <2>3. Status \notin Terminal /\ Status' \in RunStatus
    BY <1>1, <1>3 DEF Active, Terminal, AppendEvent, Status
  <2> QED BY <2>1, <2>2, <2>3, OneEventMore
<1>4. ASSUME RequeueRun(Shown, 0), Status \in Active PROVE RunGoesOn
  <2>1. InsertEvent(Shown, "run.retry_scheduled") /\ StoreInv'
    <3>1. 0 \in 0 .. MaxDelay
      OBVIOUS
    <3> QED BY <1>1, <1>4, <3>1, RequeueRunInv DEF RequeueRun
  <2>2. Status \notin Terminal /\ Status' \in RunStatus
    BY <1>1, <1>4, RequeueRunRow DEF Active, Terminal, RunStatus, Status
  <2> QED BY <2>1, <2>2, OneEventMore DEF EventType, LifecycleEvents, TerminalEvents
<1>5. ASSUME NEW status, NEW event, FinishRun(Shown, status, event), Status \in Active,
             <<status, event>> \in {<<"completed", "run.completed">>, <<"failed", "run.failed">>,
                                    <<"cancelled", "run.cancelled">>}
      PROVE  RunGoesOn
  <2>1. InsertEvent(Shown, event) /\ StoreInv' /\ Status' = status
    BY <1>1, <1>5, FinishRunInv, FinishRunRow DEF FinishRun, Status
  <2>2. /\ Status \notin Terminal /\ status \in Terminal /\ event \in EventType
        /\ Terminal \subseteq RunStatus
    BY <1>5 DEF Active, Terminal, RunStatus, EventType, LifecycleEvents
  <2> QED BY <2>1, <2>2, OneEventMore
<1>6. CASE \E w \in Workers : ClaimNextRun(Shown, w, {})
  BY <1>2, <1>6
<1>7. CASE Status \in Active /\ (\E type \in {"workflow.started", "workflow.completed"} : AppendEvent(Shown, type))
  BY <1>3, <1>7
<1>8. CASE Status \in Active /\ (MarkRunCompleted(Shown) \/ MarkRunFailed(Shown) \/ MarkRunCancelled(Shown))
  BY <1>5, <1>8 DEF MarkRunCompleted, MarkRunFailed, MarkRunCancelled
<1> QED BY <1>4, <1>6, <1>7, <1>8 DEF RunMoves, Active

-----------------------------------------------------------------------------
(* Steps that leave the page alone *)

LEMMA RunElsewhere ==
  ASSUME DetailsInv, RunGoesOn,
         UNCHANGED <<loading, page, seen, conn, wire, asking, early, drops, lost>>
  PROVE  /\ RunOK' /\ LoadingOK' /\ PageOK' /\ StreamOK'
         /\ \A status : StillTrue(status) => StillTrue(status)'
         /\ ~early => GapFree'
<1>1. /\ LoadingOK /\ PageOK /\ StreamOK /\ RunOK
      /\ Len(Events) \in Nat /\ Len(Events)' \in Nat /\ Len(Events) <= Len(Events)'
  BY EventsType DEF DetailsInv, RunGoesOn, RunOK
<1>2. \A status : StillTrue(status) => StillTrue(status)'
  BY DEF RunGoesOn, StillTrue
<1>3. LoadingOK'
  BY <1>1, <1>2 DEF LoadingOK
<1>4. PageOK'
  <2>1. 1 .. Len(Events) \subseteq 1 .. Len(Events)'
    BY <1>1
  <2> QED BY <1>1, <1>2, <2>1 DEF PageOK, PageState, RunGoesOn
<1>5. StreamOK'
  <2>1. wire \in Seq(1 .. Len(Events)')
    BY <1>1 DEF StreamOK
  <2> QED BY <1>1, <2>1 DEF StreamOK, Connection
<1>6. ~early => GapFree'
  BY DEF DetailsInv, GapFree
<1> QED BY <1>2, <1>3, <1>4, <1>5, <1>6 DEF RunGoesOn

LEMMA RunMovesInv ==
  ASSUME DetailsInv, RunMoves
  PROVE  DetailsInv'
<1>1. UNCHANGED <<loading, page, seen, conn, wire, asking, answers, early, clicks, drops, lost>>
  BY DEF RunMoves
<1>2. RunGoesOn
  BY RunMovesOn DEF DetailsInv
<1>3. /\ RunOK' /\ LoadingOK' /\ PageOK' /\ StreamOK'
      /\ \A status : StillTrue(status) => StillTrue(status)'
      /\ ~early => GapFree'
  BY <1>1, <1>2, RunElsewhere
<1>4. SnapshotsOK' /\ CountsOK' /\ (~early /\ loading.pc = "waits" => Untouched')
  BY <1>1, <1>3 DEF DetailsInv, SnapshotsOK, CountsOK, Troubles, Untouched
<1> QED BY <1>1, <1>3, <1>4 DEF DetailsInv

LEMMA CancelClickInv ==
  ASSUME DetailsInv, CancelClick
  PROVE  DetailsInv'
<1>1. /\ UNCHANGED <<loading, page, seen, conn, wire, asking, drops, lost>>
      /\ page.status \notin {None} \union Terminal
      /\ answers' = Append(answers, Status')
      /\ clicks < MaxClicks /\ clicks' = clicks + 1
  BY DEF CancelClick
<1>2. early' = early
  BY DEF CancelClick
<1>3. RunGoesOn
  <2>1. CASE Status \in Terminal
    <3>1. UNCHANGED storeVars
      BY <2>1 DEF CancelClick
    <3>2. Events' = Events /\ Status' = Status /\ RunOK /\ RunOK' /\ Len(Events) \in Nat
      BY <3>1, StoreUnchangedInv, EventsType DEF storeVars, Events, Status, DetailsInv, RunOK, OutcomeIsLate
    <3> QED BY <3>2 DEF RunGoesOn
  <2>2. CASE Status \notin Terminal
    BY <2>2, CancelGoesOn DEF CancelClick, DetailsInv
  <2> QED BY <2>1, <2>2
<1>4. /\ RunOK' /\ LoadingOK' /\ PageOK' /\ StreamOK'
      /\ \A status : StillTrue(status) => StillTrue(status)'
      /\ ~early => GapFree'
  BY <1>1, <1>2, <1>3, RunElsewhere
<1>5. SnapshotsOK'
  <2>1. Status' \in RunStatus
    BY <1>4 DEF RunOK
  <2>2. answers \in Seq(RunStatus) /\ asking' \in Nat
    BY <1>1 DEF DetailsInv, SnapshotsOK
  <2>3. /\ answers' \in Seq(RunStatus) /\ Len(answers) \in Nat
        /\ DOMAIN answers = 1 .. Len(answers) /\ DOMAIN answers' = 1 .. Len(answers) + 1
        /\ \A i \in 1 .. Len(answers) : answers'[i] = answers[i]
        /\ answers'[Len(answers) + 1] = Status'
    BY <1>1, <2>1, <2>2, AppendProperties
  <2>4. \A i \in DOMAIN answers : answers[i] \in Terminal => answers[i] = Status'
    BY <1>4 DEF DetailsInv, SnapshotsOK, StillTrue
  <2>5. \A i \in DOMAIN answers' : answers'[i] \in Terminal => answers'[i] = Status'
    BY <2>3, <2>4
  <2> QED BY <2>2, <2>3, <2>5 DEF SnapshotsOK, StillTrue
<1>6. CountsOK'
  BY <1>1, <1>2 DEF DetailsInv, CountsOK, Troubles
<1>7. ~early => loading.pc # "waits"
  BY <1>1 DEF DetailsInv, Untouched
<1> QED BY <1>1, <1>2, <1>4, <1>5, <1>6, <1>7 DEF DetailsInv

-----------------------------------------------------------------------------
(* Steps that leave the run alone *)

LEMMA RunStays ==
  ASSUME RunOK, UNCHANGED storeVars
  PROVE  RunOK' /\ Events' = Events /\ Status' = Status /\ Len(Events) \in Nat
<1>1. StoreInv /\ StoreInv'
  BY StoreUnchangedInv DEF RunOK
<1>2. Events' = Events /\ Status' = Status
  BY DEF storeVars, Events, Status
<1> QED BY <1>1, <1>2, EventsType DEF RunOK, OutcomeIsLate

LEMMA RunGoesNowhere ==
  ASSUME RunOK, UNCHANGED storeVars
  PROVE  RunGoesOn
BY RunStays DEF RunGoesOn

\* The stream effect opens a stream that begins after the last event received.
LEMMA FollowFromLast ==
  ASSUME RunOK, UNCHANGED storeVars, NEW status, NEW last \in Nat, last <= Len(Events),
         Follow(status, last)
  PROVE  StreamOK' /\ wire' = <<>> /\ (conn'.pc # "none" => conn'.cursor = last)
<1>1. Events' = Events /\ Len(Events) \in Nat
  BY RunStays
<1>2. wire' = <<>> /\ wire' \in Seq(1 .. Len(Events))
  <2>1. wire' = <<>>
    BY Zenon DEF Follow
  <2> QED BY <2>1, EmptySeq
<1>3. conn' = NoConn \/ conn' = [pc |-> "list", cursor |-> last]
  BY DEF Follow
<1> QED BY <1>1, <1>2, <1>3 DEF StreamOK, Connection, NoConn

\* A status that is shown is true, and a stream that it opens begins where the list ends.
LEMMA ShowRunInv ==
  ASSUME DetailsInv, UNCHANGED storeVars, NEW status \in RunStatus, StillTrue(status),
         NEW last \in Nat, last <= Len(Events), NEW stream \in {"connecting", page.stream},
         ShowRun(status, last, stream), seen' \subseteq 1 .. Len(Events)
  PROVE  /\ PageOK' /\ StreamOK' /\ page'.last = last
         /\ \/ wire' = <<>> /\ (conn'.pc # "none" => conn'.cursor = last)
            \/ status = page.status /\ UNCHANGED <<conn, wire>>
<1>1. RunOK /\ PageOK /\ StreamOK /\ Events' = Events /\ Status' = Status /\ Len(Events) \in Nat
  BY RunStays DEF DetailsInv
<1>2. status \in Terminal => Status \in Terminal
  BY DEF StillTrue
<1>3. CASE status # page.status
  <2>1. Follow(status, last)
    BY <1>3 DEF ShowRun
  <2>2. page' = [status |-> status, last |-> last, timer |-> FALSE,
                 stream |-> IF status \in Terminal THEN "closed" ELSE "connecting"]
    BY <1>3 DEF ShowRun
  <2>3. StreamOK' /\ wire' = <<>> /\ (conn'.pc # "none" => conn'.cursor = last)
    BY <1>1, <2>1, FollowFromLast
  <2>4. PageOK'
    BY <1>1, <1>2, <2>2 DEF PageOK, PageState, StillTrue
  <2> QED BY <2>2, <2>3, <2>4
<1>4. CASE status = page.status
  <2>1. /\ page' = [page EXCEPT !.last = last,
                      !.stream = IF status \in Terminal THEN "closed" ELSE stream]
        /\ UNCHANGED <<conn, wire>>
    BY <1>4 DEF ShowRun
  <2>2. /\ page'.status = page.status /\ page'.last = last /\ page'.timer = page.timer
        /\ page'.stream \in {"closed", "connecting", page.stream}
        /\ page'.stream = "closed" => Status \in Terminal
        /\ page' \in PageState
    BY <1>1, <1>2, <2>1 DEF PageOK, PageState
  <2>3. PageOK'
    BY <1>1, <2>2 DEF PageOK, StillTrue
  <2>4. StreamOK'
    BY <1>1, <2>1 DEF StreamOK
  <2> QED BY <1>4, <2>1, <2>2, <2>3, <2>4
<1> QED BY <1>3, <1>4

-----------------------------------------------------------------------------
(* The page loads *)

LEMMA ReadRunInv ==
  ASSUME DetailsInv, ReadRun
  PROVE  DetailsInv'
<1>1. /\ UNCHANGED <<loading.events, loading.pc, page, seen, conn, wire, asking, answers, early, clicks,
                     drops, lost>>
      /\ UNCHANGED storeVars
      /\ loading' = [loading EXCEPT !.run = Status]
  BY DEF ReadRun, storeVars, DetailsInv, LoadingOK
<1>2. RunOK' /\ Events' = Events /\ Status' = Status /\ Len(Events) \in Nat /\ Status \in RunStatus
  BY <1>1, RunStays DEF DetailsInv, RunOK
<1>3. LoadingOK'
  <2>1. /\ loading' \in [run : {None} \union RunStatus, events : {None} \union Nat,
                         pc : {"waits", "shown", "failed"}]
        /\ loading'.run = Status /\ loading'.events = loading.events
    BY <1>1, <1>2 DEF DetailsInv, LoadingOK
  <2> QED BY <1>2, <2>1 DEF DetailsInv, LoadingOK, StillTrue
<1>4. PageOK' /\ StreamOK'
  BY <1>1, <1>2 DEF DetailsInv, PageOK, StreamOK, StillTrue
<1>5. SnapshotsOK' /\ CountsOK'
  BY <1>1, <1>2 DEF DetailsInv, SnapshotsOK, CountsOK, Troubles, StillTrue
<1>6. ~early => GapFree' /\ (loading.pc = "waits" => Untouched')
  BY <1>1 DEF DetailsInv, GapFree, Untouched
<1> QED BY <1>1, <1>2, <1>3, <1>4, <1>5, <1>6 DEF DetailsInv

LEMMA ReadEventsInv ==
  ASSUME DetailsInv, ReadEvents
  PROVE  DetailsInv'
<1>1. /\ UNCHANGED <<loading.run, loading.pc, page, seen, conn, wire, asking, answers, early, clicks,
                     drops, lost>>
      /\ UNCHANGED storeVars
      /\ loading' = [loading EXCEPT !.events = Len(Events)]
  BY DEF ReadEvents, storeVars, DetailsInv, LoadingOK
<1>2. RunOK' /\ Events' = Events /\ Status' = Status /\ Len(Events) \in Nat
  BY <1>1, RunStays DEF DetailsInv
<1>3. LoadingOK'
  <2>1. /\ loading' \in [run : {None} \union RunStatus, events : {None} \union Nat,
                         pc : {"waits", "shown", "failed"}]
        /\ loading'.run = loading.run /\ loading'.events = Len(Events)
    BY <1>1, <1>2 DEF DetailsInv, LoadingOK
  <2> QED BY <1>2, <2>1 DEF DetailsInv, LoadingOK, StillTrue
<1>4. PageOK' /\ StreamOK'
  BY <1>1, <1>2 DEF DetailsInv, PageOK, StreamOK, StillTrue
<1>5. SnapshotsOK' /\ CountsOK'
  BY <1>1, <1>2 DEF DetailsInv, SnapshotsOK, CountsOK, Troubles, StillTrue
<1>6. ~early => GapFree' /\ (loading.pc = "waits" => Untouched')
  BY <1>1 DEF DetailsInv, GapFree, Untouched
<1> QED BY <1>1, <1>2, <1>3, <1>4, <1>5, <1>6 DEF DetailsInv

\* A page that nobody touched follows the run for the first time.
LEMMA LoadedInv ==
  ASSUME DetailsInv, Loaded
  PROVE  DetailsInv'
<1>1. /\ UNCHANGED <<asking, answers, early, clicks, drops, lost>> /\ UNCHANGED storeVars
      /\ loading.pc = "waits" /\ loading.run # None /\ loading.events # None
      /\ loading' = [loading EXCEPT !.pc = "shown"]
      /\ seen' = 1 .. loading.events
      /\ ShowRun(loading.run, loading.events, "connecting")
  BY DEF Loaded, storeVars
<1>2. RunOK' /\ Events' = Events /\ Status' = Status /\ Len(Events) \in Nat
  BY <1>1, RunStays DEF DetailsInv
<1>3. /\ loading.run \in RunStatus /\ StillTrue(loading.run)
      /\ loading.events \in Nat /\ loading.events <= Len(Events)
  BY <1>1 DEF DetailsInv, LoadingOK
<1>4. seen' \subseteq 1 .. Len(Events)
  BY <1>1, <1>2, <1>3
<1>5. /\ PageOK' /\ StreamOK' /\ page'.last = loading.events
      /\ \/ wire' = <<>> /\ (conn'.pc # "none" => conn'.cursor = loading.events)
         \/ loading.run = page.status /\ UNCHANGED <<conn, wire>>
  BY <1>1, <1>3, <1>4, ShowRunInv
<1>6. LoadingOK'
  <2>1. /\ loading' \in [run : {None} \union RunStatus, events : {None} \union Nat,
                         pc : {"waits", "shown", "failed"}]
        /\ loading'.run = loading.run /\ loading'.events = loading.events
    BY <1>1 DEF DetailsInv, LoadingOK
  <2> QED BY <1>2, <1>3, <2>1 DEF LoadingOK, StillTrue
<1>7. SnapshotsOK' /\ CountsOK'
  BY <1>1, <1>2 DEF DetailsInv, SnapshotsOK, CountsOK, Troubles, StillTrue
<1>8. ASSUME ~early PROVE GapFree'
  <2>1. page.status = None
    BY <1>1, <1>8 DEF DetailsInv, Untouched
  <2>2. wire' = <<>> /\ (conn'.pc # "none" => conn'.cursor = loading.events)
    BY <1>1, <1>5, <2>1
  <2>3. Len(wire') = 0 /\ DOMAIN wire' = {}
    BY <2>2
  <2> QED BY <1>1, <1>3, <1>5, <2>2, <2>3 DEF GapFree
<1>9. loading'.pc # "waits"
  BY <1>1 DEF DetailsInv, LoadingOK
<1> QED BY <1>1, <1>2, <1>5, <1>6, <1>7, <1>8, <1>9 DEF DetailsInv

LEMMA LoadFailsInv ==
  ASSUME DetailsInv, LoadFails
  PROVE  DetailsInv'
<1>1. /\ UNCHANGED <<page, seen, conn, wire, asking, answers, early, clicks, drops>>
      /\ UNCHANGED storeVars
      /\ loading' = [loading EXCEPT !.pc = "failed"]
      /\ lost' = lost + 1 /\ Trouble
  BY DEF LoadFails, storeVars
<1>2. RunOK' /\ Events' = Events /\ Status' = Status /\ Len(Events) \in Nat
  BY <1>1, RunStays DEF DetailsInv
<1>3. LoadingOK' /\ loading'.pc # "waits"
  <2>1. /\ loading' \in [run : {None} \union RunStatus, events : {None} \union Nat,
                         pc : {"waits", "shown", "failed"}]
        /\ loading'.run = loading.run /\ loading'.events = loading.events
        /\ loading'.pc = "failed"
    BY <1>1 DEF DetailsInv, LoadingOK
  <2> QED BY <1>2, <2>1 DEF DetailsInv, LoadingOK, StillTrue
<1>4. PageOK' /\ StreamOK'
  BY <1>1, <1>2 DEF DetailsInv, PageOK, StreamOK, StillTrue
<1>5. SnapshotsOK'
  BY <1>1, <1>2 DEF DetailsInv, SnapshotsOK, StillTrue
<1>6. CountsOK'
  BY <1>1 DEF DetailsInv, CountsOK, Trouble, Troubles
<1>7. ~early => GapFree'
  BY <1>1 DEF DetailsInv, GapFree
<1> QED BY <1>1, <1>2, <1>3, <1>4, <1>5, <1>6, <1>7 DEF DetailsInv

-----------------------------------------------------------------------------
(* The stream *)

\* What a step of the stream leaves alone.
LEMMA StreamSteps ==
  ASSUME DetailsInv, UNCHANGED storeVars, UNCHANGED <<loading, answers, early, clicks, lost>>,
         asking' \in Nat, PageOK', StreamOK', drops' \in Nat, Troubles' <= MaxTroubles,
         ~early => GapFree' /\ loading.pc # "waits"
  PROVE  DetailsInv'
<1>1. RunOK' /\ Events' = Events /\ Status' = Status
  BY RunStays DEF DetailsInv
<1>2. LoadingOK' /\ SnapshotsOK'
  BY <1>1 DEF DetailsInv, LoadingOK, SnapshotsOK, StillTrue
<1>3. CountsOK'
  BY DEF DetailsInv, CountsOK
<1> QED BY <1>1, <1>2, <1>3 DEF DetailsInv

\* The events after the cursor, in their order.
LEMMA StreamListsInv ==
  ASSUME DetailsInv, StreamLists
  PROVE  DetailsInv'
<1> DEFINE more == [i \in 1 .. Len(Events) - conn.cursor |-> conn.cursor + i]
<1>1. /\ UNCHANGED storeVars
      /\ UNCHANGED <<loading, page, seen, asking, answers, early, clicks, drops, lost>>
      /\ conn.pc = "list" /\ wire' = wire \o more
      /\ conn' = [pc |-> "check", cursor |-> Len(Events)]
  BY DEF StreamLists, storeVars
<1>2. /\ Events' = Events /\ Status' = Status /\ Len(Events) \in Nat
      /\ conn.cursor \in Nat /\ conn.cursor <= Len(Events)
      /\ wire \in Seq(1 .. Len(Events))
  BY <1>1, RunStays DEF DetailsInv, StreamOK, Connection
<1>3. /\ more \in Seq(1 .. Len(Events)) /\ Len(more) = Len(Events) - conn.cursor
      /\ Len(more) \in Nat /\ \A i \in 1 .. Len(more) : more[i] = conn.cursor + i
  <2>1. more \in [1 .. Len(Events) - conn.cursor -> 1 .. Len(Events)]
    BY <1>2
  <2>2. Len(Events) - conn.cursor \in Nat
    BY <1>2
  <2>3. more \in Seq(1 .. Len(Events))
    BY <2>1, <2>2, SeqDef
  <2>4. Len(more) = Len(Events) - conn.cursor
    BY <2>1, <2>2, <2>3, LenProperties
  <2>5. \A i \in 1 .. Len(Events) - conn.cursor : more[i] = conn.cursor + i
    OBVIOUS
  <2> QED BY <2>2, <2>3, <2>4, <2>5
<1> HIDE DEF more
<1>4. /\ wire' \in Seq(1 .. Len(Events)) /\ Len(wire) \in Nat
      /\ Len(wire') = Len(wire) + Len(more) /\ DOMAIN wire' = 1 .. Len(wire')
      /\ \A i \in 1 .. Len(wire) + Len(more) :
           wire'[i] = IF i <= Len(wire) THEN wire[i] ELSE more[i - Len(wire)]
  <2>1. /\ wire' \in Seq(1 .. Len(Events)) /\ Len(wire') = Len(wire) + Len(more)
        /\ \A i \in 1 .. Len(wire) + Len(more) :
             wire'[i] = IF i <= Len(wire) THEN wire[i] ELSE more[i - Len(wire)]
    <3>1. /\ wire \o more \in Seq(1 .. Len(Events)) /\ Len(wire \o more) = Len(wire) + Len(more)
          /\ \A i \in 1 .. Len(wire) + Len(more) :
               (wire \o more)[i] = IF i <= Len(wire) THEN wire[i] ELSE more[i - Len(wire)]
      <4>1. wire \in Seq(1 .. Len(Events)) /\ more \in Seq(1 .. Len(Events))
        BY <1>2, <1>3
      <4> QED BY <4>1, ConcatProperties, Zenon
    <3> QED BY <1>1, <3>1
  <2>2. Len(wire) \in Nat /\ DOMAIN wire' = 1 .. Len(wire')
    BY <1>2, <2>1, LenProperties
  <2> QED BY <2>1, <2>2
<1>5. PageOK'
  BY <1>1, <1>2 DEF DetailsInv, PageOK, StillTrue
<1>6. StreamOK'
  BY <1>1, <1>2, <1>4 DEF StreamOK, Connection
<1>7. ASSUME ~early PROVE GapFree' /\ loading.pc # "waits"
  <2>1. /\ seen = 1 .. page.last /\ page.last \in Nat
        /\ \A i \in DOMAIN wire : wire[i] = page.last + i
        /\ conn.cursor = page.last + Len(wire)
        /\ loading.pc # "waits"
    BY <1>1, <1>7 DEF DetailsInv, GapFree, Untouched, PageOK, PageState
  <2>2. DOMAIN wire = 1 .. Len(wire)
    BY <1>2, LenProperties
  <2>3. \A i \in DOMAIN wire' : wire'[i] = page.last + i
    <3> SUFFICES ASSUME NEW i \in 1 .. Len(wire) + Len(more) PROVE wire'[i] = page.last + i
      BY <1>3, <1>4
    <3>1. CASE i <= Len(wire)
      <4>1. i \in 1 .. Len(wire)
        BY <1>3, <1>4, <3>1
      <4> QED BY <1>4, <2>1, <2>2, <3>1, <4>1
    <3>2. CASE ~(i <= Len(wire))
      <4>1. i - Len(wire) \in 1 .. Len(more)
        <5>1. Len(wire) \in Nat /\ Len(more) \in Nat
          BY <1>3, <1>4
        <5> QED BY <3>2, <5>1
      <4>2. wire'[i] = conn.cursor + (i - Len(wire))
        BY <1>3, <1>4, <3>2, <4>1
      <4>3. i \in Nat /\ page.last \in Nat /\ Len(wire) \in Nat
        BY <1>3, <1>4, <2>1
      <4> QED BY <2>1, <4>2, <4>3
    <3> QED BY <3>1, <3>2
  <2>4. conn'.cursor = page.last + Len(wire')
    BY <1>1, <1>2, <1>3, <1>4, <2>1, SMTT(20)
  <2> QED BY <1>1, <2>1, <2>3, <2>4 DEF GapFree
<1>8. asking' \in Nat /\ drops' \in Nat /\ Troubles' <= MaxTroubles
  BY <1>1 DEF DetailsInv, SnapshotsOK, CountsOK, Troubles
<1> QED BY <1>1, <1>5, <1>6, <1>7, <1>8, StreamSteps

LEMMA StreamChecksInv ==
  ASSUME DetailsInv, StreamChecks
  PROVE  DetailsInv'
<1>1. /\ UNCHANGED storeVars
      /\ UNCHANGED <<loading, page, seen, wire, asking, answers, early, clicks, drops, lost>>
      /\ conn.pc = "check"
      /\ conn' = [conn EXCEPT !.pc = IF Status \in Terminal THEN "ended" ELSE "list"]
  BY DEF StreamChecks, storeVars
<1>2. Events' = Events /\ Status' = Status
  BY <1>1, RunStays DEF DetailsInv
<1>3. conn' \in Connection /\ conn'.cursor = conn.cursor
  BY <1>1 DEF DetailsInv, StreamOK, Connection
<1>4. PageOK' /\ StreamOK'
  BY <1>1, <1>2, <1>3 DEF DetailsInv, PageOK, StreamOK, StillTrue
<1>5. ~early => GapFree' /\ loading.pc # "waits"
  BY <1>1, <1>3 DEF DetailsInv, GapFree, Untouched
<1>6. asking' \in Nat /\ drops' \in Nat /\ Troubles' <= MaxTroubles
  BY <1>1 DEF DetailsInv, SnapshotsOK, CountsOK, Troubles
<1> QED BY <1>1, <1>4, <1>5, <1>6, StreamSteps

\* The first event on the wire is the one after the last of the list.
LEMMA ReceiveInv ==
  ASSUME DetailsInv, Receive
  PROVE  DetailsInv'
<1> DEFINE n == Head(wire)
<1>1. /\ UNCHANGED storeVars
      /\ UNCHANGED <<loading, conn, answers, early, clicks, drops, lost>>
      /\ wire # <<>> /\ wire' = Tail(wire)
      /\ seen' = seen \union {n}
      /\ asking' = IF Events[n] \in Asks THEN asking + 1 ELSE asking
      /\ page' = [page EXCEPT !.last = IF n > @ THEN n ELSE @,
                    !.stream = IF Events[n] \in TerminalEvents THEN "closed" ELSE "live"]
  BY DEF Receive, storeVars
<1>2. /\ Events' = Events /\ Status' = Status /\ Len(Events) \in Nat
      /\ DOMAIN Events = 1 .. Len(Events) /\ RunOK
      /\ wire \in Seq(1 .. Len(Events))
      /\ page \in PageState /\ page.last \in Nat
  BY <1>1, RunStays, EventsType DEF DetailsInv, RunOK, StreamOK, PageOK, PageState
<1>3. /\ n \in 1 .. Len(Events) /\ n = wire[1]
      /\ Tail(wire) \in Seq(1 .. Len(Events)) /\ Len(wire) \in Nat \ {0}
      /\ Len(Tail(wire)) = Len(wire) - 1
      /\ \A i \in 1 .. Len(Tail(wire)) : Tail(wire)[i] = wire[i + 1]
      /\ DOMAIN wire = 1 .. Len(wire) /\ DOMAIN Tail(wire) = 1 .. Len(Tail(wire))
  <2>1. n = wire[1]
    BY <1>2
  <2> QED BY <1>1, <1>2, <2>1, HeadTailProperties, LenProperties, EmptySeq
<1> HIDE DEF n
<1>4. Events[n] \in TerminalEvents => Status \in Terminal
  BY <1>2, <1>3 DEF RunOK, OutcomeIsLate
<1>5. /\ page'.status = page.status /\ page'.last = IF n > page.last THEN n ELSE page.last
      /\ page'.stream = IF Events[n] \in TerminalEvents THEN "closed" ELSE "live"
      /\ page' \in PageState
  <2> DEFINE last == IF n > page.last THEN n ELSE page.last
             stream == IF Events[n] \in TerminalEvents THEN "closed" ELSE "live"
  <2>1. page' = [page EXCEPT !.last = last, !.stream = stream]
    BY <1>1
  <2>2. last \in Nat /\ stream \in {"closed", "live"}
    BY <1>2, <1>3
  <2> HIDE DEF last, stream
  <2>3. /\ page'.status = page.status /\ page'.last = last /\ page'.stream = stream
        /\ page' \in PageState
    BY <1>2, <2>1, <2>2 DEF PageState
  <2> QED BY <2>3 DEF last, stream
<1>6. PageOK'
  <2>1. seen' \subseteq 1 .. Len(Events)
    BY <1>1, <1>3 DEF DetailsInv, PageOK
  <2> QED BY <1>1, <1>2, <1>3, <1>4, <1>5, <2>1 DEF DetailsInv, PageOK, StillTrue
<1>7. StreamOK'
  BY <1>1, <1>2, <1>3 DEF DetailsInv, StreamOK
<1>8. ASSUME ~early PROVE GapFree' /\ loading.pc # "waits"
  <2>1. /\ seen = 1 .. page.last
        /\ \A i \in DOMAIN wire : wire[i] = page.last + i
        /\ conn.pc # "none" => conn.cursor = page.last + Len(wire)
        /\ loading.pc # "waits"
    BY <1>1, <1>8 DEF DetailsInv, GapFree, Untouched
  <2>2. n = page.last + 1 /\ page'.last = page.last + 1
    BY <1>2, <1>3, <1>5, <2>1
  <2>3. seen' = 1 .. page'.last
    <3>1. 1 .. page.last + 1 = (1 .. page.last) \union {page.last + 1}
      BY <1>2
    <3> QED BY <1>1, <2>1, <2>2, <3>1
  <2>4. \A i \in DOMAIN wire' : wire'[i] = page'.last + i
    <3> SUFFICES ASSUME NEW i \in 1 .. Len(Tail(wire)) PROVE Tail(wire)[i] = page.last + 1 + i
      BY <1>1, <1>3, <2>2
    <3>1. i + 1 \in DOMAIN wire /\ Tail(wire)[i] = wire[i + 1]
      BY <1>3
    <3>2. wire[i + 1] = page.last + (i + 1)
      BY <2>1, <3>1
    <3>3. page.last \in Nat /\ i \in Nat
      BY <1>2, <1>3
    <3> QED BY <3>1, <3>2, <3>3
  <2>5. conn'.pc # "none" => conn'.cursor = page'.last + Len(wire')
    BY <1>1, <1>2, <1>3, <2>1, <2>2, SMTT(20)
  <2> QED BY <2>1, <2>3, <2>4, <2>5 DEF GapFree
<1>9. asking' \in Nat /\ drops' \in Nat /\ Troubles' <= MaxTroubles
  BY <1>1, SMTT(20) DEF DetailsInv, SnapshotsOK, CountsOK, Troubles
<1> QED BY <1>1, <1>6, <1>7, <1>8, <1>9, StreamSteps

LEMMA StreamErrorInv ==
  ASSUME DetailsInv, StreamEnds \/ StreamDrops
  PROVE  DetailsInv'
<1>1. /\ UNCHANGED storeVars
      /\ UNCHANGED <<loading, seen, asking, answers, early, clicks, lost>>
      /\ conn.pc # "none" /\ conn' = NoConn /\ wire' = <<>>
      /\ page' = [page EXCEPT !.stream = "reconnecting", !.timer = TRUE]
  BY DEF StreamEnds, StreamDrops, StreamError, storeVars
<1>2. Events' = Events /\ Status' = Status /\ Len(Events) \in Nat
  BY <1>1, RunStays DEF DetailsInv
<1>3. /\ page' \in PageState /\ page'.status = page.status /\ page'.last = page.last
      /\ page'.stream = "reconnecting"
  BY <1>1 DEF DetailsInv, PageOK, PageState
<1>4. PageOK'
  BY <1>1, <1>2, <1>3 DEF DetailsInv, PageOK, StillTrue
<1>5. StreamOK'
  BY <1>1, <1>2 DEF StreamOK, Connection, NoConn
<1>6. ~early => GapFree' /\ loading.pc # "waits"
  BY <1>1, <1>3 DEF DetailsInv, GapFree, Untouched, NoConn
<1>7. asking' \in Nat /\ drops' \in Nat /\ Troubles' <= MaxTroubles
  <2>1. drops' = drops \/ (Trouble /\ drops' = drops + 1)
    BY DEF StreamEnds, StreamDrops
  <2> QED BY <1>1, <2>1, SMTT(20) DEF DetailsInv, SnapshotsOK, CountsOK, Trouble, Troubles
<1> QED BY <1>1, <1>4, <1>5, <1>6, <1>7, StreamSteps

LEMMA ReconnectInv ==
  ASSUME DetailsInv, Reconnect
  PROVE  DetailsInv'
<1>1. /\ UNCHANGED storeVars
      /\ UNCHANGED <<loading, seen, asking, answers, early, clicks, drops, lost>>
      /\ page.timer /\ Follow(page.status, page.last)
      /\ page' = [page EXCEPT !.timer = FALSE,
                    !.stream = IF page.status \in Terminal THEN @ ELSE "connecting"]
  BY DEF Reconnect, storeVars
<1>2. /\ Events' = Events /\ Status' = Status /\ RunOK
      /\ page.last \in Nat /\ page.last <= Len(Events)
  BY <1>1, RunStays DEF DetailsInv, PageOK, PageState
<1>3. StreamOK' /\ wire' = <<>> /\ (conn'.pc # "none" => conn'.cursor = page.last)
  BY <1>1, <1>2, FollowFromLast
<1>4. /\ page' \in PageState /\ page'.status = page.status /\ page'.last = page.last
      /\ page'.stream \in {"connecting", page.stream}
  BY <1>1 DEF DetailsInv, PageOK, PageState
<1>5. PageOK'
  BY <1>1, <1>2, <1>4 DEF DetailsInv, PageOK, StillTrue
<1>6. ~early => GapFree' /\ loading.pc # "waits"
  <2>1. Len(wire') = 0 /\ DOMAIN wire' = {}
    BY <1>3
  <2> QED BY <1>1, <1>2, <1>3, <1>4, <2>1 DEF DetailsInv, GapFree, Untouched
<1>7. asking' \in Nat /\ drops' \in Nat /\ Troubles' <= MaxTroubles
  BY <1>1 DEF DetailsInv, SnapshotsOK, CountsOK, Troubles
<1> QED BY <1>1, <1>3, <1>5, <1>6, <1>7, StreamSteps

-----------------------------------------------------------------------------
(* Snapshots *)

\* What is left of a list of statuses is still true.
LEMMA OneAnswerLess ==
  ASSUME answers \in Seq(RunStatus), NEW i \in DOMAIN answers
  PROVE  /\ RemoveAt(answers, i) \in Seq(RunStatus)
         /\ \A j \in DOMAIN RemoveAt(answers, i) :
              \E k \in DOMAIN answers : RemoveAt(answers, i)[j] = answers[k]
<1> DEFINE n == Len(answers)
           front == SubSeq(answers, 1, i - 1)
           rest == SubSeq(answers, i + 1, n)
<1>1. n \in Nat /\ DOMAIN answers = 1 .. n /\ i \in 1 .. n
  BY LenProperties
<1>2. \A k \in 1 .. n : answers[k] \in RunStatus
  BY <1>1, ElementOfSeq
<1>3. /\ front \in Seq(RunStatus) /\ Len(front) = IF 1 <= i - 1 THEN i - 1 ELSE 0
      /\ \A k \in 1 .. i - 1 : front[k] = answers[k]
  <2>1. 1 \in Int /\ i - 1 \in Int /\ \A k \in 1 .. i - 1 : answers[k] \in RunStatus
    BY <1>1, <1>2
  <2> HIDE DEF n
  <2>2. /\ front \in Seq(RunStatus) /\ Len(front) = IF 1 <= i - 1 THEN (i - 1) - 1 + 1 ELSE 0
        /\ \A k \in 1 .. (i - 1) - 1 + 1 : front[k] = answers[1 + k - 1]
    BY <2>1, SubSeqProperties
  <2>3. (i - 1) - 1 + 1 = i - 1 /\ \A k \in 1 .. i - 1 : 1 + k - 1 = k
    BY <1>1
  <2> QED BY <2>2, <2>3
<1>4. /\ rest \in Seq(RunStatus) /\ Len(rest) = IF i + 1 <= n THEN n - i ELSE 0
      /\ \A k \in 1 .. n - i : rest[k] = answers[i + k]
  <2>1. i + 1 \in Int /\ n \in Int /\ \A k \in i + 1 .. n : answers[k] \in RunStatus
    BY <1>1, <1>2
  <2> HIDE DEF n
  <2>2. /\ rest \in Seq(RunStatus) /\ Len(rest) = IF i + 1 <= n THEN n - (i + 1) + 1 ELSE 0
        /\ \A k \in 1 .. n - (i + 1) + 1 : rest[k] = answers[(i + 1) + k - 1]
    BY <2>1, SubSeqProperties
  <2>3. n - (i + 1) + 1 = n - i /\ \A k \in 1 .. n - i : (i + 1) + k - 1 = i + k
    BY <1>1
  <2> QED BY <2>2, <2>3
<1> HIDE DEF n, front, rest
<1>5. /\ front \o rest \in Seq(RunStatus) /\ Len(front \o rest) = Len(front) + Len(rest)
      /\ \A j \in 1 .. Len(front) + Len(rest) :
           (front \o rest)[j] = IF j <= Len(front) THEN front[j] ELSE rest[j - Len(front)]
  <2>1. front \in Seq(RunStatus) /\ rest \in Seq(RunStatus)
    BY <1>3, <1>4
  <2> QED BY <2>1, ConcatProperties, Zenon
<1>6. DOMAIN (front \o rest) = 1 .. Len(front) + Len(rest)
  BY <1>5, LenProperties
<1>7. Len(front) = i - 1 /\ Len(rest) = n - i
  BY <1>1, <1>3, <1>4
<1>8. ASSUME NEW j \in 1 .. Len(front) + Len(rest)
      PROVE  \E k \in DOMAIN answers : (front \o rest)[j] = answers[k]
  <2>1. CASE j <= Len(front)
    <3>1. j \in 1 .. i - 1 /\ j \in 1 .. n
      BY <1>1, <1>7, <2>1
    <3>2. (front \o rest)[j] = answers[j]
      BY <1>3, <1>5, <2>1, <3>1
    <3> QED BY <1>1, <3>1, <3>2
  <2>2. CASE ~(j <= Len(front))
    <3>1. j - Len(front) \in 1 .. n - i /\ i + (j - Len(front)) \in 1 .. n
      BY <1>1, <1>7, <2>2
    <3>2. (front \o rest)[j] = answers[i + (j - Len(front))]
      BY <1>4, <1>5, <2>2, <3>1
    <3> QED BY <1>1, <3>1, <3>2
  <2> QED BY <2>1, <2>2
<1>9. RemoveAt(answers, i) = front \o rest
  BY DEF RemoveAt, front, rest, n
<1> QED BY <1>5, <1>6, <1>8, <1>9

\* What a step of the snapshots leaves alone.
LEMMA SnapshotSteps ==
  ASSUME DetailsInv, UNCHANGED storeVars, UNCHANGED <<loading, seen, drops>>,
         PageOK', StreamOK', SnapshotsOK', CountsOK',
         ~early' => ~early /\ GapFree' /\ loading.pc # "waits"
  PROVE  DetailsInv'
<1>1. RunOK' /\ Events' = Events /\ Status' = Status
  BY RunStays DEF DetailsInv
<1>2. LoadingOK'
  BY <1>1 DEF DetailsInv, LoadingOK, StillTrue
<1> QED BY <1>1, <1>2 DEF DetailsInv

\* The page and the stream of a step that is about neither.
LEMMA PageStays ==
  ASSUME DetailsInv, UNCHANGED storeVars, UNCHANGED <<page, seen, conn, wire>>
  PROVE  PageOK' /\ StreamOK' /\ (~early => GapFree')
<1>1. Events' = Events /\ Status' = Status
  BY RunStays DEF DetailsInv
<1> QED BY <1>1 DEF DetailsInv, PageOK, StreamOK, GapFree, StillTrue

LEMMA ReadSnapshotInv ==
  ASSUME DetailsInv, ReadSnapshot
  PROVE  DetailsInv'
<1>1. /\ UNCHANGED storeVars
      /\ UNCHANGED <<loading, page, seen, conn, wire, early, clicks, drops, lost>>
      /\ asking > 0 /\ asking' = asking - 1
      /\ answers' = Append(answers, Status)
  BY DEF ReadSnapshot, storeVars
<1>2. Status' = Status /\ Status \in RunStatus /\ asking \in Nat /\ answers \in Seq(RunStatus)
  BY <1>1, RunStays DEF DetailsInv, RunOK, SnapshotsOK
<1>3. SnapshotsOK'
  <2>1. /\ answers' \in Seq(RunStatus) /\ Len(answers) \in Nat
        /\ DOMAIN answers = 1 .. Len(answers) /\ DOMAIN answers' = 1 .. Len(answers) + 1
        /\ \A i \in 1 .. Len(answers) : answers'[i] = answers[i]
        /\ answers'[Len(answers) + 1] = Status
    BY <1>1, <1>2, AppendProperties
  <2>2. \A i \in DOMAIN answers : answers[i] \in Terminal => answers[i] = Status
    BY DEF DetailsInv, SnapshotsOK, StillTrue
  <2>3. \A i \in DOMAIN answers' : answers'[i] \in Terminal => answers'[i] = Status
    BY <2>1, <2>2
  <2> QED BY <1>1, <1>2, <2>1, <2>3 DEF SnapshotsOK, StillTrue
<1>4. CountsOK'
  BY <1>1 DEF DetailsInv, CountsOK, Troubles
<1>5. ~early => loading.pc # "waits"
  BY <1>1 DEF DetailsInv, Untouched
<1> QED BY <1>1, <1>3, <1>4, <1>5, PageStays, SnapshotSteps

LEMMA AnswerInv ==
  ASSUME DetailsInv, Answer
  PROVE  DetailsInv'
<1>1. PICK i \in DOMAIN answers :
        /\ \/ i = 1 /\ UNCHANGED lost
           \/ i > 1 /\ Trouble /\ lost' = lost + 1
        /\ ShowRun(answers[i], page.last, page.stream)
        /\ answers' = RemoveAt(answers, i)
  BY DEF Answer
<1>2. UNCHANGED storeVars /\ UNCHANGED <<loading, seen, asking, early, clicks, drops>>
  BY DEF Answer, storeVars
<1>3. Status' = Status /\ Events' = Events /\ answers \in Seq(RunStatus) /\ asking \in Nat
  BY <1>2, RunStays DEF DetailsInv, SnapshotsOK
<1>4. answers[i] \in RunStatus /\ StillTrue(answers[i])
  BY <1>3, LenProperties, ElementOfSeq DEF DetailsInv, SnapshotsOK
<1>5. /\ page.last \in Nat /\ page.last <= Len(Events)
      /\ page.stream \in {"connecting", page.stream} /\ seen' \subseteq 1 .. Len(Events)
  BY <1>2 DEF DetailsInv, PageOK, PageState
<1>6. /\ PageOK' /\ StreamOK' /\ page'.last = page.last
      /\ \/ wire' = <<>> /\ (conn'.pc # "none" => conn'.cursor = page.last)
         \/ answers[i] = page.status /\ UNCHANGED <<conn, wire>>
  BY <1>1, <1>2, <1>4, <1>5, ShowRunInv
<1>7. SnapshotsOK'
  <2>1. /\ answers' \in Seq(RunStatus)
        /\ \A j \in DOMAIN answers' : \E k \in DOMAIN answers : answers'[j] = answers[k]
    BY <1>1, <1>3, OneAnswerLess
  <2>2. \A k \in DOMAIN answers : answers[k] \in Terminal => answers[k] = Status
    BY DEF DetailsInv, SnapshotsOK, StillTrue
  <2> QED BY <1>2, <1>3, <2>1, <2>2 DEF SnapshotsOK, StillTrue
<1>8. CountsOK'
  BY <1>1, <1>2 DEF DetailsInv, CountsOK, Trouble, Troubles
<1>9. ASSUME ~early PROVE GapFree' /\ loading.pc # "waits"
  <2>1. GapFree /\ loading.pc # "waits"
    <3>1. answers # <<>>
      BY <1>1
    <3> QED BY <1>9, <3>1 DEF DetailsInv, Untouched
  <2>2. CASE wire' = <<>> /\ (conn'.pc # "none" => conn'.cursor = page.last)
    <3>1. Len(wire') = 0 /\ DOMAIN wire' = {}
      BY <2>2
    <3> QED BY <1>2, <1>5, <1>6, <2>1, <2>2, <3>1 DEF GapFree
  <2>3. CASE UNCHANGED <<conn, wire>>
    BY <1>2, <1>6, <2>1, <2>3 DEF GapFree
  <2> QED BY <1>6, <2>2, <2>3
<1> QED BY <1>2, <1>6, <1>7, <1>8, <1>9, SnapshotSteps

LEMMA LoseAnswerInv ==
  ASSUME DetailsInv, LoseAnswer
  PROVE  DetailsInv'
<1>1. /\ UNCHANGED storeVars
      /\ UNCHANGED <<loading, page, seen, conn, wire, asking, early, clicks, drops>>
      /\ Trouble /\ lost' = lost + 1
  BY DEF LoseAnswer, storeVars
<1>2. PICK i \in DOMAIN answers : answers' = RemoveAt(answers, i)
  BY DEF LoseAnswer
<1>3. Status' = Status /\ answers \in Seq(RunStatus) /\ asking \in Nat
  BY <1>1, RunStays DEF DetailsInv, SnapshotsOK
<1>4. SnapshotsOK'
  <2>1. /\ answers' \in Seq(RunStatus)
        /\ \A j \in DOMAIN answers' : \E k \in DOMAIN answers : answers'[j] = answers[k]
    BY <1>2, <1>3, OneAnswerLess
  <2>2. \A k \in DOMAIN answers : answers[k] \in Terminal => answers[k] = Status
    BY DEF DetailsInv, SnapshotsOK, StillTrue
  <2> QED BY <1>1, <1>3, <2>1, <2>2 DEF SnapshotsOK, StillTrue
<1>5. CountsOK'
  BY <1>1 DEF DetailsInv, CountsOK, Trouble, Troubles
<1>6. ~early => loading.pc # "waits"
  <2>1. answers # <<>>
    BY <1>2
  <2> QED BY <2>1 DEF DetailsInv, Untouched
<1> QED BY <1>1, <1>4, <1>5, <1>6, PageStays, SnapshotSteps

LEMMA RefreshClickInv ==
  ASSUME DetailsInv, RefreshClick
  PROVE  DetailsInv'
<1>1. /\ UNCHANGED storeVars
      /\ UNCHANGED <<loading, page, seen, conn, wire, answers, drops, lost>>
      /\ clicks < MaxClicks /\ clicks' = clicks + 1 /\ asking' = asking + 1
  BY DEF RefreshClick, storeVars
<1>2. \/ loading.pc # "waits" /\ early' = early
      \/ Trouble /\ early' = TRUE
  BY DEF RefreshClick
<1>3. Status' = Status /\ SnapshotsOK /\ CountsOK
  BY <1>1, RunStays DEF DetailsInv
<1>4. SnapshotsOK'
  BY <1>1, <1>3 DEF SnapshotsOK, StillTrue
<1>5. CountsOK'
  <2>1. early' = early \/ (Trouble /\ early' = TRUE)
    BY <1>2
  <2>2. /\ drops \in Nat /\ lost \in Nat /\ early \in BOOLEAN
        /\ clicks' \in 0 .. MaxClicks /\ UNCHANGED <<drops, lost>>
    BY <1>1, <1>3 DEF CountsOK
  <2>3. CASE early' = early
    BY <1>1, <1>3, <2>2, <2>3 DEF CountsOK, Troubles
  <2>4. CASE Trouble /\ early' = TRUE
    <3>1. drops + lost < MaxTroubles
      BY <2>2, <2>4 DEF Trouble, Troubles
    <3>2. Troubles' = drops + lost + 1
      BY <2>2, <2>4 DEF Troubles
    <3>3. Troubles' <= MaxTroubles
      BY <2>2, <3>1, <3>2
    <3> QED BY <2>2, <2>4, <3>3 DEF CountsOK
  <2> QED BY <2>1, <2>3, <2>4
<1>6. ~early' => ~early /\ loading.pc # "waits"
  BY <1>2
<1> QED BY <1>1, <1>4, <1>5, <1>6, PageStays, SnapshotSteps

-----------------------------------------------------------------------------
(* The page opens on a run that was just submitted. *)

LEMMA DetailsInitInv == DetailsInit => DetailsInv
<1> SUFFICES ASSUME DetailsInit PROVE DetailsInv
  OBVIOUS
<1> DEFINE events == <<"run.created", "run.queued">>
<1>1. RowOK(Row1) /\ Row1.status = "queued" /\ Row1.attempt_count = 0
  <2>1. NoRow \in Row
    BY DEF NoRow, Row
  <2>2. MaxAttempts \in 0 .. MaxAttempts /\ "queued" \in RunStatus
    BY DEF RunStatus
  <2>3. Row1 \in Row
    BY <2>1, <2>2, Zenon DEF Row, Row1
  <2>4. /\ Row1.status = "queued" /\ Row1.attempt_count = 0 /\ Row1.max_attempts = MaxAttempts
        /\ Row1.lease = None /\ Row1.worker_id = None /\ ~Row1.cancel_requested
    BY DEF NoRow, Row1
  <2> QED BY <2>3, <2>4 DEF RowOK, Active
<1>2. LogOK(Row1, events)
  <2>1. events \in Seq(EventType)
    BY DEF EventType, LifecycleEvents
  <2>2. Follows("queued", events)
    BY DEF Follows, LifecycleEvents, StatusAfter
  <2>3. Starts(events) = {}
    BY DEF Starts
  <2>4. Cardinality(Starts(events)) = 0
    BY <2>3, FS_EmptySet
  <2> HIDE DEF events
  <2> QED BY <1>1, <2>1, <2>2, <2>4 DEF LogOK
<1>3. RowOK(NoRow) /\ LogOK(NoRow, <<>>)
  <2>1. RowOK(NoRow)
    BY DEF RowOK, Row, NoRow, Active
  <2>2. Starts(<<>>) = {}
    BY DEF Starts
  <2>3. Cardinality(Starts(<<>>)) = 0
    BY <2>2, FS_EmptySet
  <2> QED BY <2>1, <2>3 DEF LogOK, NoRow
<1>4. StoreInv
  <2>1. runs = [r \in Runs |-> IF r = Shown THEN Row1 ELSE NoRow]
    BY DEF DetailsInit
  <2>2. log = [r \in Runs |-> IF r = Shown THEN events ELSE <<>>]
    BY DEF DetailsInit
  <2>3. order \in Seq(Runs)
    BY DEF DetailsInit
  <2> HIDE DEF events
  <2>4. \A r \in Runs : RowOK(runs[r]) /\ LogOK(runs[r], log[r])
    BY <1>1, <1>2, <1>3, <2>1, <2>2
  <2>5. runs \in [Runs -> Row]
    BY <1>1, <1>3, <2>1 DEF RowOK
  <2>6. log \in [Runs -> Seq(EventType)]
    BY <1>2, <1>3, <2>2 DEF LogOK
  <2> QED BY <2>3, <2>4, <2>5, <2>6 DEF StoreInv
<1>5. Status = "queued" /\ Events = events
  BY <1>1 DEF DetailsInit, Status, Events
<1>6. RunOK /\ Len(Events) = 2
  <2>1. Len(Events) = 2 /\ DOMAIN Events = 1 .. 2
    BY <1>5
  <2>2. OutcomeIsLate
    BY <1>5, <2>1 DEF OutcomeIsLate, TerminalEvents
  <2> QED BY <1>4, <1>5, <2>1, <2>2 DEF RunOK, RunStatus
<1>7. /\ loading = [run |-> None, events |-> None, pc |-> "waits"]
      /\ page = [status |-> None, last |-> 0, stream |-> "idle", timer |-> FALSE]
      /\ seen = {} /\ conn = NoConn /\ wire = <<>> /\ asking = 0 /\ answers = <<>>
      /\ early = FALSE /\ clicks = 0 /\ drops = 0 /\ lost = 0
  BY DEF DetailsInit
<1>8. None \notin Terminal
  BY DEF RunStatus
<1>9. LoadingOK /\ PageOK
  BY <1>6, <1>7, <1>8 DEF LoadingOK, PageOK, PageState, StillTrue
<1>10. StreamOK
  BY <1>6, <1>7, EmptySeq DEF StreamOK, Connection, NoConn
<1>11. SnapshotsOK /\ CountsOK
  <2>1. answers \in Seq(RunStatus) /\ DOMAIN answers = {}
    BY <1>7, EmptySeq
  <2>2. SnapshotsOK
    BY <1>7, <2>1 DEF SnapshotsOK
  <2>3. Troubles = 0
    BY <1>7 DEF Troubles
  <2>4. early \in BOOLEAN
    BY <1>7
  <2>5. clicks \in 0 .. MaxClicks /\ drops \in Nat /\ lost \in Nat /\ Troubles <= MaxTroubles
    BY <1>7, <2>3
  <2> QED BY <2>2, <2>4, <2>5 DEF CountsOK
<1>12. GapFree /\ Untouched
  BY <1>7 DEF GapFree, Untouched, NoConn
<1> QED BY <1>6, <1>9, <1>10, <1>11, <1>12 DEF DetailsInv

LEMMA DetailsUnchangedInv ==
  ASSUME DetailsInv, UNCHANGED detailsVars
  PROVE  DetailsInv'
<1>1. /\ UNCHANGED storeVars
      /\ UNCHANGED <<loading, page, seen, conn, wire, asking, answers, early, clicks, drops, lost>>
  BY DEF detailsVars, storeVars
<1>2. RunOK' /\ Status' = Status /\ Events' = Events
  BY <1>1, RunStays DEF DetailsInv
<1>3. PageOK' /\ StreamOK' /\ (~early => GapFree')
  BY <1>1, PageStays
<1>4. LoadingOK' /\ SnapshotsOK' /\ CountsOK'
  BY <1>1, <1>2 DEF DetailsInv, LoadingOK, SnapshotsOK, CountsOK, Troubles, StillTrue
<1> QED BY <1>1, <1>2, <1>3, <1>4 DEF DetailsInv, Untouched

LEMMA DetailsInvariance == DetailsSpec => []DetailsInv
<1>1. ASSUME DetailsInv, [DetailsNext]_detailsVars PROVE DetailsInv'
  BY <1>1, RunMovesInv, ReadRunInv, ReadEventsInv, LoadedInv, LoadFailsInv, StreamListsInv,
     StreamChecksInv, ReceiveInv, StreamErrorInv, ReconnectInv, ReadSnapshotInv, AnswerInv,
     LoseAnswerInv, CancelClickInv, RefreshClickInv, DetailsUnchangedInv DEF DetailsNext
<1> QED BY <1>1, DetailsInitInv, PTL DEF DetailsSpec

-----------------------------------------------------------------------------
(* The theorems *)

\* The page's list of events has no gap, and what is on its way begins where the list
\* ends: of onRunEvent, the stream effect and stream_run_events, however often the
\* connection broke and whenever the run moved on.
THEOREM ListHasNoGap == DetailsSpec => []NoEventIsSkipped
<1>1. DetailsInv => NoEventIsSkipped
  <2> SUFFICES ASSUME DetailsInv PROVE NoEventIsSkipped
    OBVIOUS
  <2>1. StoreTypeOK
    BY StoreInvPromises DEF DetailsInv, RunOK
  <2>2. DetailsTypeOK
    BY <2>1 DEF DetailsInv, DetailsTypeOK, LoadingOK, PageOK, StreamOK, SnapshotsOK, CountsOK
  <2> QED BY <2>2 DEF DetailsInv, NoEventIsSkipped, GapFree
<1> QED BY <1>1, DetailsInvariance, PTL

\* An outcome on the page is the run's outcome and a stream that is said to be closed
\* has nothing left to bring: of setRun in loadRunDetail, refreshRunSnapshot and
\* handleCancel, in whatever order their answers arrive.
THEOREM OutcomesAreReal == DetailsSpec => []PageIsNotAhead
<1>1. DetailsInv => PageIsNotAhead
  BY DEF DetailsInv, PageOK, StillTrue, PageIsNotAhead
<1> QED BY <1>1, DetailsInvariance, PTL
=============================================================================
