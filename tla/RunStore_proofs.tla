--------------------------- MODULE RunStore_proofs ---------------------------
(***************************************************************************)
(* Every operation of the run store preserves StoreInv, whoever calls it,  *)
(* and moves one run or none of RunLifecycle: one lemma per operation, on  *)
(* which the proofs about its clients rest.                                *)
(***************************************************************************)
EXTENDS RunStore, FiniteSetTheorems, TLAPS

\* What one row keeps.
RowOK(row) ==
  /\ row \in Row
  /\ row.lease # None <=> row.status \in Active
  /\ row.status \in Active => row.worker_id # None
  /\ row.status = "queued" => row.worker_id = None
  /\ row.cancel_requested => row.status # "running"
  /\ row.attempt_count <= row.max_attempts
  /\ row.status = "absent" => row.age = None /\ row.attempt_count = 0 /\ ~row.cancel_requested

\* What a row and its log keep.
LogOK(row, events) ==
  /\ events \in Seq(EventType)
  /\ row.status # "absent" => Follows(row.status, events)
  /\ Cardinality(Starts(events)) = row.attempt_count

\* The inductive invariant of the store: RowOK and LogOK of every run.
StoreInv ==
  /\ runs \in [Runs -> Row]
  /\ log \in [Runs -> Seq(EventType)]
  /\ order \in Seq(Runs)
  /\ \A r \in Runs : RowOK(runs[r]) /\ LogOK(runs[r], log[r])

USE RunStoreAssumption

-----------------------------------------------------------------------------
(* Logs *)

\* Appending an event to a log of events: its length and its elements.
LEMMA Appended ==
  ASSUME NEW events \in Seq(EventType), NEW type \in EventType
  PROVE  /\ Append(events, type) \in Seq(EventType)
         /\ DOMAIN events = 1 .. Len(events)
         /\ DOMAIN Append(events, type) = 1 .. Len(events) + 1
         /\ Len(events) \in Nat
         /\ \A i \in 1 .. Len(events) : Append(events, type)[i] = events[i]
         /\ Append(events, type)[Len(events) + 1] = type
  OBVIOUS

\* The number of starts in a log grows by one with run.started and by nothing
\* with any other event.
LEMMA StartsOfAppend ==
  ASSUME NEW events \in Seq(EventType), NEW type \in EventType
  PROVE  /\ Cardinality(Starts(events)) \in Nat
         /\ Cardinality(Starts(Append(events, type))) =
              IF type = "run.started" THEN Cardinality(Starts(events)) + 1
                                      ELSE Cardinality(Starts(events))
<1> DEFINE n == Len(events)
<1>1. n \in Nat /\ Starts(events) \subseteq 1 .. n
  BY Appended DEF Starts
<1>2. IsFiniteSet(Starts(events))
  <2>1. IsFiniteSet(1 .. n)
    BY <1>1, FS_Interval
  <2> QED BY <1>1, <2>1, FS_Subset
<1>3. Cardinality(Starts(events)) \in Nat
  BY <1>2, FS_CardinalityType
<1>4. CASE type = "run.started"
  <2>1. Starts(Append(events, type)) = Starts(events) \union {n + 1}
    BY <1>4, Appended DEF Starts
  <2>2. n + 1 \notin Starts(events)
    BY <1>1
  <2>3. Cardinality(Starts(events) \union {n + 1}) = Cardinality(Starts(events)) + 1
    BY <1>2, <2>2, FS_AddElement
  <2> QED BY <1>3, <1>4, <2>1, <2>3
<1>5. CASE type # "run.started"
  <2>1. Starts(Append(events, type)) = Starts(events)
    BY <1>5, Appended DEF Starts
  <2> QED BY <1>3, <1>5, <2>1
<1> QED BY <1>4, <1>5

\* A lifecycle event settles the status its row must have; a report does not
\* touch it.
LEMMA FollowsOfAppend ==
  ASSUME NEW events \in Seq(EventType), NEW type \in EventType, NEW status
  PROVE  /\ type \in LifecycleEvents /\ status \in StatusAfter(type)
              => Follows(status, Append(events, type))
         /\ type \notin LifecycleEvents /\ Follows(status, events)
              => Follows(status, Append(events, type))
<1> DEFINE n == Len(events)
<1>1. ASSUME type \in LifecycleEvents, status \in StatusAfter(type)
      PROVE  Follows(status, Append(events, type))
  <2>1. /\ n + 1 \in DOMAIN Append(events, type)
        /\ Append(events, type)[n + 1] = type
        /\ \A j \in DOMAIN Append(events, type) : ~(j > n + 1)
    BY Appended
  <2> QED BY <1>1, <2>1 DEF Follows
<1>2. ASSUME type \notin LifecycleEvents, Follows(status, events)
      PROVE  Follows(status, Append(events, type))
  <2>1. PICK i \in DOMAIN events :
          /\ events[i] \in LifecycleEvents
          /\ status \in StatusAfter(events[i])
          /\ \A j \in DOMAIN events : j > i => events[j] \notin LifecycleEvents
    BY <1>2 DEF Follows
  <2>2. i \in DOMAIN Append(events, type) /\ Append(events, type)[i] = events[i]
    BY Appended
  <2>3. ASSUME NEW j \in DOMAIN Append(events, type), j > i
        PROVE  Append(events, type)[j] \notin LifecycleEvents
    <3>1. CASE j = n + 1
      BY <1>2, <3>1, Appended
    <3>2. CASE j # n + 1
      <4>1. j \in DOMAIN events /\ Append(events, type)[j] = events[j]
        BY <3>2, Appended
      <4> QED BY <2>1, <2>3, <4>1
    <3> QED BY <3>1, <3>2
  <2> QED BY <2>1, <2>2, <2>3 DEF Follows
<1> QED BY <1>1, <1>2

-----------------------------------------------------------------------------
(* Rows *)

\* A transaction writes one row and one log, and both are right again.
LEMMA WriteOne ==
  ASSUME StoreInv, NEW r \in Runs, NEW row, NEW events,
         RowOK(row), LogOK(row, events),
         runs' = [runs EXCEPT ![r] = row],
         log' = [log EXCEPT ![r] = events],
         order' \in Seq(Runs)
  PROVE  StoreInv'
<1>1. row \in Row /\ events \in Seq(EventType)
  BY DEF RowOK, LogOK
<1>2. runs' \in [Runs -> Row] /\ log' \in [Runs -> Seq(EventType)]
  BY <1>1 DEF StoreInv
<1>3. ASSUME NEW q \in Runs
      PROVE  RowOK(runs'[q]) /\ LogOK(runs'[q], log'[q])
  <2>1. CASE q = r
    <3>1. runs'[q] = row /\ log'[q] = events
      BY <2>1 DEF StoreInv
    <3> QED BY <3>1
  <2>2. CASE q # r
    <3>1. runs'[q] = runs[q] /\ log'[q] = log[q]
      BY <2>2 DEF StoreInv
    <3> QED BY <3>1 DEF StoreInv
  <2> QED BY <2>1, <2>2
<1> QED BY <1>2, <1>3 DEF StoreInv

\* The common form of the operations: a row, and an event that explains it.
LEMMA WriteAndLog ==
  ASSUME StoreInv, NEW r \in Runs, NEW row, NEW type \in EventType,
         RowOK(row),
         Update(r, row), InsertEvent(r, type), order' \in Seq(Runs),
         \/ type \in LifecycleEvents /\ row.status \in StatusAfter(type)
         \/ type \notin LifecycleEvents /\ row.status = runs[r].status,
         row.attempt_count =
           IF type = "run.started" THEN runs[r].attempt_count + 1
                                   ELSE runs[r].attempt_count
  PROVE  StoreInv'
<1> DEFINE events == Append(log[r], type)
<1>1. log[r] \in Seq(EventType) /\ LogOK(runs[r], log[r])
  BY DEF StoreInv
<1>2. Cardinality(Starts(events)) = row.attempt_count
  BY <1>1, StartsOfAppend DEF LogOK
<1>3. row.status # "absent" => Follows(row.status, events)
  BY <1>1, FollowsOfAppend DEF LogOK
<1>4. LogOK(row, events)
  BY <1>1, <1>2, <1>3, Appended DEF LogOK
<1>5. runs' = [runs EXCEPT ![r] = row] /\ log' = [log EXCEPT ![r] = events]
  BY DEF Update, InsertEvent
<1> QED BY <1>4, <1>5, WriteOne

-----------------------------------------------------------------------------
(* The operations *)

USE DEF RunStatus, Active, Terminal

\* The events the store writes, and the statuses that go with them.
LEMMA EventFacts ==
  /\ LifecycleEvents \subseteq EventType
  /\ {"run.started", "run.cancel_requested", "run.retry_scheduled", "run.completed",
      "run.failed", "run.cancelled"} \subseteq LifecycleEvents
  /\ StatusAfter("run.started") = Active
  /\ "cancelling" \in StatusAfter("run.cancel_requested")
  /\ "queued" \in StatusAfter("run.retry_scheduled")
  /\ "completed" \in StatusAfter("run.completed")
  /\ "failed" \in StatusAfter("run.failed")
  /\ "cancelled" \in StatusAfter("run.cancelled")
  BY DEF EventType, LifecycleEvents, StatusAfter

LEMMA CreateRunInv ==
  ASSUME StoreInv, NEW r \in Runs, NEW attempts \in 1 .. MaxAttempts,
         NEW delay \in 0 .. MaxDelay, CreateRun(r, attempts, delay)
  PROVE  StoreInv'
<1> DEFINE row == [NoRow EXCEPT !.status = "queued", !.max_attempts = attempts, !.delay = delay]
           events == <<"run.created", "run.queued">>
<1>1. RowOK(row)
  <2>1. NoRow \in Row /\ attempts \in 0 .. MaxAttempts /\ "queued" \in RunStatus
    BY DEF NoRow, Row
  <2>2. row \in Row
    BY <2>1, Zenon DEF Row
  <2>3. /\ row.status = "queued"
        /\ row.max_attempts = attempts
        /\ row.attempt_count = 0
        /\ row.lease = None
        /\ row.worker_id = None
        /\ ~row.cancel_requested
    BY DEF NoRow
  <2> QED BY <2>2, <2>3 DEF RowOK
<1>2. events \in Seq(EventType)
  BY DEF EventType, LifecycleEvents
<1>3. Follows("queued", events)
  BY DEF Follows, LifecycleEvents, StatusAfter
<1>4. Cardinality(Starts(events)) = 0
  <2>1. Starts(events) = {}
    BY DEF Starts
  <2> QED BY <2>1, FS_EmptySet
<1>5. LogOK(row, events)
  BY <1>2, <1>3, <1>4 DEF LogOK, NoRow
<1>6. order' \in Seq(Runs)
  BY DEF CreateRun, StoreInv
<1> QED BY <1>1, <1>5, <1>6, WriteOne DEF CreateRun, Update

LEMMA CancelRunInv ==
  ASSUME StoreInv, NEW r \in Runs, CancelRun(r)
  PROVE  StoreInv'
<1>1. RowOK(runs[r]) /\ order \in Seq(Runs)
  BY DEF StoreInv
<1>2. CASE CancelQueuedRun(r)
  <2> DEFINE row == [runs[r] EXCEPT !.status = "cancelled", !.cancel_requested = TRUE,
                                    !.completed = TRUE, !.lease = None]
  <2>1. RowOK(row)
    BY <1>1 DEF RowOK, Row
  <2>2. row.status = "cancelled" /\ row.attempt_count = runs[r].attempt_count
    BY <1>1 DEF RowOK, Row
  <2>3. Update(r, row) /\ InsertEvent(r, "run.cancelled") /\ order' = order
    BY <1>2 DEF CancelQueuedRun
  <2> QED BY <1>1, <2>1, <2>2, <2>3, EventFacts, WriteAndLog
<1>3. CASE CancelActiveRun(r)
  <2> DEFINE row == [runs[r] EXCEPT !.status = "cancelling", !.cancel_requested = TRUE]
  <2>1. RowOK(row)
    BY <1>1, <1>3 DEF RowOK, Row, CancelActiveRun
  <2>2. row.status = "cancelling" /\ row.attempt_count = runs[r].attempt_count
    BY <1>1 DEF RowOK, Row
  <2>3. Update(r, row) /\ InsertEvent(r, "run.cancel_requested") /\ order' = order
    BY <1>3 DEF CancelActiveRun
  <2> QED BY <1>1, <2>1, <2>2, <2>3, EventFacts, WriteAndLog
<1> QED BY <1>2, <1>3 DEF CancelRun

LEMMA ClaimNextRunInv ==
  ASSUME StoreInv, NEW r \in Runs, NEW w \in Workers, NEW locked,
         ClaimNextRun(r, w, locked)
  PROVE  StoreInv'
<1> DEFINE row == [runs[r] EXCEPT
                     !.status = IF runs[r].cancel_requested THEN "cancelling" ELSE "running",
                     !.worker_id = w,
                     !.attempt_count = @ + 1,
                     !.age = IF @ = None THEN 0 ELSE @,
                     !.lease = LeaseSeconds]
<1>1. RowOK(runs[r]) /\ order \in Seq(Runs)
  BY DEF StoreInv
<1>2. runs[r].attempt_count < runs[r].max_attempts
  BY DEF ClaimNextRun, NextClaimable, Claimable
<1>3. /\ row.status = IF runs[r].cancel_requested THEN "cancelling" ELSE "running"
      /\ row.worker_id = w
      /\ row.attempt_count = runs[r].attempt_count + 1
      /\ row.max_attempts = runs[r].max_attempts
      /\ row.lease = LeaseSeconds
      /\ row.cancel_requested = runs[r].cancel_requested
  BY <1>1 DEF RowOK, Row
<1>4. row \in Row
  <2>1. /\ runs[r] \in Row
        /\ (IF runs[r].cancel_requested THEN "cancelling" ELSE "running") \in Active
        /\ runs[r].attempt_count + 1 \in Nat
        /\ (IF runs[r].age = None THEN 0 ELSE runs[r].age) \in (0 .. AgeCap) \union {None}
        /\ LeaseSeconds \in 0 .. LeaseSeconds
    BY <1>1 DEF RowOK, Row
  <2> QED BY <2>1, ZenonT(40) DEF Row
<1>5. RowOK(row)
  BY <1>1, <1>2, <1>3, <1>4 DEF RowOK, Row
<1>6. Update(r, row) /\ InsertEvent(r, "run.started") /\ order' = order
  BY DEF ClaimNextRun
<1> QED BY <1>1, <1>3, <1>5, <1>6, EventFacts, WriteAndLog

LEMMA RefreshLeaseInv ==
  ASSUME StoreInv, NEW r \in Runs, NEW w \in Workers, RefreshLease(r, w)
  PROVE  StoreInv'
<1> DEFINE row == [runs[r] EXCEPT !.lease = LeaseSeconds]
<1>1. RowOK(runs[r]) /\ LogOK(runs[r], log[r]) /\ order \in Seq(Runs)
  BY DEF StoreInv
<1>2. /\ row \in Row
      /\ row.lease = LeaseSeconds
      /\ \A f \in {"status", "worker_id", "cancel_requested", "attempt_count", "max_attempts"} :
           row[f] = runs[r][f]
  BY <1>1, SMTT(20) DEF RowOK, Row
<1>4. runs[r].status \in Active
  BY DEF RefreshLease, Refreshable
<1>5. RowOK(row) /\ LogOK(row, log[r])
  BY <1>1, <1>2, <1>4 DEF RowOK, LogOK
<1>3. log' = [log EXCEPT ![r] = log[r]] /\ order' = order
  BY DEF RefreshLease, StoreInv
<1> QED BY <1>1, <1>3, <1>5, WriteOne DEF RefreshLease, Update

LEMMA RequeueRunInv ==
  ASSUME StoreInv, NEW r \in Runs, NEW delay \in 0 .. MaxDelay, RequeueRun(r, delay)
  PROVE  StoreInv'
<1> DEFINE row == [runs[r] EXCEPT !.status = "queued", !.delay = delay,
                                  !.worker_id = None, !.lease = None]
<1>1. RowOK(runs[r]) /\ order \in Seq(Runs)
  BY DEF StoreInv
<1>2. RowOK(row)
  BY <1>1 DEF RowOK, Row
<1>3. row.status = "queued" /\ row.attempt_count = runs[r].attempt_count
  BY <1>1 DEF RowOK, Row
<1>4. Update(r, row) /\ InsertEvent(r, "run.retry_scheduled") /\ order' = order
  BY DEF RequeueRun
<1> QED BY <1>1, <1>2, <1>3, <1>4, EventFacts, WriteAndLog

LEMMA AppendEventInv ==
  ASSUME StoreInv, NEW r \in Runs, NEW type \in ReportEvents, AppendEvent(r, type)
  PROVE  StoreInv'
<1>1. RowOK(runs[r]) /\ order \in Seq(Runs)
  BY DEF StoreInv
<1>2. /\ type \in EventType
      /\ type \notin LifecycleEvents
      /\ type # "run.started"
  BY DEF EventType, LifecycleEvents, ReportEvents
<1>3. Update(r, runs[r]) /\ InsertEvent(r, type) /\ order' = order
  BY DEF AppendEvent, Update, StoreInv
<1> QED BY <1>1, <1>2, <1>3, WriteAndLog

LEMMA FinishRunInv ==
  ASSUME StoreInv, NEW r \in Runs, NEW status, NEW event, FinishRun(r, status, event),
         <<status, event>> \in {<<"completed", "run.completed">>, <<"failed", "run.failed">>,
                                <<"cancelled", "run.cancelled">>}
  PROVE  StoreInv'
<1> DEFINE row == [runs[r] EXCEPT !.status = status, !.completed = TRUE, !.lease = None]
<1>1. RowOK(runs[r]) /\ order \in Seq(Runs)
  BY DEF StoreInv
<1>2. status \in Terminal
  OBVIOUS
<1>3. RowOK(row)
  BY <1>1, <1>2 DEF RowOK, Row
<1>4. row.status = status /\ row.attempt_count = runs[r].attempt_count
  BY <1>1 DEF RowOK, Row
<1>5. event \in LifecycleEvents /\ event # "run.started" /\ status \in StatusAfter(event)
  BY EventFacts
<1>6. Update(r, row) /\ InsertEvent(r, event) /\ order' = order
  BY DEF FinishRun
<1> QED BY <1>1, <1>3, <1>4, <1>5, <1>6, EventFacts, WriteAndLog

LEMMA TickInv ==
  ASSUME StoreInv, Tick
  PROVE  StoreInv'
<1>1. ASSUME NEW r \in Runs
      PROVE  RowOK(runs'[r]) /\ LogOK(runs'[r], log'[r])
  <2>1. RowOK(runs[r]) /\ LogOK(runs[r], log[r])
    BY DEF StoreInv
  <2>2. runs'[r] = [runs[r] EXCEPT !.lease = IF @ = None THEN None ELSE Sooner(@),
                                   !.delay = Sooner(@),
                                   !.age = IF @ = None THEN None ELSE Later(@)]
    BY DEF Tick
  <2> DEFINE row == runs[r]
  <2>5. /\ row.lease = None => runs'[r].lease = None
        /\ row.lease # None => runs'[r].lease \in 0 .. LeaseSeconds
        /\ runs'[r].delay \in 0 .. MaxDelay
        /\ runs'[r].age \in (0 .. AgeCap) \union {None}
        /\ row.age = None => runs'[r].age = None
    BY <2>1, <2>2 DEF RowOK, Row, Sooner, Later
  <2>6. /\ \A f \in {"status", "worker_id", "cancel_requested", "completed",
                     "attempt_count", "max_attempts"} : runs'[r][f] = row[f]
        /\ runs'[r] \in Row
    BY <2>1, <2>2, <2>5 DEF RowOK, Row
  <2>3. RowOK(runs'[r])
    BY <2>1, <2>5, <2>6 DEF RowOK, Row
  <2>4. log'[r] = log[r] /\ runs'[r].status = runs[r].status
        /\ runs'[r].attempt_count = runs[r].attempt_count
    BY <2>1, <2>2 DEF Tick, RowOK, Row
  <2> QED BY <2>1, <2>3, <2>4 DEF LogOK
<1>2. runs' \in [Runs -> Row]
  BY <1>1 DEF Tick, RowOK
<1> QED BY <1>1, <1>2 DEF StoreInv, Tick

LEMMA StoreInitInv == StoreInit => StoreInv
<1> SUFFICES ASSUME StoreInit PROVE StoreInv
  OBVIOUS
<1>1. RowOK(NoRow)
  BY DEF RowOK, Row, NoRow
<1>2. Cardinality(Starts(<<>>)) = 0
  <2>1. Starts(<<>>) = {}
    BY DEF Starts
  <2> QED BY <2>1, FS_EmptySet
<1>3. LogOK(NoRow, <<>>)
  BY <1>2 DEF LogOK, NoRow
<1> QED BY <1>1, <1>3 DEF StoreInv, StoreInit, RowOK

LEMMA StoreUnchangedInv == StoreInv /\ UNCHANGED storeVars => StoreInv'
  BY DEF StoreInv, storeVars, RowOK, LogOK, Row

\* StoreInv says everything the store promises.
LEMMA StoreInvPromises ==
  StoreInv => /\ StoreTypeOK
              /\ LeaseMatchesStatus
              /\ AttemptsMatchLog
              /\ StatusFollowsLog
              /\ CancelRequestSticks
  BY DEF StoreInv, RowOK, LogOK, StoreTypeOK, LeaseMatchesStatus, AttemptsMatchLog,
         StatusFollowsLog, CancelRequestSticks, Exists

-----------------------------------------------------------------------------
(* What each operation does to the rows, field by field. *)

Same(old, new, fields) == \A f \in fields : new[f] = old[f]

Fields == {"status", "attempt_count", "max_attempts", "worker_id", "lease",
           "delay", "age", "cancel_requested", "completed"}

\* The rows of other runs are never touched.
LEMMA UpdateRow ==
  ASSUME StoreInv, NEW r \in Runs, NEW row, Update(r, row)
  PROVE  runs'[r] = row /\ \A q \in Runs : q # r => runs'[q] = runs[q]
  BY DEF Update, StoreInv

LEMMA RowType ==
  ASSUME StoreInv, NEW r \in Runs
  PROVE  runs[r] \in Row /\ RowOK(runs[r])
  BY DEF StoreInv

LEMMA CreateRunRow ==
  ASSUME StoreInv, NEW r \in Runs, NEW attempts \in 1 .. MaxAttempts,
         NEW delay \in 0 .. MaxDelay, CreateRun(r, attempts, delay)
  PROVE  /\ runs[r].status = "absent"
         /\ runs'[r].status = "queued"
         /\ runs'[r].max_attempts = attempts
         /\ runs'[r].attempt_count = 0
         /\ ~runs'[r].cancel_requested
         /\ ~runs'[r].completed
         /\ \A q \in Runs : q # r => runs'[q] = runs[q]
<1> DEFINE row == [NoRow EXCEPT !.status = "queued", !.max_attempts = attempts, !.delay = delay]
<1>1. runs'[r] = row /\ \A q \in Runs : q # r => runs'[q] = runs[q]
  BY UpdateRow DEF CreateRun
<1>2. /\ row.status = "queued"
      /\ row.max_attempts = attempts
      /\ row.attempt_count = 0
      /\ ~row.cancel_requested
      /\ ~row.completed
  BY DEF NoRow
<1> QED BY <1>1, <1>2 DEF CreateRun, Exists

LEMMA CancelRunRow ==
  ASSUME StoreInv, NEW r \in Runs, CancelRun(r)
  PROVE  /\ \/ /\ runs[r].status = "queued"
               /\ runs'[r].status = "cancelled"
               /\ runs'[r].completed
            \/ /\ runs[r].status \in Active
               /\ runs'[r].status = "cancelling"
               /\ Same(runs[r], runs'[r], {"worker_id", "lease", "completed"})
         /\ runs'[r].cancel_requested
         /\ Same(runs[r], runs'[r], {"attempt_count", "max_attempts", "age"})
         /\ \A q \in Runs : q # r => runs'[q] = runs[q]
<1>1. CASE CancelQueuedRun(r)
  <2> DEFINE row == [runs[r] EXCEPT !.status = "cancelled", !.cancel_requested = TRUE,
                                    !.completed = TRUE, !.lease = None]
  <2>1. runs'[r] = row /\ \A q \in Runs : q # r => runs'[q] = runs[q]
    BY <1>1, UpdateRow DEF CancelQueuedRun
  <2>2. /\ row.status = "cancelled" /\ row.completed /\ row.cancel_requested
        /\ row.attempt_count = runs[r].attempt_count /\ row.max_attempts = runs[r].max_attempts
        /\ row.age = runs[r].age
    BY RowType DEF Row
  <2> QED BY <1>1, <2>1, <2>2 DEF CancelQueuedRun, Same
<1>2. CASE CancelActiveRun(r)
  <2> DEFINE row == [runs[r] EXCEPT !.status = "cancelling", !.cancel_requested = TRUE]
  <2>1. runs'[r] = row /\ \A q \in Runs : q # r => runs'[q] = runs[q]
    BY <1>2, UpdateRow DEF CancelActiveRun
  <2>2. /\ row.status = "cancelling" /\ row.cancel_requested
        /\ row.worker_id = runs[r].worker_id /\ row.lease = runs[r].lease
        /\ row.completed = runs[r].completed
        /\ row.attempt_count = runs[r].attempt_count /\ row.max_attempts = runs[r].max_attempts
        /\ row.age = runs[r].age
    BY RowType DEF Row
  <2> QED BY <1>2, <2>1, <2>2 DEF CancelActiveRun, Same
<1> QED BY <1>1, <1>2 DEF CancelRun

LEMMA ClaimNextRunRow ==
  ASSUME StoreInv, NEW r \in Runs, NEW w \in Workers, NEW locked,
         ClaimNextRun(r, w, locked)
  PROVE  /\ runs[r].status = "queued" \/ (runs[r].status \in Active /\ runs[r].lease = 0)
         /\ runs[r].attempt_count < runs[r].max_attempts
         /\ runs'[r].status = IF runs[r].cancel_requested THEN "cancelling" ELSE "running"
         /\ runs'[r].worker_id = w
         /\ runs'[r].attempt_count = runs[r].attempt_count + 1
         /\ runs'[r].lease = LeaseSeconds
         /\ runs'[r].age = IF runs[r].age = None THEN 0 ELSE runs[r].age
         /\ Same(runs[r], runs'[r], {"max_attempts", "cancel_requested", "completed"})
         /\ \A q \in Runs : q # r => runs'[q] = runs[q]
<1>1. Claimable(r)
  BY DEF ClaimNextRun, NextClaimable
<1> DEFINE row == [runs[r] EXCEPT
                     !.status = IF runs[r].cancel_requested THEN "cancelling" ELSE "running",
                     !.worker_id = w,
                     !.attempt_count = @ + 1,
                     !.age = IF @ = None THEN 0 ELSE @,
                     !.lease = LeaseSeconds]
<1>2. runs'[r] = row /\ \A q \in Runs : q # r => runs'[q] = runs[q]
  BY UpdateRow DEF ClaimNextRun
<1>3. /\ row.status = IF runs[r].cancel_requested THEN "cancelling" ELSE "running"
      /\ row.worker_id = w
      /\ row.attempt_count = runs[r].attempt_count + 1
      /\ row.lease = LeaseSeconds
      /\ row.age = IF runs[r].age = None THEN 0 ELSE runs[r].age
  BY RowType DEF Row
<1>4. Same(runs[r], row, {"max_attempts", "cancel_requested", "completed"})
  BY RowType DEF Row, Same
<1>5. /\ runs[r].status = "queued" \/ (runs[r].status \in Active /\ runs[r].lease = 0)
      /\ runs[r].attempt_count < runs[r].max_attempts
  BY <1>1 DEF Claimable
<1> HIDE DEF row
<1> QED BY <1>2, <1>3, <1>4, <1>5, Zenon

LEMMA RefreshLeaseRow ==
  ASSUME StoreInv, NEW r \in Runs, NEW w \in Workers, RefreshLease(r, w)
  PROVE  /\ runs'[r].lease = LeaseSeconds
         /\ Same(runs[r], runs'[r], Fields \ {"lease"})
         /\ \A q \in Runs : q # r => runs'[q] = runs[q]
  BY UpdateRow, RowType DEF RefreshLease, Same, Row, Fields

LEMMA RequeueRunRow ==
  ASSUME StoreInv, NEW r \in Runs, NEW delay, RequeueRun(r, delay)
  PROVE  /\ runs'[r].status = "queued"
         /\ Same(runs[r], runs'[r], {"attempt_count", "max_attempts", "cancel_requested",
                                     "completed", "age"})
         /\ \A q \in Runs : q # r => runs'[q] = runs[q]
<1> DEFINE row == [runs[r] EXCEPT !.status = "queued", !.delay = delay,
                                  !.worker_id = None, !.lease = None]
<1>1. runs'[r] = row /\ \A q \in Runs : q # r => runs'[q] = runs[q]
  BY UpdateRow DEF RequeueRun
<1>2. /\ row.status = "queued"
      /\ Same(runs[r], row, {"attempt_count", "max_attempts", "cancel_requested", "completed",
                              "age"})
  BY RowType DEF Row, Same
<1> QED BY <1>1, <1>2

LEMMA FinishRunRow ==
  ASSUME StoreInv, NEW r \in Runs, NEW status, NEW event, FinishRun(r, status, event)
  PROVE  /\ runs'[r].status = status
         /\ runs'[r].completed
         /\ Same(runs[r], runs'[r], {"attempt_count", "max_attempts", "cancel_requested", "age"})
         /\ \A q \in Runs : q # r => runs'[q] = runs[q]
<1> DEFINE row == [runs[r] EXCEPT !.status = status, !.completed = TRUE, !.lease = None]
<1>1. runs'[r] = row /\ \A q \in Runs : q # r => runs'[q] = runs[q]
  BY UpdateRow DEF FinishRun
<1>2. /\ row.status = status
      /\ row.completed
      /\ Same(runs[r], row, {"attempt_count", "max_attempts", "cancel_requested", "age"})
  BY RowType DEF Row, Same
<1> QED BY <1>1, <1>2

LEMMA TickRow ==
  ASSUME StoreInv, Tick, NEW r \in Runs
  PROVE  /\ runs'[r].lease = IF runs[r].lease = None THEN None ELSE Sooner(runs[r].lease)
         /\ runs'[r].age = IF runs[r].age = None THEN None ELSE Later(runs[r].age)
         /\ Same(runs[r], runs'[r], Fields \ {"lease", "delay", "age"})
<1>1. runs'[r] = [runs[r] EXCEPT !.lease = IF @ = None THEN None ELSE Sooner(@),
                                 !.delay = Sooner(@),
                                 !.age = IF @ = None THEN None ELSE Later(@)]
  BY DEF Tick
<1> QED BY <1>1, RowType DEF Row, Same, Fields

-----------------------------------------------------------------------------
(* Any call, by anybody: a worker's writes are about a run that was claimed. *)

WorkerWrites(r) ==
  \/ \E delay \in 0 .. MaxDelay : RequeueRun(r, delay)
  \/ \E type \in ReportEvents : AppendEvent(r, type)
  \/ MarkRunCompleted(r) \/ MarkRunFailed(r) \/ MarkRunCancelled(r)

StoreCall ==
  \/ \E r \in Runs, attempts \in 1 .. MaxAttempts, delay \in 0 .. MaxDelay :
       CreateRun(r, attempts, delay)
  \/ \E r \in Runs : CancelRun(r)
  \/ \E r \in Runs, w \in Workers, locked \in SUBSET Runs : ClaimNextRun(r, w, locked)
  \/ \E r \in Runs, w \in Workers : RefreshLease(r, w)
  \/ \E r \in Runs : runs[r].attempt_count > 0 /\ WorkerWrites(r)
  \/ Tick

\* What a call may do to a row and to its log.
RowStep(old, new) ==
  /\ new.attempt_count > old.attempt_count => old.lease \in {None, 0} /\ old.delay = 0
  /\ new.attempt_count >= old.attempt_count
  /\ old.age # None => new.age \in {old.age, Later(old.age)}
  /\ new.status = "absent" => old.status = "absent"
  /\ new.status = "completed" => old.status = "completed" \/ old.attempt_count > 0
LogStep(old, new) == new = old \/ \E type \in EventType : new = Append(old, type)

LEMMA StoreCallInv ==
  ASSUME StoreInv, [StoreCall]_storeVars
  PROVE  StoreInv'
<1>1. ASSUME NEW r \in Runs, WorkerWrites(r) PROVE StoreInv'
  BY <1>1, RequeueRunInv, AppendEventInv, FinishRunInv
     DEF WorkerWrites, MarkRunCompleted, MarkRunFailed, MarkRunCancelled
<1>2. CASE StoreCall
  BY <1>1, <1>2, CreateRunInv, CancelRunInv, ClaimNextRunInv, RefreshLeaseInv, TickInv
     DEF StoreCall
<1> QED BY <1>2, StoreUnchangedInv

\* A row that keeps its status, its attempts and its age makes a legal step.
LEMMA StillRow ==
  ASSUME NEW old \in Row, NEW new, Same(old, new, {"status", "attempt_count", "age"})
  PROVE  RowStep(old, new)
<1>1. old.attempt_count \in Nat
  BY DEF Row
<1> QED BY <1>1 DEF Same, RowStep

LEMMA StoreCallRow ==
  ASSUME StoreInv, [StoreCall]_storeVars, NEW q \in Runs
  PROVE  RowStep(runs[q], runs'[q])
<1>1. runs[q] \in Row /\ RowOK(runs[q]) /\ runs[q].attempt_count \in Nat
  BY RowType DEF Row
<1>2. ASSUME runs'[q] = runs[q] PROVE RowStep(runs[q], runs'[q])
  BY <1>1, <1>2, StillRow DEF Same
<1>3. ASSUME NEW r \in Runs, NEW attempts \in 1 .. MaxAttempts, NEW delay \in 0 .. MaxDelay,
             CreateRun(r, attempts, delay)
      PROVE  RowStep(runs[q], runs'[q])
  <2>1. /\ runs[r].status = "absent" /\ runs'[r].status = "queued" /\ runs'[r].attempt_count = 0
        /\ \A p \in Runs : p # r => runs'[p] = runs[p]
    BY <1>3, CreateRunRow
  <2>2. CASE q = r
    BY <1>1, <2>1, <2>2 DEF RowOK, RowStep
  <2> QED BY <1>2, <2>1, <2>2
<1>4. ASSUME NEW r \in Runs, CancelRun(r) PROVE RowStep(runs[q], runs'[q])
  <2>1. /\ runs'[r].status \in {"cancelled", "cancelling"}
        /\ runs'[r].attempt_count = runs[r].attempt_count /\ runs'[r].age = runs[r].age
        /\ \A p \in Runs : p # r => runs'[p] = runs[p]
    BY <1>4, CancelRunRow DEF Same
  <2>2. CASE q = r
    BY <1>1, <2>1, <2>2 DEF RowStep
  <2> QED BY <1>2, <2>1, <2>2
<1>5. ASSUME NEW r \in Runs, NEW w \in Workers, NEW locked, ClaimNextRun(r, w, locked)
      PROVE  RowStep(runs[q], runs'[q])
  <2>1. /\ runs'[r].status \in Active
        /\ runs'[r].attempt_count = runs[r].attempt_count + 1
        /\ runs[r].age # None => runs'[r].age = runs[r].age
        /\ \A p \in Runs : p # r => runs'[p] = runs[p]
    BY <1>5, ClaimNextRunRow
  <2>2. CASE q = r
    <3>1. runs[q].lease \in {None, 0} /\ runs[q].delay = 0
      BY <1>1, <1>5, <2>2 DEF ClaimNextRun, NextClaimable, Claimable, RowOK
    <3> QED BY <1>1, <2>1, <2>2, <3>1 DEF RowStep
  <2> QED BY <1>2, <2>1, <2>2
<1>6. ASSUME NEW r \in Runs, NEW w \in Workers, RefreshLease(r, w)
      PROVE  RowStep(runs[q], runs'[q])
  <2>1. /\ Same(runs[r], runs'[r], {"status", "attempt_count", "age"})
        /\ \A p \in Runs : p # r => runs'[p] = runs[p]
    BY <1>6, RefreshLeaseRow DEF Same, Fields
  <2> QED BY <1>1, <1>2, <2>1, StillRow
<1>7. ASSUME NEW r \in Runs, runs[r].attempt_count > 0, WorkerWrites(r)
      PROVE  RowStep(runs[q], runs'[q])
  <2>1. ASSUME runs'[r].status # "absent",
               Same(runs[r], runs'[r], {"attempt_count", "age"}),
               \A p \in Runs : p # r => runs'[p] = runs[p]
        PROVE  RowStep(runs[q], runs'[q])
    <3>1. CASE q = r
      <4>1. runs'[q].attempt_count = runs[q].attempt_count /\ runs'[q].age = runs[q].age
        BY <2>1, <3>1 DEF Same
      <4> QED BY <1>1, <1>7, <2>1, <3>1, <4>1 DEF RowStep
    <3> QED BY <1>2, <2>1, <3>1
  <2>2. ASSUME NEW delay, RequeueRun(r, delay) PROVE RowStep(runs[q], runs'[q])
    <3>1. runs'[r].status # "absent" /\ Same(runs[r], runs'[r], {"attempt_count", "age"})
      BY <2>2, RequeueRunRow DEF Same
    <3> QED BY <2>1, <2>2, <3>1, RequeueRunRow
  <2>3. ASSUME NEW type, AppendEvent(r, type) PROVE RowStep(runs[q], runs'[q])
    BY <1>2, <2>3 DEF AppendEvent
  <2>4. ASSUME NEW status \in Terminal, NEW event, FinishRun(r, status, event)
        PROVE  RowStep(runs[q], runs'[q])
    <3>1. /\ runs'[r].status # "absent" /\ Same(runs[r], runs'[r], {"attempt_count", "age"})
          /\ \A p \in Runs : p # r => runs'[p] = runs[p]
      BY <2>4, FinishRunRow DEF Same
    <3> QED BY <2>1, <3>1
  <2> QED BY <1>7, <2>2, <2>3, <2>4
          DEF WorkerWrites, MarkRunCompleted, MarkRunFailed, MarkRunCancelled
<1>8. CASE Tick
  <2>1. /\ runs[q].age # None => runs'[q].age = Later(runs[q].age)
        /\ runs'[q].status = runs[q].status /\ runs'[q].attempt_count = runs[q].attempt_count
    BY <1>8, TickRow DEF Same, Fields
  <2> QED BY <1>1, <2>1 DEF RowStep
<1>9. CASE UNCHANGED storeVars
  BY <1>2, <1>9 DEF storeVars
<1> QED BY <1>3, <1>4, <1>5, <1>6, <1>7, <1>8, <1>9 DEF StoreCall

\* The log of a run that exists only grows, by one event at a time.
LEMMA StoreCallLog ==
  ASSUME StoreInv, [StoreCall]_storeVars, NEW q \in Runs, Exists(q)
  PROVE  LogStep(log[q], log'[q])
<1>1. ASSUME NEW r \in Runs, NEW type \in EventType, InsertEvent(r, type)
      PROVE  LogStep(log[q], log'[q])
  BY <1>1 DEF InsertEvent, LogStep, StoreInv
<1>2. ASSUME log' = log PROVE LogStep(log[q], log'[q])
  BY <1>2 DEF LogStep
<1>3. {"run.started", "run.cancel_requested", "run.retry_scheduled", "run.completed",
       "run.failed", "run.cancelled"} \union ReportEvents \subseteq EventType
  BY DEF EventType, LifecycleEvents
<1>4. ASSUME NEW r \in Runs, NEW attempts, NEW delay, CreateRun(r, attempts, delay)
      PROVE  LogStep(log[q], log'[q])
  BY <1>4 DEF CreateRun, LogStep, StoreInv
<1>5. ASSUME NEW r \in Runs, CancelRun(r) PROVE LogStep(log[q], log'[q])
  BY <1>1, <1>3, <1>5 DEF CancelRun, CancelQueuedRun, CancelActiveRun
<1>6. ASSUME NEW r \in Runs, NEW w, NEW locked, ClaimNextRun(r, w, locked)
      PROVE  LogStep(log[q], log'[q])
  BY <1>1, <1>3, <1>6 DEF ClaimNextRun
<1>7. ASSUME NEW r \in Runs, WorkerWrites(r) PROVE LogStep(log[q], log'[q])
  BY <1>1, <1>3, <1>7 DEF WorkerWrites, RequeueRun, AppendEvent, FinishRun,
                          MarkRunCompleted, MarkRunFailed, MarkRunCancelled
<1>8. ASSUME NEW r \in Runs, NEW w, RefreshLease(r, w) PROVE LogStep(log[q], log'[q])
  BY <1>2, <1>8 DEF RefreshLease
<1>9. CASE Tick
  BY <1>2, <1>9 DEF Tick
<1>10. CASE UNCHANGED storeVars
  BY <1>2, <1>10 DEF storeVars
<1> QED BY <1>4, <1>5, <1>6, <1>7, <1>8, <1>9, <1>10 DEF StoreCall

-----------------------------------------------------------------------------
(* What RunLifecycle sees of a call: it moves one run or none *)

\* The fields of a row that the lifecycle sees.
LifeFields == {"status", "attempt_count", "max_attempts", "cancel_requested"}

\* The five moves of the lifecycle, on a row before and after.
Submitted(old, new) ==
  /\ old.status = "absent" /\ new.status = "queued"
  /\ new.max_attempts \in 1 .. MaxAttempts
  /\ Same(old, new, {"attempt_count", "cancel_requested"})
Attempted(old, new) ==
  /\ old.status \in {"queued"} \union Active /\ new.status \in Active
  /\ old.attempt_count < old.max_attempts
  /\ new.attempt_count = old.attempt_count + 1
  /\ Same(old, new, {"max_attempts", "cancel_requested"})
CancelAsked(old, new) ==
  /\ \/ old.status = "queued" /\ new.status = "cancelled"
     \/ old.status \in Active /\ new.status \in Active
  /\ new.cancel_requested = TRUE
  /\ Same(old, new, {"attempt_count", "max_attempts"})
Retried(old, new) ==
  /\ old.status \in Active /\ new.status = "queued"
  /\ old.attempt_count < old.max_attempts
  /\ Same(old, new, {"attempt_count", "max_attempts", "cancel_requested"})
Decided(old, new) ==
  /\ old.status \in Active
  /\ \/ new.status \in {"completed", "failed"}
     \/ old.cancel_requested = TRUE /\ new.status = "cancelled"
  /\ Same(old, new, {"attempt_count", "max_attempts", "cancel_requested"})

Moved(old, new) == \/ Submitted(old, new) \/ Attempted(old, new) \/ CancelAsked(old, new)
                   \/ Retried(old, new) \/ Decided(old, new)

OneMoves == \E r \in Runs : /\ Moved(runs[r], runs'[r])
                            /\ \A q \in Runs : q # r => runs'[q] = runs[q]
NoneMoves == \A q \in Runs : Same(runs[q], runs'[q], LifeFields)

\* A step that changes the lease of one row moves nothing.
LEMMA RefreshMovesNone ==
  ASSUME StoreInv, NEW r \in Runs, NEW w \in Workers, RefreshLease(r, w)
  PROVE  NoneMoves
<1>1. /\ Same(runs[r], runs'[r], Fields \ {"lease"})
      /\ \A q \in Runs : q # r => runs'[q] = runs[q]
  BY RefreshLeaseRow
<1>2. LifeFields \subseteq Fields \ {"lease"}
  BY DEF LifeFields, Fields
<1> QED BY <1>1, <1>2 DEF NoneMoves, Same

LEMMA RowsUnchangedMovesNone ==
  ASSUME runs' = runs
  PROVE  NoneMoves
  BY DEF NoneMoves, Same

LEMMA TickMovesNone ==
  ASSUME StoreInv, Tick
  PROVE  NoneMoves
<1>1. LifeFields \subseteq Fields \ {"lease", "delay", "age"}
  BY DEF LifeFields, Fields
<1> QED BY <1>1, TickRow DEF NoneMoves, Same

LEMMA CreateRunMoves ==
  ASSUME StoreInv, NEW r \in Runs, NEW attempts \in 1 .. MaxAttempts, NEW delay \in 0 .. MaxDelay,
         CreateRun(r, attempts, delay)
  PROVE  OneMoves
<1>1. /\ runs[r].status = "absent" /\ runs'[r].status = "queued"
      /\ runs'[r].max_attempts = attempts /\ runs'[r].attempt_count = 0
      /\ ~runs'[r].cancel_requested
      /\ \A q \in Runs : q # r => runs'[q] = runs[q]
  BY CreateRunRow
<1>2. runs[r] \in Row /\ runs'[r] \in Row /\ RowOK(runs[r])
  BY CreateRunInv DEF StoreInv
<1>3. /\ runs'[r].attempt_count = runs[r].attempt_count
      /\ runs'[r].cancel_requested = runs[r].cancel_requested
  BY <1>1, <1>2 DEF RowOK, Row
<1> QED BY <1>1, <1>3 DEF OneMoves, Moved, Submitted, Same

LEMMA CancelRunMoves ==
  ASSUME StoreInv, NEW r \in Runs, CancelRun(r)
  PROVE  OneMoves
<1>1. /\ \/ runs[r].status = "queued" /\ runs'[r].status = "cancelled"
         \/ runs[r].status \in Active /\ runs'[r].status = "cancelling"
      /\ runs'[r].cancel_requested
      /\ Same(runs[r], runs'[r], {"attempt_count", "max_attempts"})
      /\ \A q \in Runs : q # r => runs'[q] = runs[q]
  BY CancelRunRow DEF Same
<1>2. runs'[r].cancel_requested = TRUE
  BY <1>1, CancelRunInv DEF StoreInv, Row
<1>3. CancelAsked(runs[r], runs'[r])
  BY <1>1, <1>2 DEF CancelAsked, Active
<1> QED BY <1>1, <1>3 DEF OneMoves, Moved

LEMMA ClaimNextRunMoves ==
  ASSUME StoreInv, NEW r \in Runs, NEW w \in Workers, NEW locked, ClaimNextRun(r, w, locked)
  PROVE  OneMoves
<1>1. /\ runs[r].status = "queued" \/ (runs[r].status \in Active /\ runs[r].lease = 0)
      /\ runs[r].attempt_count < runs[r].max_attempts
      /\ runs'[r].status = IF runs[r].cancel_requested THEN "cancelling" ELSE "running"
      /\ runs'[r].attempt_count = runs[r].attempt_count + 1
      /\ Same(runs[r], runs'[r], {"max_attempts", "cancel_requested", "completed"})
      /\ \A q \in Runs : q # r => runs'[q] = runs[q]
  BY ClaimNextRunRow
<1>2. runs'[r].status \in Active /\ runs[r].status \in {"queued"} \union Active
  BY <1>1 DEF Active
<1>3. Attempted(runs[r], runs'[r])
  BY <1>1, <1>2 DEF Attempted, Same
<1> QED BY <1>1, <1>3 DEF OneMoves, Moved

LEMMA RequeueRunMoves ==
  ASSUME StoreInv, NEW r \in Runs, NEW delay, RequeueRun(r, delay),
         runs[r].status \in Active, runs[r].attempt_count < runs[r].max_attempts
  PROVE  OneMoves
<1>1. /\ runs'[r].status = "queued"
      /\ Same(runs[r], runs'[r], {"attempt_count", "max_attempts", "cancel_requested"})
      /\ \A q \in Runs : q # r => runs'[q] = runs[q]
  BY RequeueRunRow DEF Same
<1> QED BY <1>1 DEF OneMoves, Moved, Retried

\* A run that somebody executes is decided; as cancelled only if that was asked for.
LEMMA FinishRunMoves ==
  ASSUME StoreInv, NEW r \in Runs, NEW status, NEW event, FinishRun(r, status, event),
         runs[r].status \in Active,
         \/ status \in {"completed", "failed"}
         \/ status = "cancelled" /\ runs[r].cancel_requested
  PROVE  OneMoves
<1>1. /\ runs'[r].status = status
      /\ Same(runs[r], runs'[r], {"attempt_count", "max_attempts", "cancel_requested"})
      /\ \A q \in Runs : q # r => runs'[q] = runs[q]
  BY FinishRunRow DEF Same
<1>2. runs[r].cancel_requested \in BOOLEAN
  BY DEF StoreInv, Row
<1>3. Decided(runs[r], runs'[r])
  BY <1>1, <1>2 DEF Decided
<1> QED BY <1>1, <1>3 DEF OneMoves, Moved

LEMMA InitLife == StoreInit => Life!LifeInit
<1> SUFFICES ASSUME StoreInit PROVE Life!LifeInit
  OBVIOUS
<1>1. ASSUME NEW r \in Runs
      PROVE  /\ Phase(r) = "absent" /\ runs[r].attempt_count = 0
             /\ runs[r].max_attempts = 0 /\ runs[r].cancel_requested = FALSE
  BY DEF StoreInit, NoRow, Phase, Active
<1> QED BY <1>1 DEF Life!LifeInit

\* A step that moves no run is a stutter of the lifecycle.
LEMMA StutterLife ==
  ASSUME NoneMoves
  PROVE  UNCHANGED Life!lifeVars
<1>1. ASSUME NEW q \in Runs
      PROVE  /\ runs'[q].status = runs[q].status
             /\ runs'[q].attempt_count = runs[q].attempt_count
             /\ runs'[q].max_attempts = runs[q].max_attempts
             /\ runs'[q].cancel_requested = runs[q].cancel_requested
  BY DEF NoneMoves, Same, LifeFields
<1>2. /\ [q \in Runs |-> Phase(q)]' = [q \in Runs |-> Phase(q)]
      /\ [q \in Runs |-> runs[q].attempt_count]' = [q \in Runs |-> runs[q].attempt_count]
      /\ [q \in Runs |-> runs[q].max_attempts]' = [q \in Runs |-> runs[q].max_attempts]
      /\ [q \in Runs |-> runs[q].cancel_requested]' = [q \in Runs |-> runs[q].cancel_requested]
  BY <1>1 DEF Phase
<1> QED BY <1>2 DEF Life!lifeVars

\* A step that moves one run is a step of the lifecycle.
LEMMA MoveLife ==
  ASSUME NEW r \in Runs, Moved(runs[r], runs'[r]),
         \A q \in Runs : q # r => runs'[q] = runs[q]
  PROVE  Life!LifeNext
<1> DEFINE phase    == [q \in Runs |-> Phase(q)]
           attempts == [q \in Runs |-> runs[q].attempt_count]
           limit    == [q \in Runs |-> runs[q].max_attempts]
           asked    == [q \in Runs |-> runs[q].cancel_requested]
<1>1. /\ phase' = [phase EXCEPT ![r] = Phase(r)']
      /\ attempts' = [attempts EXCEPT ![r] = runs'[r].attempt_count]
      /\ limit' = [limit EXCEPT ![r] = runs'[r].max_attempts]
      /\ asked' = [asked EXCEPT ![r] = runs'[r].cancel_requested]
  BY DEF Phase
<1>2. /\ phase[r] = Phase(r)
      /\ attempts[r] = runs[r].attempt_count
      /\ limit[r] = runs[r].max_attempts
      /\ asked[r] = runs[r].cancel_requested
  OBVIOUS
<1>3. /\ runs'[r].attempt_count = runs[r].attempt_count => attempts' = attempts
      /\ runs'[r].max_attempts = runs[r].max_attempts => limit' = limit
      /\ runs'[r].cancel_requested = runs[r].cancel_requested => asked' = asked
  BY <1>1
<1>4. /\ runs[r].status \in Active => phase[r] = "active"
      /\ runs[r].status \notin Active => phase[r] = runs[r].status
      /\ runs'[r].status \in Active => phase' = [phase EXCEPT ![r] = "active"]
      /\ runs'[r].status \notin Active => phase' = [phase EXCEPT ![r] = runs'[r].status]
  BY <1>1, <1>2 DEF Phase
<1> HIDE DEF phase, attempts, limit, asked
<1>5. CASE Submitted(runs[r], runs'[r])
  <2>1. phase[r] = "absent" /\ phase' = [phase EXCEPT ![r] = "queued"]
    BY <1>4, <1>5 DEF Submitted, Active
  <2>2. attempts' = attempts /\ asked' = asked
    BY <1>3, <1>5 DEF Submitted, Same
  <2>3. PICK n \in 1 .. MaxAttempts : limit' = [limit EXCEPT ![r] = n]
    BY <1>1, <1>5 DEF Submitted
  <2>4. Life!Submit(r, n)
    BY <2>1, <2>2, <2>3 DEF Life!Submit, Life!Moves, phase, attempts, limit, asked
  <2> QED BY <2>4 DEF Life!LifeNext
<1>6. CASE Attempted(runs[r], runs'[r])
  <2>1. phase[r] \in {"queued", "active"} /\ phase' = [phase EXCEPT ![r] = "active"]
    BY <1>4, <1>6 DEF Attempted, Active
  <2>2. limit' = limit /\ asked' = asked
    BY <1>3, <1>6 DEF Attempted, Same
  <2>3. attempts[r] < limit[r] /\ attempts' = [attempts EXCEPT ![r] = attempts[r] + 1]
    BY <1>1, <1>2, <1>6 DEF Attempted
  <2>4. Life!Attempt(r)
    BY <2>1, <2>2, <2>3 DEF Life!Attempt, Life!Moves, phase, attempts, limit, asked
  <2> QED BY <2>4 DEF Life!LifeNext
<1>7. CASE CancelAsked(runs[r], runs'[r])
  <2>1. \/ phase[r] = "queued" /\ phase' = [phase EXCEPT ![r] = "cancelled"]
        \/ phase[r] = "active" /\ phase' = [phase EXCEPT ![r] = "active"]
    BY <1>4, <1>7 DEF CancelAsked, Active
  <2>2. attempts' = attempts /\ limit' = limit
    BY <1>3, <1>7 DEF CancelAsked, Same
  <2>3. asked' = [asked EXCEPT ![r] = TRUE]
    BY <1>1, <1>7 DEF CancelAsked
  <2>4. Life!Cancel(r)
    BY <2>1, <2>2, <2>3 DEF Life!Cancel, Life!Moves, phase, attempts, limit, asked
  <2> QED BY <2>4 DEF Life!LifeNext
<1>8. CASE Retried(runs[r], runs'[r])
  <2>1. phase[r] = "active" /\ phase' = [phase EXCEPT ![r] = "queued"]
    BY <1>4, <1>8 DEF Retried, Active
  <2>2. attempts' = attempts /\ limit' = limit /\ asked' = asked
    BY <1>3, <1>8 DEF Retried, Same
  <2>3. attempts[r] < limit[r]
    BY <1>2, <1>8 DEF Retried
  <2>4. Life!Retry(r)
    BY <2>1, <2>2, <2>3 DEF Life!Retry, Life!Moves, phase, attempts, limit, asked
  <2> QED BY <2>4 DEF Life!LifeNext
<1>9. CASE Decided(runs[r], runs'[r])
  <2>1. attempts' = attempts /\ limit' = limit /\ asked' = asked
    BY <1>3, <1>9 DEF Decided, Same
  <2>2. /\ phase[r] = "active"
        /\ \/ phase' = [phase EXCEPT ![r] = "completed"]
           \/ phase' = [phase EXCEPT ![r] = "failed"]
           \/ asked[r] = TRUE /\ phase' = [phase EXCEPT ![r] = "cancelled"]
    BY <1>2, <1>4, <1>9 DEF Decided, Active
  <2>3. Life!Decide(r)
    BY <2>1, <2>2 DEF Life!Decide, Life!Moves, phase, attempts, limit, asked
  <2> QED BY <2>3 DEF Life!LifeNext
<1> QED BY <1>5, <1>6, <1>7, <1>8, <1>9 DEF Moved

LEMMA LifeStep ==
  ASSUME OneMoves \/ NoneMoves
  PROVE  [Life!LifeNext]_(Life!lifeVars)
  BY StutterLife, MoveLife DEF OneMoves
=============================================================================
