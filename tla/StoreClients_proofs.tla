------------------------- MODULE StoreClients_proofs -------------------------
(***************************************************************************)
(* Both stores under clients that call them in any order, for every number *)
(* of runs, workers and attempts.  First the promises of the run store;    *)
(* then that InMemoryRunStore implements PostgresRunStore: every operation *)
(* of it is, on the rows as Seen shows them, one of PostgreSQL or none.    *)
(***************************************************************************)
EXTENDS InMemoryStore, RunStore_proofs

\* Every step of the clients is an operation of the store or a tick.
LEMMA ClientStepIsCall == ClientNext => StoreCall
  BY DEF ClientNext, ApiCalls, WorkerCalls, Known, StoreCall, WorkerWrites

LEMMA ClientStepInv == StoreInv /\ [ClientNext]_storeVars => StoreInv'
  BY ClientStepIsCall, StoreCallInv

LEMMA ClientInv == ClientSpec => []StoreInv
<1>1. StoreInit => StoreInv
  BY StoreInitInv
<1>2. StoreInv /\ [ClientNext]_storeVars => StoreInv'
  BY ClientStepInv
<1> QED BY <1>1, <1>2, PTL DEF ClientSpec

\* Rows, logs and the creation order have their types in every state.
THEOREM StoreTypeCorrect == ClientSpec => []StoreTypeOK
  BY ClientInv, StoreInvPromises, PTL

\* A lease, an owner and an active status come and go together, whichever of
\* the transactions of claim, refresh, cancel, requeue and finish interleave.
THEOREM LeaseAlwaysMatchesStatus == ClientSpec => []LeaseMatchesStatus
  BY ClientInv, StoreInvPromises, PTL

\* No run is ever started more than max_attempts times, and attempt_count is
\* the number of its run.started events.
THEOREM AttemptsAreBounded == ClientSpec => []AttemptsMatchLog
  BY ClientInv, StoreInvPromises, PTL

\* The last lifecycle event of a run's log always agrees with its status.
THEOREM LogTellsStatus == ClientSpec => []StatusFollowsLog
  BY ClientInv, StoreInvPromises, PTL

\* A cancel request survives requeues and reclaims.
THEOREM CancelRequestIsKept == ClientSpec => []CancelRequestSticks
  BY ClientInv, StoreInvPromises, PTL

-----------------------------------------------------------------------------
LEMMA ClientRowStep ==
  ASSUME StoreInv, [ClientNext]_storeVars, NEW q \in Runs
  PROVE  RowStep(runs[q], runs'[q])
  BY ClientStepIsCall, StoreCallRow

\* The timeout budget of a run is counted from its first start for ever.
THEOREM StartsAreRemembered == ClientSpec => StartIsRemembered
<1>1. StoreInv /\ [ClientNext]_storeVars
        => [\A r \in Runs : runs[r].age # None
              => runs'[r].age \in {runs[r].age, Later(runs[r].age)}]_storeVars
  BY ClientRowStep DEF RowStep
<1> QED BY <1>1, ClientInv, PTL DEF ClientSpec, StartIsRemembered

-----------------------------------------------------------------------------
(* InMemoryRunStore implements PostgresRunStore *)

\* The rows are rows and the creation order holds runs; the logs play no part.
MemoryInv ==
  /\ runs \in [Runs -> Row]
  /\ order \in Seq(Runs)

SeenRuns == [r \in Runs |-> Seen(runs[r])]

USE RunStoreAssumption

-----------------------------------------------------------------------------
(* Rows *)

\* What writing one row means for the rows and for what is seen of them.
LEMMA WriteSeen ==
  ASSUME MemoryInv, NEW r \in Runs, NEW row \in Row, Update(r, row), order' \in Seq(Runs)
  PROVE  /\ MemoryInv'
         /\ SeenRuns' = [SeenRuns EXCEPT ![r] = Seen(row)]
<1>1. runs' = [runs EXCEPT ![r] = row] /\ runs \in [Runs -> Row]
  BY DEF Update, MemoryInv
<1>2. MemoryInv'
  BY <1>1 DEF MemoryInv
<1>3. \A q \in Runs : Seen(runs'[q]) = IF q = r THEN Seen(row) ELSE Seen(runs[q])
  BY <1>1
<1>4. SeenRuns' = [q \in Runs |-> Seen(runs'[q])]
  BY DEF SeenRuns
<1> QED BY <1>2, <1>3, <1>4 DEF SeenRuns

\* A row and its seen form, field by field.
LEMMA SeenFields ==
  ASSUME NEW row \in Row
  PROVE  /\ Seen(row) \in Row
         /\ Seen(row).status = row.status
         /\ Seen(row).attempt_count = row.attempt_count
         /\ Seen(row).max_attempts = row.max_attempts
         /\ Seen(row).worker_id = row.worker_id
         /\ Seen(row).age = row.age
         /\ Seen(row).cancel_requested = row.cancel_requested
         /\ Seen(row).completed = row.completed
         /\ Seen(row).delay = 0
         /\ Seen(row).lease = IF row.status \in Active THEN row.lease ELSE None
<1> DEFINE lease == IF row.status \in Active THEN row.lease ELSE None
           seen == [row EXCEPT !.delay = 0, !.lease = lease]
<1>1. lease \in (0 .. LeaseSeconds) \union {None} /\ 0 \in 0 .. MaxDelay
  BY DEF Row
<1>2. Seen(row) = seen
  BY DEF Seen
<1> HIDE DEF lease
<1>3. seen \in Row
  BY <1>1 DEF Row
<1>4. /\ seen.status = row.status /\ seen.attempt_count = row.attempt_count
      /\ seen.max_attempts = row.max_attempts /\ seen.worker_id = row.worker_id
      /\ seen.age = row.age /\ seen.cancel_requested = row.cancel_requested
      /\ seen.completed = row.completed /\ seen.delay = 0 /\ seen.lease = lease
  BY DEF Row
<1> QED BY <1>2, <1>3, <1>4 DEF lease

LEMMA SeenRunsFields ==
  ASSUME MemoryInv, NEW r \in Runs
  PROVE  /\ SeenRuns[r] = Seen(runs[r]) /\ runs[r] \in Row /\ SeenRuns[r] \in Row
         /\ SeenRuns[r].status = runs[r].status
         /\ SeenRuns[r].attempt_count = runs[r].attempt_count
         /\ SeenRuns[r].max_attempts = runs[r].max_attempts
         /\ SeenRuns[r].worker_id = runs[r].worker_id
         /\ SeenRuns[r].age = runs[r].age
         /\ SeenRuns[r].cancel_requested = runs[r].cancel_requested
         /\ SeenRuns[r].completed = runs[r].completed
         /\ SeenRuns[r].delay = 0
         /\ SeenRuns[r].lease = IF runs[r].status \in Active THEN runs[r].lease ELSE None
<1>1. SeenRuns[r] = Seen(runs[r]) /\ runs[r] \in Row
  BY DEF SeenRuns, MemoryInv
<1> QED BY <1>1, SeenFields

\* Rows are equal when their fields are.
LEMMA SameRow ==
  ASSUME NEW a \in Row, NEW b \in Row,
         a.status = b.status, a.attempt_count = b.attempt_count,
         a.max_attempts = b.max_attempts, a.worker_id = b.worker_id,
         a.lease = b.lease, a.delay = b.delay, a.age = b.age,
         a.cancel_requested = b.cancel_requested, a.completed = b.completed
  PROVE  a = b
  BY DEF Row

LEMMA SeenIs ==
  ASSUME NEW row \in Row, NEW seen \in Row,
         row.status = seen.status, row.attempt_count = seen.attempt_count,
         row.max_attempts = seen.max_attempts, row.worker_id = seen.worker_id,
         row.age = seen.age, row.cancel_requested = seen.cancel_requested,
         row.completed = seen.completed, seen.delay = 0,
         seen.lease = IF row.status \in Active THEN row.lease ELSE None
  PROVE  Seen(row) = seen
  BY SeenFields, SameRow

-----------------------------------------------------------------------------
(* One lemma per operation *)

LEMMA CreateSeen ==
  ASSUME MemoryInv, NEW r \in Runs, NEW attempts \in 1 .. MaxAttempts,
         NEW delay \in 0 .. MaxDelay, MemoryCreateRun(r, attempts, delay)
  PROVE  MemoryInv' /\ Postgres!CreateRun(r, attempts, 0)
<1> DEFINE row == [NoRow EXCEPT !.status = "queued", !.max_attempts = attempts, !.delay = delay]
           seen == [NoRow EXCEPT !.status = "queued", !.max_attempts = attempts, !.delay = 0]
<1>1. row \in Row /\ seen \in Row
  <2>1. /\ NoRow \in Row /\ attempts \in 0 .. MaxAttempts /\ "queued" \in RunStatus
        /\ 0 \in 0 .. MaxDelay
    BY DEF NoRow, Row, RunStatus
  <2> QED BY <2>1, Zenon DEF Row
<1>2. Seen(row) = seen
  <2>1. /\ row.status = seen.status /\ row.attempt_count = seen.attempt_count
        /\ row.max_attempts = seen.max_attempts /\ row.worker_id = seen.worker_id
        /\ row.age = seen.age /\ row.cancel_requested = seen.cancel_requested
        /\ row.completed = seen.completed
        /\ seen.status = "queued" /\ seen.delay = 0 /\ seen.lease = None
    BY DEF NoRow
  <2>2. "queued" \notin Active
    BY DEF Active
  <2> HIDE DEF row, seen
  <2> QED BY <1>1, <2>1, <2>2, SeenIs
<1>3. order' \in Seq(Runs)
  BY DEF MemoryCreateRun, CreateRun, MemoryInv
<1>4. MemoryInv' /\ SeenRuns' = [SeenRuns EXCEPT ![r] = seen]
  BY <1>1, <1>2, <1>3, WriteSeen DEF MemoryCreateRun, CreateRun
<1>5. SeenRuns[r].status = "absent"
  BY SeenRunsFields DEF MemoryCreateRun, CreateRun, Exists
<1> QED BY <1>4, <1>5
        DEF MemoryCreateRun, CreateRun, Postgres!CreateRun, Postgres!Exists,
            Postgres!Update, Postgres!NoRow, NoRow, SeenRuns

LEMMA CancelQueuedSeen ==
  ASSUME MemoryInv, NEW r \in Runs, CancelQueuedRun(r)
  PROVE  MemoryInv' /\ Postgres!CancelQueuedRun(r)
<1> DEFINE old  == SeenRuns[r]
           row  == [runs[r] EXCEPT !.status = "cancelled", !.cancel_requested = TRUE,
                                   !.completed = TRUE, !.lease = None]
           seen == [old EXCEPT !.status = "cancelled", !.cancel_requested = TRUE,
                               !.completed = TRUE, !.lease = None]
<1>1. runs[r] \in Row /\ old \in Row /\ old.status = "queued"
  BY SeenRunsFields DEF CancelQueuedRun
<1>2. row \in Row /\ seen \in Row
  <2> HIDE DEF old
  <2>1. "cancelled" \in RunStatus /\ TRUE \in BOOLEAN
    BY DEF RunStatus, Terminal
  <2> QED BY <1>1, <2>1 DEF Row
<1>3. Seen(row) = seen
  <2>1. /\ row.status = "cancelled" /\ row.cancel_requested = TRUE /\ row.completed = TRUE
        /\ row.attempt_count = runs[r].attempt_count /\ row.max_attempts = runs[r].max_attempts
        /\ row.worker_id = runs[r].worker_id /\ row.age = runs[r].age
    BY <1>1 DEF Row
  <2>2. /\ seen.status = "cancelled" /\ seen.cancel_requested = TRUE /\ seen.completed = TRUE
        /\ seen.attempt_count = old.attempt_count /\ seen.max_attempts = old.max_attempts
        /\ seen.worker_id = old.worker_id /\ seen.age = old.age
        /\ seen.lease = None /\ seen.delay = old.delay
    <3> HIDE DEF old
    <3> QED BY <1>1 DEF Row
  <2>3. "cancelled" \notin Active
    BY DEF Active
  <2>4. /\ old.attempt_count = runs[r].attempt_count /\ old.max_attempts = runs[r].max_attempts
        /\ old.worker_id = runs[r].worker_id /\ old.age = runs[r].age /\ old.delay = 0
    BY SeenRunsFields
  <2> HIDE DEF old, row, seen
  <2> QED BY <1>2, <2>1, <2>2, <2>3, <2>4, SeenIs, ZenonT(40)
<1>4. MemoryInv' /\ SeenRuns' = [SeenRuns EXCEPT ![r] = seen]
  BY <1>2, <1>3, WriteSeen DEF CancelQueuedRun, MemoryInv
<1> QED BY <1>1, <1>4
        DEF CancelQueuedRun, InsertEvent, Postgres!CancelQueuedRun, Postgres!Update,
            Postgres!InsertEvent, SeenRuns

LEMMA CancelActiveSeen ==
  ASSUME MemoryInv, NEW r \in Runs, CancelActiveRun(r)
  PROVE  MemoryInv' /\ Postgres!CancelActiveRun(r)
<1> DEFINE old  == SeenRuns[r]
           row  == [runs[r] EXCEPT !.status = "cancelling", !.cancel_requested = TRUE]
           seen == [old EXCEPT !.status = "cancelling", !.cancel_requested = TRUE]
<1>1. runs[r] \in Row /\ old \in Row /\ runs[r].status \in Active /\ old.status \in Active
  BY SeenRunsFields DEF CancelActiveRun
<1>2. row \in Row /\ seen \in Row
  <2> HIDE DEF old
  <2>1. "cancelling" \in RunStatus /\ TRUE \in BOOLEAN
    BY DEF RunStatus, Active
  <2> QED BY <1>1, <2>1 DEF Row
<1>3. Seen(row) = seen
  <2>1. /\ row.status = "cancelling" /\ row.cancel_requested = TRUE
        /\ row.attempt_count = runs[r].attempt_count /\ row.max_attempts = runs[r].max_attempts
        /\ row.worker_id = runs[r].worker_id /\ row.age = runs[r].age
        /\ row.completed = runs[r].completed /\ row.lease = runs[r].lease
    BY <1>1 DEF Row
  <2>2. /\ seen.status = "cancelling" /\ seen.cancel_requested = TRUE
        /\ seen.attempt_count = old.attempt_count /\ seen.max_attempts = old.max_attempts
        /\ seen.worker_id = old.worker_id /\ seen.age = old.age
        /\ seen.completed = old.completed /\ seen.lease = old.lease /\ seen.delay = old.delay
    <3> HIDE DEF old
    <3> QED BY <1>1 DEF Row
  <2>3. "cancelling" \in Active
    BY DEF Active
  <2>4. /\ old.attempt_count = runs[r].attempt_count /\ old.max_attempts = runs[r].max_attempts
        /\ old.worker_id = runs[r].worker_id /\ old.age = runs[r].age /\ old.delay = 0
        /\ old.completed = runs[r].completed /\ old.lease = runs[r].lease
    BY <1>1, SeenRunsFields
  <2> HIDE DEF old, row, seen
  <2>5. /\ seen.lease = IF row.status \in Active THEN row.lease ELSE None
        /\ row.status = seen.status /\ row.cancel_requested = seen.cancel_requested
        /\ row.completed = seen.completed
    BY <2>1, <2>2, <2>3, <2>4
  <2> QED BY <1>2, <2>1, <2>2, <2>4, <2>5, SeenIs
<1>4. MemoryInv' /\ SeenRuns' = [SeenRuns EXCEPT ![r] = seen]
  BY <1>2, <1>3, WriteSeen DEF CancelActiveRun, MemoryInv
<1> QED BY <1>1, <1>4
        DEF CancelActiveRun, InsertEvent, Postgres!CancelActiveRun, Postgres!Update,
            Postgres!InsertEvent, Postgres!Active, Active, SeenRuns

\* What is seen of a run tells whether it can be claimed.
LEMMA ClaimableSeen ==
  ASSUME MemoryInv, NEW r \in Runs
  PROVE  MemoryClaimable(r) <=> Postgres!Claimable(r)
  BY SeenRunsFields DEF MemoryClaimable, Postgres!Claimable, Postgres!Active, Active, SeenRuns

LEMMA ClaimSeen ==
  ASSUME MemoryInv, NEW r \in Runs, NEW w \in Workers, MemoryClaimNextRun(r, w)
  PROVE  MemoryInv' /\ Postgres!ClaimNextRun(r, w, {})
<1> DEFINE old    == SeenRuns[r]
           status == IF runs[r].cancel_requested THEN "cancelling" ELSE "running"
           row    == [runs[r] EXCEPT !.status = status, !.worker_id = w,
                                     !.attempt_count = @ + 1,
                                     !.age = IF @ = None THEN 0 ELSE @,
                                     !.lease = LeaseSeconds]
           seen   == [old EXCEPT !.status = IF old.cancel_requested THEN "cancelling" ELSE "running",
                                 !.worker_id = w,
                                 !.attempt_count = @ + 1,
                                 !.age = IF @ = None THEN 0 ELSE @,
                                 !.lease = LeaseSeconds]
<1>1. /\ runs[r] \in Row /\ old \in Row
      /\ old.cancel_requested = runs[r].cancel_requested
      /\ status \in RunStatus /\ status \in Active
  BY SeenRunsFields DEF RunStatus, Active
<1>2. row \in Row /\ seen \in Row
  <2> HIDE DEF old
  <2>1. /\ runs[r].attempt_count + 1 \in Nat /\ old.attempt_count + 1 \in Nat
        /\ (IF runs[r].age = None THEN 0 ELSE runs[r].age) \in (0 .. AgeCap) \union {None}
        /\ (IF old.age = None THEN 0 ELSE old.age) \in (0 .. AgeCap) \union {None}
        /\ LeaseSeconds \in 0 .. LeaseSeconds
    BY <1>1 DEF Row
  <2>2. (IF old.cancel_requested THEN "cancelling" ELSE "running") \in RunStatus
    BY DEF RunStatus, Active
  <2>3. row \in Row
    BY <1>1, <2>1, ZenonT(40) DEF Row
  <2>4. seen \in Row
    BY <1>1, <2>1, <2>2, ZenonT(40) DEF Row
  <2> QED BY <2>3, <2>4
<1>3. Seen(row) = seen
  <2>1. /\ row.status = status /\ row.worker_id = w
        /\ row.attempt_count = runs[r].attempt_count + 1
        /\ row.age = (IF runs[r].age = None THEN 0 ELSE runs[r].age)
        /\ row.lease = LeaseSeconds
        /\ row.max_attempts = runs[r].max_attempts
        /\ row.cancel_requested = runs[r].cancel_requested
        /\ row.completed = runs[r].completed
    BY <1>1 DEF Row
  <2>2. /\ seen.status = (IF old.cancel_requested THEN "cancelling" ELSE "running")
        /\ seen.worker_id = w
        /\ seen.attempt_count = old.attempt_count + 1
        /\ seen.age = (IF old.age = None THEN 0 ELSE old.age)
        /\ seen.lease = LeaseSeconds
        /\ seen.max_attempts = old.max_attempts
        /\ seen.cancel_requested = old.cancel_requested
        /\ seen.completed = old.completed /\ seen.delay = old.delay
    <3> HIDE DEF old
    <3> QED BY <1>1 DEF Row
  <2>3. seen.status = status
    BY <1>1, <2>2
  <2> HIDE DEF row, seen, status
  <2> QED BY <1>1, <1>2, <2>1, <2>2, <2>3, SeenIs, SeenRunsFields
<1>4. MemoryInv' /\ SeenRuns' = [SeenRuns EXCEPT ![r] = seen]
  BY <1>2, <1>3, WriteSeen DEF MemoryClaimNextRun, MemoryInv
<1>5. Postgres!NextClaimable(r, {})
  <2>1. PICK i \in DOMAIN order :
          /\ order[i] = r
          /\ MemoryClaimable(r)
          /\ \A j \in 1 .. i - 1 : ~MemoryClaimable(order[j])
    BY DEF MemoryClaimNextRun
  <2>2. ASSUME NEW j \in 1 .. i - 1 PROVE ~Postgres!Claimable(order[j])
    <3>1. order[j] \in Runs
      BY DEF MemoryInv
    <3> QED BY <2>1, <3>1, ClaimableSeen
  <2> QED BY <2>1, <2>2, ClaimableSeen DEF Postgres!NextClaimable
<1>6. Postgres!Update(r, seen)
  BY <1>4 DEF Postgres!Update, SeenRuns
<1> QED BY <1>4, <1>5, <1>6
        DEF MemoryClaimNextRun, InsertEvent, Postgres!ClaimNextRun, Postgres!InsertEvent, SeenRuns

\* The refresh of an active run is one of PostgreSQL; that of any other run is
\* not seen.
LEMMA RefreshSeen ==
  ASSUME MemoryInv, NEW r \in Runs, NEW w \in Workers, MemoryRefreshLease(r, w)
  PROVE  /\ MemoryInv'
         /\ Postgres!RefreshLease(r, w) \/ UNCHANGED <<SeenRuns, log, order>>
<1> DEFINE old  == SeenRuns[r]
           row  == [runs[r] EXCEPT !.lease = LeaseSeconds]
           seen == [old EXCEPT !.lease = LeaseSeconds]
<1>1. runs[r] \in Row /\ old \in Row /\ old.status = runs[r].status
  BY SeenRunsFields
<1>2. row \in Row /\ seen \in Row
  <2> HIDE DEF old
  <2>1. LeaseSeconds \in 0 .. LeaseSeconds
    OBVIOUS
  <2> QED BY <1>1, <2>1 DEF Row
<1>3. /\ row.status = runs[r].status /\ row.cancel_requested = runs[r].cancel_requested
      /\ row.attempt_count = runs[r].attempt_count /\ row.max_attempts = runs[r].max_attempts
      /\ row.worker_id = runs[r].worker_id /\ row.age = runs[r].age
      /\ row.completed = runs[r].completed /\ row.lease = LeaseSeconds
  BY <1>1 DEF Row
<1>4. MemoryInv' /\ SeenRuns' = [SeenRuns EXCEPT ![r] = Seen(row)]
  BY <1>2, WriteSeen DEF MemoryRefreshLease, MemoryInv
<1>5. /\ old.attempt_count = runs[r].attempt_count /\ old.max_attempts = runs[r].max_attempts
      /\ old.cancel_requested = runs[r].cancel_requested /\ old.age = runs[r].age
      /\ old.worker_id = runs[r].worker_id /\ old.completed = runs[r].completed
      /\ old.delay = 0 /\ old.lease = IF runs[r].status \in Active THEN runs[r].lease ELSE None
  BY SeenRunsFields
<1>6. CASE runs[r].status \in Active
  <2>1. Seen(row) = seen
    <3>1. /\ seen.status = old.status /\ seen.cancel_requested = old.cancel_requested
          /\ seen.attempt_count = old.attempt_count /\ seen.max_attempts = old.max_attempts
          /\ seen.worker_id = old.worker_id /\ seen.age = old.age
          /\ seen.completed = old.completed /\ seen.lease = LeaseSeconds
          /\ seen.delay = old.delay
      <4> HIDE DEF old
      <4> QED BY <1>1 DEF Row
    <3> HIDE DEF old, row, seen
    <3> QED BY <1>1, <1>2, <1>3, <1>5, <1>6, <3>1, SeenIs
  <2>2. Postgres!Refreshable(r, w)
    BY <1>6, SeenRunsFields
    DEF MemoryRefreshLease, Postgres!Refreshable, Postgres!Active, Active, SeenRuns
  <2> QED BY <1>4, <2>1, <2>2
          DEF MemoryRefreshLease, Postgres!RefreshLease, Postgres!Update, SeenRuns
<1>7. CASE runs[r].status \notin Active
  <2>1. Seen(row) = old
    <3> HIDE DEF old, row
    <3> QED BY <1>1, <1>2, <1>3, <1>5, <1>7, SeenIs
  <2>2. SeenRuns' = SeenRuns
    BY <1>4, <2>1 DEF SeenRuns
  <2> QED BY <1>4, <2>2 DEF MemoryRefreshLease
<1> QED BY <1>6, <1>7

LEMMA RequeueSeen ==
  ASSUME MemoryInv, NEW r \in Runs, NEW delay \in 0 .. MaxDelay, MemoryRequeueRun(r, delay)
  PROVE  MemoryInv' /\ Postgres!RequeueRun(r, 0)
<1> DEFINE old  == SeenRuns[r]
           row  == [runs[r] EXCEPT !.status = "queued", !.delay = delay,
                                   !.worker_id = None, !.lease = None]
           seen == [old EXCEPT !.status = "queued", !.delay = 0,
                               !.worker_id = None, !.lease = None]
<1>1. runs[r] \in Row /\ old \in Row /\ old.status # "absent"
  BY SeenRunsFields DEF MemoryRequeueRun, RequeueRun, Exists
<1>2. row \in Row /\ seen \in Row
  <2> HIDE DEF old
  <2>1. "queued" \in RunStatus /\ 0 \in 0 .. MaxDelay
    BY DEF RunStatus
  <2> QED BY <1>1, <2>1 DEF Row
<1>3. Seen(row) = seen
  <2>1. /\ row.status = "queued" /\ row.cancel_requested = runs[r].cancel_requested
        /\ row.attempt_count = runs[r].attempt_count /\ row.max_attempts = runs[r].max_attempts
        /\ row.worker_id = None /\ row.age = runs[r].age /\ row.completed = runs[r].completed
    BY <1>1 DEF Row
  <2>2. /\ seen.status = "queued" /\ seen.cancel_requested = old.cancel_requested
        /\ seen.attempt_count = old.attempt_count /\ seen.max_attempts = old.max_attempts
        /\ seen.worker_id = None /\ seen.age = old.age /\ seen.completed = old.completed
        /\ seen.lease = None /\ seen.delay = 0
    <3> HIDE DEF old
    <3> QED BY <1>1 DEF Row
  <2>3. "queued" \notin Active
    BY DEF Active
  <2>4. /\ old.attempt_count = runs[r].attempt_count /\ old.max_attempts = runs[r].max_attempts
        /\ old.cancel_requested = runs[r].cancel_requested /\ old.age = runs[r].age
        /\ old.completed = runs[r].completed
    BY SeenRunsFields
  <2> HIDE DEF old, row, seen
  <2> QED BY <1>2, <2>1, <2>2, <2>3, <2>4, SeenIs
<1>4. MemoryInv' /\ SeenRuns' = [SeenRuns EXCEPT ![r] = seen]
  BY <1>2, <1>3, WriteSeen DEF MemoryRequeueRun, RequeueRun, MemoryInv
<1> QED BY <1>1, <1>4
        DEF MemoryRequeueRun, RequeueRun, InsertEvent, Postgres!RequeueRun, Postgres!Exists,
            Postgres!Update, Postgres!InsertEvent, SeenRuns

LEMMA FinishSeen ==
  ASSUME MemoryInv, NEW r \in Runs, NEW status \in Terminal, NEW event,
         FinishRun(r, status, event)
  PROVE  MemoryInv' /\ Postgres!FinishRun(r, status, event)
<1> DEFINE old  == SeenRuns[r]
           row  == [runs[r] EXCEPT !.status = status, !.completed = TRUE, !.lease = None]
           seen == [old EXCEPT !.status = status, !.completed = TRUE, !.lease = None]
<1>1. runs[r] \in Row /\ old \in Row /\ old.status # "absent"
  BY SeenRunsFields DEF FinishRun, Exists
<1>2. row \in Row /\ seen \in Row
  <2> HIDE DEF old
  <2>1. status \in RunStatus /\ TRUE \in BOOLEAN
    BY DEF RunStatus
  <2> QED BY <1>1, <2>1 DEF Row
<1>3. Seen(row) = seen
  <2>1. /\ row.status = status /\ row.cancel_requested = runs[r].cancel_requested
        /\ row.attempt_count = runs[r].attempt_count /\ row.max_attempts = runs[r].max_attempts
        /\ row.worker_id = runs[r].worker_id /\ row.age = runs[r].age /\ row.completed = TRUE
    BY <1>1 DEF Row
  <2>2. /\ seen.status = status /\ seen.cancel_requested = old.cancel_requested
        /\ seen.attempt_count = old.attempt_count /\ seen.max_attempts = old.max_attempts
        /\ seen.worker_id = old.worker_id /\ seen.age = old.age /\ seen.completed = TRUE
        /\ seen.lease = None /\ seen.delay = old.delay
    <3> HIDE DEF old
    <3> QED BY <1>1 DEF Row
  <2>3. status \notin Active
    BY DEF Active, Terminal
  <2>4. /\ old.attempt_count = runs[r].attempt_count /\ old.max_attempts = runs[r].max_attempts
        /\ old.cancel_requested = runs[r].cancel_requested /\ old.age = runs[r].age
        /\ old.worker_id = runs[r].worker_id /\ old.delay = 0
    BY SeenRunsFields
  <2> HIDE DEF old, row, seen
  <2> QED BY <1>2, <2>1, <2>2, <2>3, <2>4, SeenIs, ZenonT(40)
<1>4. MemoryInv' /\ SeenRuns' = [SeenRuns EXCEPT ![r] = seen]
  BY <1>2, <1>3, WriteSeen DEF FinishRun, MemoryInv
<1> QED BY <1>1, <1>4
        DEF FinishRun, InsertEvent, Postgres!FinishRun, Postgres!Exists,
            Postgres!Update, Postgres!InsertEvent, SeenRuns

LEMMA AppendSeen ==
  ASSUME MemoryInv, NEW r \in Runs, NEW type, MemoryAppendEvent(r, type)
  PROVE  MemoryInv' /\ Postgres!AppendEvent(r, type)
<1>1. SeenRuns' = SeenRuns /\ MemoryInv'
  BY DEF MemoryAppendEvent, AppendEvent, SeenRuns, MemoryInv
<1>2. SeenRuns[r].status # "absent"
  BY SeenRunsFields DEF MemoryAppendEvent, AppendEvent, Exists
<1> QED BY <1>1, <1>2
        DEF MemoryAppendEvent, AppendEvent, InsertEvent, Postgres!AppendEvent,
            Postgres!Exists, Postgres!InsertEvent, SeenRuns

\* A tick of the clock is a tick for what is seen: a lease that is not seen is
\* no lease there either.
LEMMA TickSeen ==
  ASSUME MemoryInv, Tick
  PROVE  MemoryInv' /\ Postgres!Tick
<1> DEFINE later(row) == [row EXCEPT !.lease = IF @ = None THEN None ELSE Sooner(@),
                                     !.delay = Sooner(@),
                                     !.age = IF @ = None THEN None ELSE Later(@)]
<1>1. ASSUME NEW row \in Row
      PROVE  /\ later(row) \in Row
             /\ later(row).status = row.status
             /\ later(row).attempt_count = row.attempt_count
             /\ later(row).max_attempts = row.max_attempts
             /\ later(row).worker_id = row.worker_id
             /\ later(row).cancel_requested = row.cancel_requested
             /\ later(row).completed = row.completed
             /\ later(row).lease = IF row.lease = None THEN None ELSE Sooner(row.lease)
             /\ later(row).delay = Sooner(row.delay)
             /\ later(row).age = IF row.age = None THEN None ELSE Later(row.age)
  <2>1. /\ (IF row.lease = None THEN None ELSE Sooner(row.lease)) \in (0 .. LeaseSeconds) \union {None}
        /\ Sooner(row.delay) \in 0 .. MaxDelay
        /\ (IF row.age = None THEN None ELSE Later(row.age)) \in (0 .. AgeCap) \union {None}
    BY DEF Row, Sooner, Later
  <2> HIDE DEF Sooner, Later
  <2> QED BY <1>1, <2>1 DEF Row
<1>2. ASSUME NEW r \in Runs
      PROVE  /\ runs[r] \in Row /\ runs'[r] = later(runs[r])
             /\ SeenRuns[r] \in Row /\ SeenRuns'[r] = later(SeenRuns[r])
  <2>1. runs[r] \in Row /\ runs'[r] = later(runs[r]) /\ SeenRuns[r] \in Row
    BY SeenRunsFields DEF Tick
  <2>2. SeenRuns'[r] = Seen(runs'[r])
    BY DEF SeenRuns
  <2>3. Seen(later(runs[r])) = later(SeenRuns[r])
    <3> DEFINE old == SeenRuns[r]
               row == later(runs[r])
               seen == later(old)
    <3>1. /\ row \in Row
          /\ row.status = runs[r].status /\ row.cancel_requested = runs[r].cancel_requested
          /\ row.attempt_count = runs[r].attempt_count /\ row.max_attempts = runs[r].max_attempts
          /\ row.worker_id = runs[r].worker_id /\ row.completed = runs[r].completed
          /\ row.age = IF runs[r].age = None THEN None ELSE Later(runs[r].age)
          /\ row.lease = IF runs[r].lease = None THEN None ELSE Sooner(runs[r].lease)
      BY <1>1, <2>1
    <3>2. /\ seen \in Row
          /\ seen.status = old.status /\ seen.cancel_requested = old.cancel_requested
          /\ seen.attempt_count = old.attempt_count /\ seen.max_attempts = old.max_attempts
          /\ seen.worker_id = old.worker_id /\ seen.completed = old.completed
          /\ seen.age = IF old.age = None THEN None ELSE Later(old.age)
          /\ seen.lease = IF old.lease = None THEN None ELSE Sooner(old.lease)
          /\ seen.delay = Sooner(old.delay)
      BY <1>1, <2>1
    <3>3. /\ old.status = runs[r].status /\ old.cancel_requested = runs[r].cancel_requested
          /\ old.attempt_count = runs[r].attempt_count /\ old.max_attempts = runs[r].max_attempts
          /\ old.worker_id = runs[r].worker_id /\ old.completed = runs[r].completed
          /\ old.age = runs[r].age /\ old.delay = 0
          /\ old.lease = IF runs[r].status \in Active THEN runs[r].lease ELSE None
      BY SeenRunsFields
    <3> HIDE DEF old, row, seen
    <3>4. /\ seen.lease = IF row.status \in Active THEN row.lease ELSE None
          /\ seen.delay = 0 /\ row.age = seen.age
      BY <3>1, <3>2, <3>3 DEF Sooner
    <3>5. Seen(row) = seen
      BY <3>1, <3>2, <3>3, <3>4, SeenIs
    <3> QED BY <3>5 DEF row, seen, old
  <2> QED BY <2>1, <2>2, <2>3
<1>3. MemoryInv'
  <2>1. ASSUME NEW r \in Runs PROVE runs'[r] \in Row
    <3> HIDE DEF later
    <3> QED BY <1>1, <1>2
  <2> QED BY <2>1 DEF Tick, MemoryInv
<1>4. SeenRuns' = [r \in Runs |-> later(SeenRuns[r])]
  <2> HIDE DEF later
  <2>1. SeenRuns' = [r \in Runs |-> SeenRuns'[r]]
    BY DEF SeenRuns
  <2> QED BY <1>2, <2>1
<1> QED BY <1>3, <1>4, Zenon
        DEF Tick, Postgres!Tick, Postgres!Sooner, Postgres!Later, Sooner, Later, SeenRuns

-----------------------------------------------------------------------------
(* The refinement *)

\* The guards of the clients say the same of the rows and of what is seen.
LEMMA GuardsSeen ==
  ASSUME MemoryInv, NEW r \in Runs
  PROVE  /\ HasRoom(r) <=> Postgres!HasRoom(r)
         /\ Known(r) <=> Postgres!Known(r)
  BY SeenRunsFields DEF HasRoom, Known, Postgres!HasRoom, Postgres!Known, SeenRuns

LEMMA ApiCallSeen ==
  ASSUME MemoryInv, NEW r \in Runs, MemoryApiCalls(r)
  PROVE  MemoryInv' /\ Postgres!ApiCalls(r)
<1>1. 0 \in 0 .. MaxDelay
  OBVIOUS
<1>2. ASSUME NEW attempts \in 1 .. MaxAttempts, NEW delay \in 0 .. MaxDelay,
             MemoryCreateRun(r, attempts, delay)
      PROVE  MemoryInv' /\ Postgres!ApiCalls(r)
  BY <1>1, <1>2, CreateSeen DEF Postgres!ApiCalls
<1>3. CASE HasRoom(r) /\ MemoryCancelRun(r)
  BY <1>3, GuardsSeen, CancelQueuedSeen, CancelActiveSeen
  DEF MemoryCancelRun, CancelRun, Postgres!ApiCalls, Postgres!CancelRun
<1> QED BY <1>2, <1>3 DEF MemoryApiCalls

LEMMA WorkerCallSeen ==
  ASSUME MemoryInv, NEW r \in Runs, MemoryWorkerCalls(r)
  PROVE  MemoryInv' /\ (Postgres!WorkerCalls(r) \/ UNCHANGED <<SeenRuns, log, order>>)
<1>1. ASSUME NEW w \in Workers, HasRoom(r), MemoryClaimNextRun(r, w)
      PROVE  MemoryInv' /\ Postgres!WorkerCalls(r)
  <2>1. {} \in SUBSET Runs
    OBVIOUS
  <2> QED BY <1>1, <2>1, ClaimSeen, GuardsSeen DEF Postgres!WorkerCalls
<1>2. ASSUME NEW w \in Workers, MemoryRefreshLease(r, w)
      PROVE  MemoryInv' /\ (Postgres!WorkerCalls(r) \/ UNCHANGED <<SeenRuns, log, order>>)
  BY <1>2, RefreshSeen DEF Postgres!WorkerCalls
<1>3. ASSUME Known(r), HasRoom(r), NEW delay \in 0 .. MaxDelay, MemoryRequeueRun(r, delay)
      PROVE  MemoryInv' /\ Postgres!WorkerCalls(r)
  <2>1. 0 \in 0 .. MaxDelay
    OBVIOUS
  <2> QED BY <1>3, <2>1, RequeueSeen, GuardsSeen DEF Postgres!WorkerCalls
<1>4. ASSUME Known(r), HasRoom(r), NEW type \in ReportEvents, MemoryAppendEvent(r, type)
      PROVE  MemoryInv' /\ Postgres!WorkerCalls(r)
  <2>1. ReportEvents = Postgres!ReportEvents
    BY DEF ReportEvents, Postgres!ReportEvents
  <2> QED BY <1>4, <2>1, AppendSeen, GuardsSeen DEF Postgres!WorkerCalls
<1>5. ASSUME Known(r), HasRoom(r), MemoryMarkRun(r)
      PROVE  MemoryInv' /\ Postgres!WorkerCalls(r)
  <2>1. {"completed", "failed", "cancelled"} \subseteq Terminal
    BY DEF Terminal
  <2> QED BY <1>5, <2>1, FinishSeen, GuardsSeen
          DEF MemoryMarkRun, MarkRunCompleted, MarkRunFailed, MarkRunCancelled,
              Postgres!WorkerCalls, Postgres!MarkRunCompleted, Postgres!MarkRunFailed,
              Postgres!MarkRunCancelled
<1> QED BY <1>1, <1>2, <1>3, <1>4, <1>5 DEF MemoryWorkerCalls

\* Whoever uses the in-memory store in the place of PostgreSQL sees a history
\* that PostgreSQL has too: every promise proved of StoreClients about rows and
\* logs is kept by the store the tests run on.
THEOREM MemoryRefinesPostgres == MemorySpec => MemoryImplementsPostgres
<1>1. StoreInit => MemoryInv /\ Postgres!StoreInit
  <2> SUFFICES ASSUME StoreInit PROVE MemoryInv /\ Postgres!StoreInit
    OBVIOUS
  <2>1. NoRow \in Row
    BY DEF NoRow, Row
  <2>2. MemoryInv
    BY <2>1 DEF StoreInit, MemoryInv
  <2>3. Seen(NoRow) = NoRow
    <3>1. /\ NoRow.status = "absent" /\ NoRow.delay = 0 /\ NoRow.lease = None
          /\ "absent" \notin Active
      BY DEF NoRow, Active
    <3> QED BY <2>1, <3>1, SeenIs
  <2>4. Postgres!NoRow = NoRow
    BY DEF NoRow, Postgres!NoRow
  <2> QED BY <2>2, <2>3, <2>4 DEF StoreInit, Postgres!StoreInit
<1>2. MemoryInv /\ [MemoryNext]_storeVars
        => MemoryInv' /\ [Postgres!ClientNext]_(Postgres!storeVars)
  <2> SUFFICES ASSUME MemoryInv, [MemoryNext]_storeVars
               PROVE  MemoryInv' /\ [Postgres!ClientNext]_(Postgres!storeVars)
    OBVIOUS
  <2>1. ASSUME NEW r \in Runs, MemoryApiCalls(r)
        PROVE  MemoryInv' /\ Postgres!ClientNext
    BY <2>1, ApiCallSeen DEF Postgres!ClientNext
  <2>2. ASSUME NEW r \in Runs, MemoryWorkerCalls(r)
        PROVE  MemoryInv' /\ [Postgres!ClientNext]_(Postgres!storeVars)
    BY <2>2, WorkerCallSeen DEF Postgres!ClientNext, Postgres!storeVars, SeenRuns
  <2>3. CASE Tick
    BY <2>3, TickSeen DEF Postgres!ClientNext
  <2>4. CASE UNCHANGED storeVars
    <3>1. UNCHANGED <<SeenRuns, log, order>> /\ MemoryInv'
      BY <2>4 DEF storeVars, SeenRuns, MemoryInv
    <3> QED BY <3>1 DEF Postgres!storeVars, SeenRuns
  <2> QED BY <2>1, <2>2, <2>3, <2>4 DEF MemoryNext
<1> QED BY <1>1, <1>2, PTL DEF MemorySpec, MemoryImplementsPostgres, Postgres!ClientSpec
=============================================================================
