----------------------- MODULE IsolatedExecution_proofs -----------------------
(***************************************************************************)
(* What process isolation promises, for every number of runs, attempts,    *)
(* cancel requests and crashes of the worker, with a store as slow and a   *)
(* child as unlucky as you like, and appends of the relay that raise: a    *)
(* completed run tells its story but for what those appends lost, a request*)
(* that came in time is honoured, a result is not lost and nobody writes   *)
(* late unless the store was too slow; and isolation implements            *)
(* RunLifecycle.                                                           *)
(***************************************************************************)
EXTENDS IsolatedExecution, RunStore_proofs

\* What a run that completes tells, and what its child sends.
Chapter(m) == IF m = 1 THEN "workflow.started" ELSE "workflow.completed"
Sent(m)    == IF m = 3 THEN "result" ELSE Chapter(m)
Chapters(n) == {Chapter(m) : m \in 1 .. n}

\* From the last start of the run, at place s, the log tells the chapters told, at the
\* places p, and nothing else but cancel requests.
TellsAt(events, s, told, p) ==
  /\ s \in DOMAIN events /\ events[s] = "run.started"
  /\ p \in [told -> s + 1 .. Len(events)]
  /\ \A m \in told : events[p[m]] = m
  /\ told = WorkflowEvents => p["workflow.started"] < p["workflow.completed"]
  /\ \A i \in s + 1 .. Len(events) :
       events[i] = "run.cancel_requested" \/ \E m \in told : i = p[m]
Tells(events, s, told) == \E p : TellsAt(events, s, told, p)

\* Nobody had asked to cancel the run before its start at place s.
Unasked(events, s) == \A i \in DOMAIN events : events[i] = "run.cancel_requested" => s < i

\* What a row and its log keep, but for the chapters missing.
StoryOK(row, events, missing) ==
  /\ ~row.cancel_requested => \A i \in DOMAIN events : events[i] # "run.cancel_requested"
  /\ row.status = "completed" =>
       \E s \in DOMAIN events : /\ events[s] = "run.started"
                                /\ Whole(events, s, WorkflowEvents \ missing) /\ Unasked(events, s)

\* The parent waits for an outcome of its child.
Waiting == {"join", "overdue", "drain", "apply", "lookup", "unresolved"}

\* The attempt so far: n chapters are in the log or lost, and the child knows of every
\* request that came before the start.
Attempting(n) ==
  /\ lost[parent.run] \subseteq Chapters(n)
  /\ \E s \in DOMAIN log[parent.run] :
       /\ Tells(log[parent.run], s, Chapters(n) \ lost[parent.run])
       /\ ~parent.asked => Unasked(log[parent.run], s)

\* How many messages the relay has taken when it is through with n chapters.
Taken(n) == IF relay.pc = "write" THEN n + 1 ELSE IF relay.pc = "off" THEN 3 ELSE n

\* The relay, the queue and the child hold the rest of the messages, in order.
RelayOK(n) ==
  /\ ~relay.stopping
  /\ relay.pc = "write" => n < 2 /\ relay.msg = Chapter(n + 1)
  /\ relay.pc = "off" <=> relay.result = "completed"
  /\ relay.pc = "off" => n = 2
QueueOK(n) ==
  /\ Taken(n) + Len(queue) <= 3
  /\ \A i \in 1 .. Len(queue) : queue[i] = Sent(Taken(n) + i)
ChildOK(put) ==
  /\ child.pc \in {"begin", "begun"} => put = 0
  /\ child.pc \in {"body", "ended"} => put = 1
  /\ child.pc = "complete" => put = 2
  /\ child.pc = "done" \/ (child.pc = "exited" /\ child.error = None) => put = 3
  /\ child.pc = "begun" \/ put > 0 => ~parent.asked
Pipeline(n) == RelayOK(n) /\ QueueOK(n) /\ ChildOK(Taken(n) + Len(queue))

ParentOK ==
  /\ parent.pc # "idle" => parent.run \in Runs
  /\ parent.pc # "join" => child.pc = "exited"
  /\ child.pc # "exited" => child.error = None
  /\ relay.pc # "off" => parent.pc \notin {"idle", "claimed"} /\ relay.run = parent.run
  /\ relay.pc = "write" => relay.msg \in WorkflowEvents
  /\ parent.pc \in {"claimed"} \union Waiting => runs[parent.run].status \in Active
  /\ parent.pc = "claimed" => Attempting(0)
  /\ parent.pc \in Waiting => \E n \in 0 .. 2 : Attempting(n) /\ Pipeline(n)
  /\ parent.pc = "overdue" => child.error # None
  /\ parent.pc = "apply" => RelayIsDone \/ slow
  /\ parent.pc \in {"lookup", "unresolved"} => child.error # None \/ slow
  /\ parent.pc \in {"cleanup", "close"} =>
       \/ runs[parent.run].status = "completed" /\ relay.pc = "off"
       \/ runs[parent.run].status = "failed" /\ (child.error # None \/ slow)

ProcessTypes ==
  /\ parent \in ParentState
  /\ child \in ChildState
  /\ queue \in Seq(Message)
  /\ jammed \in BOOLEAN
  /\ relay \in RelayState
  /\ late \subseteq [run : Runs, msg : Message]
  /\ slow \in BOOLEAN
  /\ lost \in [Runs -> SUBSET WorkflowEvents]
  /\ elapsed \in Elapsed
  /\ cancels \in [Runs -> 0 .. MaxCancels]
  /\ crashes \in 0 .. MaxCrashes

\* What a relay nobody waits for may still write is for a run that has failed.
LateOK ==
  /\ late # {} => slow
  /\ \A write \in late : runs[write.run].status = "failed" /\ write.msg \in WorkflowEvents

StoriesOK == \A r \in Runs : StoryOK(runs[r], log[r], lost[r])

IsoInv == StoreInv /\ ProcessTypes /\ LateOK /\ StoriesOK /\ ParentOK

-----------------------------------------------------------------------------
(* Stories *)

LEMMA ChapterSets ==
  /\ Chapters(0) = {} /\ Chapters(1) = {"workflow.started"} /\ Chapters(2) = WorkflowEvents
  /\ \A n \in 0 .. 1 : /\ Chapter(n + 1) \notin Chapters(n)
                       /\ Chapters(n + 1) = Chapters(n) \union {Chapter(n + 1)}
                       /\ Chapter(n + 1) \in WorkflowEvents
                       /\ Chapter(n + 1) = "workflow.started" => Chapters(n) = {}
<1>1. 1 .. 0 = {} /\ 1 .. 1 = {1} /\ 1 .. 2 = {1, 2}
  OBVIOUS
<1>2. /\ Chapters(0) = {} /\ Chapters(1) = {"workflow.started"}
      /\ Chapters(2) = {"workflow.started", "workflow.completed"}
  BY <1>1 DEF Chapters, Chapter
<1> QED BY <1>2 DEF Chapter, WorkflowEvents

LEMMA TellsStart ==
  ASSUME NEW events \in Seq(EventType)
  PROVE  Tells(Append(events, "run.started"), Len(events) + 1, {})
<1>1. "run.started" \in EventType
  BY DEF EventType, LifecycleEvents
<1> DEFINE longer == Append(events, "run.started")
           p == [m \in {} |-> 0]
<1>2. /\ Len(events) \in Nat /\ Len(longer) = Len(events) + 1
      /\ Len(events) + 1 \in DOMAIN longer /\ longer[Len(events) + 1] = "run.started"
  BY <1>1, Appended
<1> HIDE DEF longer
<1>3. p \in [{} -> Len(events) + 2 .. Len(longer)]
  OBVIOUS
<1>4. TellsAt(longer, Len(events) + 1, {}, p)
  BY <1>2, <1>3 DEF TellsAt, WorkflowEvents
<1> QED BY <1>4 DEF Tells, longer

\* The next chapter, or a cancel request, goes on with the story.
LEMMA TellsOn ==
  ASSUME NEW events \in Seq(EventType), NEW s, NEW told \in SUBSET WorkflowEvents,
         Tells(events, s, told)
  PROVE  /\ s \in 1 .. Len(events) /\ events[s] = "run.started"
         /\ Tells(Append(events, "run.cancel_requested"), s, told)
         /\ \A next \in WorkflowEvents \ told :
              (next = "workflow.started" => told = {})
                => Tells(Append(events, next), s, told \union {next})
<1> DEFINE len == Len(events)
<1>1. PICK p : TellsAt(events, s, told, p)
  BY DEF Tells
<1>2. /\ len \in Nat /\ s \in 1 .. len /\ events[s] = "run.started"
      /\ p \in [told -> s + 1 .. len]
      /\ \A m \in told : events[p[m]] = m /\ p[m] \in s + 1 .. len
      /\ told = WorkflowEvents => p["workflow.started"] < p["workflow.completed"]
      /\ \A i \in s + 1 .. len : events[i] = "run.cancel_requested" \/ \E m \in told : i = p[m]
  BY <1>1, Appended DEF TellsAt
<1>3. Tells(Append(events, "run.cancel_requested"), s, told)
  <2> DEFINE longer == Append(events, "run.cancel_requested")
  <2>1. /\ Len(longer) = len + 1 /\ DOMAIN longer = 1 .. len + 1
        /\ \A i \in 1 .. len : longer[i] = events[i]
        /\ longer[len + 1] = "run.cancel_requested"
    BY Appended DEF EventType, LifecycleEvents
  <2> HIDE DEF longer
  <2>2. p \in [told -> s + 1 .. Len(longer)]
    BY <1>2, <2>1
  <2>3. ASSUME NEW m \in told PROVE longer[p[m]] = m
    <3>1. p[m] \in 1 .. len
      BY <1>2
    <3> QED BY <1>2, <2>1, <3>1
  <2>4. ASSUME NEW i \in s + 1 .. Len(longer)
        PROVE  longer[i] = "run.cancel_requested" \/ \E m \in told : i = p[m]
    <3>1. len \in Nat /\ s \in 1 .. len /\ Len(longer) = len + 1
      BY <1>2, <2>1
    <3>2. i = len + 1 \/ (i \in s + 1 .. len /\ i \in 1 .. len)
      BY <3>1
    <3> QED BY <1>2, <2>1, <3>2
  <2>5. s \in DOMAIN longer /\ longer[s] = "run.started"
    BY <1>2, <2>1
  <2>6. TellsAt(longer, s, told, p)
    BY <1>2, <2>2, <2>3, <2>4, <2>5 DEF TellsAt
  <2> QED BY <2>6 DEF Tells, longer
<1>4. ASSUME NEW next \in WorkflowEvents \ told, next = "workflow.started" => told = {}
      PROVE  Tells(Append(events, next), s, told \union {next})
  <2> DEFINE longer == Append(events, next)
             q == [m \in told \union {next} |-> IF m = next THEN len + 1 ELSE p[m]]
  <2>1. /\ Len(longer) = len + 1 /\ DOMAIN longer = 1 .. len + 1
        /\ \A i \in 1 .. len : longer[i] = events[i]
        /\ longer[len + 1] = next
    <3>1. next \in EventType
      BY <1>4 DEF EventType, ReportEvents, WorkflowEvents
    <3> QED BY <3>1, Appended
  <2> HIDE DEF longer
  <2>2. /\ q[next] = len + 1
        /\ \A m \in told : m # next /\ q[m] = p[m]
    BY <1>4
  <2>3. q \in [told \union {next} -> s + 1 .. Len(longer)]
    BY <1>2, <2>1
  <2> HIDE DEF q
  <2>4. ASSUME NEW m \in told \union {next} PROVE longer[q[m]] = m
    <3>1. CASE m = next
      BY <2>1, <2>2, <3>1
    <3>2. CASE m \in told
      <4>1. q[m] = p[m] /\ p[m] \in 1 .. len
        BY <1>2, <2>2, <3>2
      <4> QED BY <1>2, <2>1, <3>2, <4>1
    <3> QED BY <3>1, <3>2
  <2>5. ASSUME told \union {next} = WorkflowEvents
        PROVE  q["workflow.started"] < q["workflow.completed"]
    <3>1. next = "workflow.completed" /\ "workflow.started" \in told
      <4>1. "workflow.started" \in told \union {next} /\ "workflow.completed" \in told \union {next}
        BY <2>5 DEF WorkflowEvents
      <4>2. next = "workflow.started" \/ next = "workflow.completed"
        BY <1>4 DEF WorkflowEvents
      <4> QED BY <1>4, <4>1, <4>2
    <3>2. q["workflow.started"] \in s + 1 .. len /\ q["workflow.completed"] = len + 1
      BY <1>2, <2>2, <3>1
    <3> QED BY <1>2, <3>2
  <2>6. ASSUME NEW i \in s + 1 .. Len(longer)
        PROVE  longer[i] = "run.cancel_requested" \/ \E m \in told \union {next} : i = q[m]
    <3>1. CASE i = len + 1
      BY <2>2, <3>1
    <3>2. CASE i \in s + 1 .. len
      <4>1. longer[i] = events[i]
        BY <1>2, <2>1, <3>2
      <4>2. ASSUME NEW m \in told, i = p[m] PROVE \E k \in told \union {next} : i = q[k]
        BY <2>2, <4>2
      <4> QED BY <1>2, <3>2, <4>1, <4>2
    <3>3. len \in Nat /\ s \in 1 .. len /\ Len(longer) = len + 1
      BY <1>2, <2>1
    <3>4. i = len + 1 \/ i \in s + 1 .. len
      BY <3>3
    <3> QED BY <2>1, <3>1, <3>2, <3>4
  <2>7. s \in DOMAIN longer /\ longer[s] = "run.started"
    BY <1>2, <2>1
  <2>8. TellsAt(longer, s, told \union {next}, q)
    BY <2>3, <2>4, <2>5, <2>6, <2>7 DEF TellsAt
  <2> QED BY <2>8 DEF Tells, longer
<1> QED BY <1>2, <1>3, <1>4

\* The outcome makes a story whole.
LEMMA WholeOfTells ==
  ASSUME NEW events \in Seq(EventType), NEW s, NEW told \in SUBSET WorkflowEvents,
         Tells(events, s, told)
  PROVE  Whole(Append(events, "run.completed"), s, told)
<1> DEFINE len == Len(events)
           longer == Append(events, "run.completed")
<1>1. PICK p : TellsAt(events, s, told, p)
  BY DEF Tells
<1>2. /\ len \in Nat /\ s \in 1 .. len
      /\ p \in [told -> s + 1 .. len]
      /\ \A m \in told : events[p[m]] = m /\ p[m] \in s + 1 .. len
      /\ told = WorkflowEvents => p["workflow.started"] < p["workflow.completed"]
      /\ \A i \in s + 1 .. len : events[i] = "run.cancel_requested" \/ \E m \in told : i = p[m]
  BY <1>1, Appended DEF TellsAt
<1>3. /\ Len(longer) = len + 1 /\ longer[len + 1] = "run.completed"
      /\ \A i \in 1 .. len : longer[i] = events[i]
  BY Appended DEF EventType, LifecycleEvents
<1> HIDE DEF longer
<1>4. Len(longer) - 1 = len /\ p \in [told -> s + 1 .. Len(longer) - 1]
  BY <1>2, <1>3
<1>5. \A m \in told : longer[p[m]] = m
  <2>1. ASSUME NEW m \in told PROVE p[m] \in 1 .. len
    BY <1>2
  <2> QED BY <1>2, <1>3, <2>1
<1>6. ASSUME NEW k \in s + 1 .. Len(longer) - 1
      PROVE  longer[k] = "run.cancel_requested" \/ \E m \in told : k = p[m]
  <2>1. k \in s + 1 .. len /\ k \in 1 .. len
    BY <1>2, <1>4
  <2> QED BY <1>2, <1>3, <2>1
<1>7. longer[Len(longer)] = "run.completed"
  BY <1>3
<1> QED BY <1>2, <1>4, <1>5, <1>6, <1>7 DEF Whole, longer

\* Requests that came before the start are not among the new events.
LEMMA UnaskedOfAppend ==
  ASSUME NEW events \in Seq(EventType), NEW type \in EventType
  PROVE  /\ \A s \in 1 .. Len(events) : Unasked(events, s) => Unasked(Append(events, type), s)
         /\ type # "run.cancel_requested"
              /\ (\A i \in DOMAIN events : events[i] # "run.cancel_requested")
              => \A s : Unasked(Append(events, type), s)
  BY Appended DEF Unasked

\* In a whole story the start is the last one.
LEMMA WholeIsLast ==
  ASSUME StoreInv, NEW r \in Runs, NEW s \in DOMAIN log[r], log[r][s] = "run.started",
         NEW told \in SUBSET WorkflowEvents, Whole(log[r], s, told)
  PROVE  LastStart(r) = s
<1>1. /\ log[r] \in Seq(EventType) /\ Len(log[r]) \in Nat
      /\ DOMAIN log[r] = 1 .. Len(log[r])
  BY Appended DEF StoreInv
<1>2. \A k \in s + 1 .. Len(log[r]) : log[r][k] # "run.started"
  <2>1. PICK at \in [told -> s + 1 .. Len(log[r]) - 1] :
          /\ \A type \in told : log[r][at[type]] = type
          /\ \A k \in s + 1 .. Len(log[r]) - 1 :
               log[r][k] = "run.cancel_requested" \/ \E type \in told : k = at[type]
    BY DEF Whole
  <2>2. ASSUME NEW k \in s + 1 .. Len(log[r]) - 1 PROVE log[r][k] # "run.started"
    BY <2>1, <2>2 DEF WorkflowEvents
  <2>3. log[r][Len(log[r])] = "run.completed"
    BY DEF Whole
  <2>4. ASSUME NEW k \in s + 1 .. Len(log[r])
        PROVE  k = Len(log[r]) \/ k \in s + 1 .. Len(log[r]) - 1
    BY <1>1
  <2> QED BY <2>2, <2>3, <2>4
<1>3. s \in At(r, "run.started") /\ \A j \in At(r, "run.started") : j <= s
  BY <1>1, <1>2 DEF At
<1>4. ASSUME NEW i \in At(r, "run.started"), \A j \in At(r, "run.started") : j <= i
      PROVE  i = s
  BY <1>1, <1>3, <1>4 DEF At
<1> QED BY <1>3, <1>4 DEF LastStart

-----------------------------------------------------------------------------
(* Rows and logs *)

USE RunStoreAssumption, IsolationAssumption

LEMMA Inserted ==
  ASSUME StoreInv, NEW r \in Runs, NEW type, InsertEvent(r, type)
  PROVE  log'[r] = Append(log[r], type) /\ \A q \in Runs : q # r => log'[q] = log[q]
  BY DEF InsertEvent, StoreInv

LEMMA OneStory ==
  ASSUME StoriesOK, NEW r \in Runs, StoryOK(runs'[r], log'[r], lost'[r]),
         \A q \in Runs : q # r => runs'[q] = runs[q] /\ log'[q] = log[q] /\ lost'[q] = lost[q]
  PROVE  StoriesOK'
  BY DEF StoriesOK

LEMMA SameStory ==
  ASSUME NEW old, NEW new, NEW events, NEW missing, StoryOK(old, events, missing),
         Same(old, new, {"status", "cancel_requested"})
  PROVE  StoryOK(new, events, missing)
  BY DEF StoryOK, Same

LEMMA StoryGoesOn ==
  ASSUME NEW events \in Seq(EventType), NEW type \in EventType, NEW old, NEW new,
         NEW before, NEW missing, StoryOK(old, events, before), new.status # "completed",
         old.cancel_requested \/ type = "run.cancel_requested" => new.cancel_requested
  PROVE  StoryOK(new, Append(events, type), missing)
<1>1. ASSUME ~new.cancel_requested, NEW i \in DOMAIN Append(events, type)
      PROVE  Append(events, type)[i] # "run.cancel_requested"
  BY <1>1, Appended DEF StoryOK
<1> QED BY <1>1 DEF StoryOK

\* The outcome of a run whose two chapters are told, as far as they are not missing, by
\* an attempt that knew of every request that came before it.
LEMMA StoryEnds ==
  ASSUME NEW events \in Seq(EventType), NEW old, NEW new, NEW s, NEW missing,
         StoryOK(old, events, missing), Same(old, new, {"cancel_requested"}),
         Tells(events, s, WorkflowEvents \ missing), Unasked(events, s)
  PROVE  StoryOK(new, Append(events, "run.completed"), missing)
<1> DEFINE longer == Append(events, "run.completed")
           told == WorkflowEvents \ missing
<1> told \in SUBSET WorkflowEvents
  OBVIOUS
<1> HIDE DEF told
<1>1. /\ "run.completed" \in EventType /\ s \in 1 .. Len(events) /\ events[s] = "run.started"
  BY TellsOn DEF EventType, LifecycleEvents, told
<1>2. s \in DOMAIN longer /\ longer[s] = "run.started" /\ Unasked(longer, s)
  BY <1>1, Appended, UnaskedOfAppend
<1>3. Whole(longer, s, told)
  BY WholeOfTells DEF told
<1>4. ASSUME ~new.cancel_requested, NEW i \in DOMAIN longer
      PROVE  longer[i] # "run.cancel_requested"
  BY <1>1, <1>4, Appended DEF StoryOK, Same
<1> QED BY <1>2, <1>3, <1>4 DEF StoryOK, told

\* A run goes on being executed, and its log tells nothing but that somebody
\* asked to cancel it; a run that is decided stays so.
Undisturbed(q) ==
  /\ runs[q].status \in Active =>
       /\ runs'[q].status \in Active
       /\ log'[q] = log[q] \/ log'[q] = Append(log[q], "run.cancel_requested")
  /\ runs[q].status \in Terminal => runs'[q].status = runs[q].status

LEMMA SubmitStories ==
  ASSUME StoreInv, StoriesOK, NEW r \in Runs, IsoSubmit(r)
  PROVE  StoreInv' /\ StoriesOK' /\ \A q \in Runs : Undisturbed(q)
<1>1. PICK attempts \in 1 .. MaxAttempts, delay \in 0 .. MaxDelay : CreateRun(r, attempts, delay)
  BY DEF IsoSubmit
<1>2. /\ runs[r].status = "absent" /\ runs'[r].status = "queued"
      /\ \A q \in Runs : q # r => runs'[q] = runs[q]
  BY <1>1, CreateRunRow
<1>3. /\ log'[r] = <<"run.created", "run.queued">>
      /\ \A q \in Runs : q # r => log'[q] = log[q]
  BY <1>1 DEF CreateRun, StoreInv
<1>4. StoryOK(runs'[r], log'[r], lost'[r])
  BY <1>2, <1>3 DEF StoryOK
<1>5. \A q \in Runs : Undisturbed(q)
  BY <1>2, <1>3 DEF Undisturbed, Active, Terminal
<1>6. lost' = lost
  BY DEF IsoSubmit
<1> QED BY <1>1, <1>2, <1>3, <1>4, <1>5, <1>6, OneStory, CreateRunInv

LEMMA CancelStories ==
  ASSUME StoreInv, StoriesOK, NEW r \in Runs, IsoCancel(r)
  PROVE  StoreInv' /\ StoriesOK' /\ \A q \in Runs : Undisturbed(q)
<1>1. CancelRun(r)
  BY DEF IsoCancel
<1>2. /\ \/ runs[r].status = "queued" /\ runs'[r].status = "cancelled"
         \/ runs[r].status \in Active /\ runs'[r].status = "cancelling"
      /\ runs'[r].cancel_requested
      /\ \A q \in Runs : q # r => runs'[q] = runs[q]
  BY <1>1, CancelRunRow
<1>3. PICK type \in {"run.cancelled", "run.cancel_requested"} :
        /\ InsertEvent(r, type)
        /\ runs[r].status \in Active => type = "run.cancel_requested"
  BY <1>1 DEF CancelRun, CancelQueuedRun, CancelActiveRun, Active
<1>4. log'[r] = Append(log[r], type) /\ \A q \in Runs : q # r => log'[q] = log[q]
  BY <1>3, Inserted
<1>5. log[r] \in Seq(EventType) /\ type \in EventType /\ StoryOK(runs[r], log[r], lost[r])
      /\ lost' = lost
  BY DEF StoreInv, StoriesOK, EventType, LifecycleEvents, IsoCancel
<1>6. StoryOK(runs'[r], log'[r], lost'[r])
  BY <1>2, <1>4, <1>5, StoryGoesOn
<1>7. \A q \in Runs : Undisturbed(q)
  BY <1>2, <1>3, <1>4 DEF Undisturbed, Active, Terminal
<1> QED BY <1>1, <1>2, <1>4, <1>5, <1>6, <1>7, OneStory, CancelRunInv

LEMMA TimeStories ==
  ASSUME StoreInv, StoriesOK, Tick, UNCHANGED lost
  PROVE  StoreInv' /\ StoriesOK' /\ \A q \in Runs : Undisturbed(q)
<1>1. ASSUME NEW q \in Runs
      PROVE  Same(runs[q], runs'[q], {"status", "cancel_requested"}) /\ log'[q] = log[q]
  <2>1. Same(runs[q], runs'[q], Fields \ {"lease", "delay", "age"}) /\ log' = log
    BY TickRow DEF Tick
  <2>2. {"status", "cancel_requested"} \subseteq Fields \ {"lease", "delay", "age"}
    BY DEF Fields
  <2> QED BY <2>1, <2>2 DEF Same
<1>2. StoriesOK'
  BY <1>1, SameStory DEF StoriesOK
<1> QED BY <1>1, <1>2, TickInv DEF Undisturbed, Same

\* A report of the workflow to a run that is not completed.
LEMMA ReportStories ==
  ASSUME StoreInv, StoriesOK, NEW r \in Runs, NEW type \in WorkflowEvents,
         AppendEvent(r, type), UNCHANGED lost, runs[r].status # "completed"
  PROVE  /\ StoreInv' /\ StoriesOK' /\ runs' = runs
         /\ log'[r] = Append(log[r], type) /\ \A q \in Runs : q # r => log'[q] = log[q]
<1>1. /\ log'[r] = Append(log[r], type) /\ \A q \in Runs : q # r => log'[q] = log[q]
      /\ runs' = runs
  BY Inserted DEF AppendEvent
<1>2. type \in ReportEvents /\ type \in EventType /\ type # "run.cancel_requested"
  BY DEF WorkflowEvents, ReportEvents, EventType
<1>3. log[r] \in Seq(EventType) /\ StoryOK(runs[r], log[r], lost[r])
  BY DEF StoreInv, StoriesOK
<1>4. StoryOK(runs[r], Append(log[r], type), lost[r])
  BY <1>2, <1>3, StoryGoesOn
<1>5. StoryOK(runs'[r], log'[r], lost'[r])
  BY <1>1, <1>4
<1> QED BY <1>1, <1>2, <1>5, OneStory, AppendEventInv

LEMMA LateStories ==
  ASSUME StoreInv, StoriesOK, LateOK, ProcessTypes, LateWrite
  PROVE  StoreInv' /\ StoriesOK' /\ \A q \in Runs : Undisturbed(q)
<1>1. PICK write \in late : AppendEvent(write.run, write.msg) \/ UNCHANGED storeVars
  BY DEF LateWrite
<1>2. /\ write.run \in Runs /\ write.msg \in WorkflowEvents
      /\ runs[write.run].status = "failed" /\ UNCHANGED lost
  BY DEF LateOK, ProcessTypes, LateWrite
<1>3. CASE AppendEvent(write.run, write.msg)
  <2>1. /\ StoreInv' /\ StoriesOK' /\ runs' = runs
        /\ \A q \in Runs : q # write.run => log'[q] = log[q]
    BY <1>2, <1>3, ReportStories
  <2> QED BY <1>2, <2>1 DEF Undisturbed, Active
<1>4. CASE UNCHANGED storeVars
  BY <1>2, <1>4, StoreUnchangedInv DEF storeVars, StoriesOK, Undisturbed
<1> QED BY <1>1, <1>3, <1>4

\* The lease changes, and nothing else.
LEMMA RefreshStories ==
  ASSUME StoreInv, StoriesOK, NEW r \in Runs, RefreshLease(r, Self), UNCHANGED lost
  PROVE  StoreInv' /\ StoriesOK' /\ \A q \in Runs : Undisturbed(q) /\ log'[q] = log[q]
<1>1. /\ Same(runs[r], runs'[r], {"status", "cancel_requested"})
      /\ \A q \in Runs : q # r => runs'[q] = runs[q]
      /\ log' = log
  BY RefreshLeaseRow DEF Same, Fields, RefreshLease
<1>2. StoryOK(runs'[r], log'[r], lost'[r])
  BY <1>1, SameStory DEF StoriesOK
<1> QED BY <1>1, <1>2, OneStory, RefreshLeaseInv DEF Undisturbed, Same

-----------------------------------------------------------------------------
(* Steps that the parent does not make *)

LEMMA Storyteller ==
  ASSUME IsoInv, NEW n, parent.run \in Runs, Attempting(n), parent' = parent,
         lost'[parent.run] = lost[parent.run],
         \/ log'[parent.run] = log[parent.run]
         \/ log'[parent.run] = Append(log[parent.run], "run.cancel_requested")
  PROVE  Attempting(n)'
<1> DEFINE told == Chapters(n) \ lost[parent.run]
<1>1. PICK s \in DOMAIN log[parent.run] :
        /\ Tells(log[parent.run], s, told)
        /\ ~parent.asked => Unasked(log[parent.run], s)
  BY DEF Attempting
<1>2. log[parent.run] \in Seq(EventType) /\ "run.cancel_requested" \in EventType
      /\ told \in SUBSET WorkflowEvents /\ lost[parent.run] \subseteq Chapters(n)
  BY DEF IsoInv, StoreInv, EventType, LifecycleEvents, Attempting, Chapters, Chapter, WorkflowEvents
<1>3. ASSUME Tells(log'[parent.run], s, told), s \in DOMAIN log'[parent.run],
             ~parent.asked => Unasked(log'[parent.run], s)
      PROVE  Attempting(n)'
  <2>1. told = Chapters(n) \ lost'[parent'.run] /\ lost'[parent'.run] \subseteq Chapters(n)
    BY <1>2
  <2> QED BY <1>3, <2>1 DEF Attempting
<1> HIDE DEF told
<1>4. CASE log'[parent.run] = log[parent.run]
  BY <1>1, <1>3, <1>4
<1>5. CASE log'[parent.run] = Append(log[parent.run], "run.cancel_requested")
  <2>1. Tells(log'[parent.run], s, told) /\ s \in 1 .. Len(log[parent.run])
    BY <1>1, <1>2, <1>5, TellsOn
  <2>2. ~parent.asked => Unasked(log'[parent.run], s)
    BY <1>1, <1>2, <1>5, <2>1, UnaskedOfAppend
  <2>3. s \in DOMAIN log'[parent.run]
    BY <1>2, <1>5, <2>1, Appended
  <2> QED BY <1>3, <2>1, <2>2, <2>3
<1> QED BY <1>4, <1>5

LEMMA ParentUndisturbed ==
  ASSUME IsoInv, UNCHANGED <<parent, child, queue, relay, slow, lost>>,
         \A q \in Runs : Undisturbed(q)
  PROVE  ParentOK'
<1>1. ParentOK
  BY DEF IsoInv
<1>2. /\ parent.pc # "idle" => parent.run \in Runs
      /\ parent.pc \in {"claimed"} \union Waiting => parent.run \in Runs /\ parent.pc # "idle"
  BY <1>1 DEF ParentOK, Waiting
<1>3. \A n : Pipeline(n) <=> Pipeline(n)'
  BY DEF Pipeline, RelayOK, QueueOK, ChildOK, Taken
<1>4. parent.pc \in {"claimed"} \union Waiting =>
        /\ runs'[parent.run].status \in Active
        /\ log'[parent.run] = log[parent.run]
             \/ log'[parent.run] = Append(log[parent.run], "run.cancel_requested")
  BY <1>1, <1>2 DEF ParentOK, Undisturbed
<1>5. parent.pc = "claimed" => Attempting(0)'
  BY <1>1, <1>2, <1>4, Storyteller DEF ParentOK
<1>6. parent.pc \in Waiting => \E n \in 0 .. 2 : Attempting(n)' /\ Pipeline(n)'
  <2> SUFFICES ASSUME parent.pc \in Waiting PROVE \E n \in 0 .. 2 : Attempting(n)' /\ Pipeline(n)'
    OBVIOUS
  <2>1. PICK n \in 0 .. 2 : Attempting(n) /\ Pipeline(n)
    BY <1>1 DEF ParentOK
  <2>2. Attempting(n)'
    BY <1>2, <1>4, <2>1, Storyteller
  <2> QED BY <1>3, <2>1, <2>2
<1>7. parent.pc \in {"cleanup", "close"} => runs'[parent.run].status = runs[parent.run].status
  BY <1>1, <1>2 DEF ParentOK, Undisturbed, Terminal
<1> QED BY <1>1, <1>2, <1>4, <1>5, <1>6, <1>7 DEF ParentOK, RelayIsDone

-----------------------------------------------------------------------------
(* The child *)

\* While the parent waits in its join only the child's side of the pipeline moves.
LEMMA JoinFrame ==
  ASSUME IsoInv, parent.pc = "join", UNCHANGED <<runs, log, parent, relay, slow, lost>>,
         child'.pc # "exited" => child'.error = None,
         \A n \in 0 .. 2 : Pipeline(n) => Pipeline(n)'
  PROVE  ParentOK'
<1>1. PICK n \in 0 .. 2 : Attempting(n) /\ Pipeline(n)
  BY DEF IsoInv, ParentOK, Waiting
<1>2. Attempting(n)' /\ Pipeline(n)'
  BY <1>1 DEF Attempting
<1> QED BY <1>2 DEF IsoInv, ParentOK

LEMMA KilledTypes ==
  ASSUME queue \in Seq(Message), Killed
  PROVE  queue' \in Seq(Message) /\ jammed' \in BOOLEAN
<1>1. PICK n \in 0 .. Len(queue) : queue' = SubSeq(queue, 1, n)
  BY DEF Killed
<1>2. queue' \in Seq(Message)
  BY <1>1
<1>3. jammed' = FALSE \/ jammed' = TornWrites
  BY DEF Killed
<1> QED BY <1>2, <1>3

\* A killed child takes a tail of its messages with it.
LEMMA KilledPipeline ==
  ASSUME IsoInv, NEW n \in 0 .. 2, Pipeline(n), Killed, relay' = relay, parent'.asked = parent.asked
  PROVE  Pipeline(n)'
<1>1. /\ queue \in Seq(Message) /\ Len(queue) \in Nat /\ relay \in RelayState
      /\ RelayOK(n) /\ QueueOK(n) /\ ChildOK(Taken(n) + Len(queue))
  BY DEF IsoInv, ProcessTypes, Pipeline
<1>2. Taken(n)' = Taken(n) /\ Taken(n) \in Nat /\ RelayOK(n)'
  BY <1>1 DEF RelayOK, Taken
<1>3. PICK m \in 0 .. Len(queue) : queue' = SubSeq(queue, 1, m)
  BY DEF Killed
<1>4. Len(queue') = m /\ \A i \in 1 .. m : queue'[i] = queue[i]
  BY <1>1, <1>3
<1>5. child'.pc = "exited" /\ child'.error # None
  BY DEF Killed
<1>6. QueueOK(n)' /\ Taken(n) + m <= Taken(n) + Len(queue)
  BY <1>1, <1>2, <1>3, <1>4 DEF QueueOK
<1>7. ChildOK(Taken(n) + Len(queue))'
  BY <1>1, <1>2, <1>4, <1>5, <1>6 DEF ChildOK
<1> QED BY <1>2, <1>6, <1>7 DEF Pipeline

\* A child that goes on with its part: the relay's side stays as it is.
LEMMA ChildPipeline ==
  ASSUME IsoInv, NEW n \in 0 .. 2, Pipeline(n), ChildNext \/ Pass
  PROVE  Pipeline(n)'
<1>1. /\ child \in ChildState /\ queue \in Seq(Message) /\ relay' = relay /\ parent'.asked = parent.asked
      /\ Len(queue) \in Nat /\ Taken(n)' = Taken(n) /\ Taken(n) \in Nat /\ RelayOK(n)'
      /\ RelayOK(n) /\ QueueOK(n) /\ ChildOK(Taken(n) + Len(queue))
  <2>1. relay' = relay /\ parent'.asked = parent.asked
    BY DEF ChildNext, ChildChecks, ChildPuts, ChildRaises, ChildExits, LimitExceeded, Pass
  <2> QED BY <2>1 DEF IsoInv, ProcessTypes, Pipeline, RelayOK, Taken
<1>2. ASSUME NEW from, NEW to, ChildChecks(from, to),
             \/ from = "begin" /\ to = "begun"
             \/ from = "body" /\ to = "ended"
      PROVE  Pipeline(n)'
  <2>1. /\ child.pc = from /\ child'.pc = to /\ child'.error = child.error /\ queue' = queue
        /\ ~parent.asked
    BY <1>1, <1>2 DEF ChildChecks, ChildState
  <2> QED BY <1>1, <1>2, <2>1 DEF Pipeline, QueueOK, ChildOK
<1>3. ASSUME NEW from, NEW message, NEW to, ChildPuts(from, message, to),
             \/ from = "begun" /\ message = "workflow.started" /\ to = "body"
             \/ from = "ended" /\ message = "workflow.completed" /\ to = "complete"
             \/ from = "complete" /\ message = "result" /\ to = "done"
      PROVE  Pipeline(n)'
  <2>1. /\ child.pc = from /\ child'.pc = to /\ child'.error = child.error
        /\ queue' = Append(queue, message)
    BY <1>1, <1>3 DEF ChildPuts, ChildState
  <2>2. message \in Message
    BY <1>3 DEF Message, WorkflowEvents
  <2>3. /\ Len(queue') = Len(queue) + 1 /\ queue'[Len(queue) + 1] = message
        /\ \A i \in 1 .. Len(queue) : queue'[i] = queue[i]
    BY <1>1, <2>1, <2>2
  <2>4. /\ Taken(n) + Len(queue) = IF from = "begun" THEN 0 ELSE IF from = "ended" THEN 1 ELSE 2
        /\ ~parent.asked
    BY <1>1, <1>3, <2>1 DEF ChildOK
  <2>5. message = Sent(Taken(n) + (Len(queue) + 1))
    BY <1>1, <1>3, <2>4 DEF Sent, Chapter
  <2>6. QueueOK(n)'
    BY <1>1, <1>3, <2>3, <2>4, <2>5 DEF QueueOK
  <2>7. ChildOK(Taken(n) + Len(queue))'
    BY <1>1, <1>3, <2>1, <2>3, <2>4 DEF ChildOK
  <2> QED BY <1>1, <2>6, <2>7 DEF Pipeline
<1>4. CASE ChildRaises
  <2>1. child'.pc = "exited" /\ child'.error # None /\ queue' = queue
    BY <1>4 DEF ChildRaises
  <2> QED BY <1>1, <2>1 DEF Pipeline, QueueOK, ChildOK
<1>5. CASE ChildExits
  <2>1. child.pc = "done" /\ child'.pc = "exited" /\ queue' = queue
    BY <1>1, <1>5 DEF ChildExits, ChildState
  <2> QED BY <1>1, <2>1 DEF Pipeline, QueueOK, ChildOK
<1>6. CASE LimitExceeded
  BY <1>1, <1>6, KilledPipeline DEF LimitExceeded
<1>7. CASE Pass
  <2>1. child' = child /\ queue' = queue
    BY <1>7 DEF Pass
  <2> QED BY <1>1, <2>1 DEF Pipeline, QueueOK, ChildOK
<1> QED BY <1>2, <1>3, <1>4, <1>5, <1>6, <1>7 DEF ChildNext

\* What the child or the clock does while the parent waits in its join.
JoinKept ==
  /\ UNCHANGED <<runs, log, order, parent, relay, late, slow, lost, cancels, crashes>>
  /\ parent.pc = "join"
  /\ child' \in ChildState /\ (child'.pc # "exited" => child'.error = None)
  /\ queue' \in Seq(Message) /\ jammed' \in BOOLEAN /\ elapsed' \in Elapsed

LEMMA ChildStep ==
  ASSUME IsoInv, ChildNext \/ Pass
  PROVE  StoreInv' /\ StoriesOK' /\ LateOK' /\ ProcessTypes' /\ ParentOK'
<1>1. /\ child \in ChildState /\ queue \in Seq(Message) /\ Len(queue) \in Nat
      /\ jammed \in BOOLEAN /\ elapsed \in Elapsed
      /\ parent.pc # "join" => child.pc = "exited"
      /\ child.pc # "exited" => child.error = None
  BY DEF IsoInv, ProcessTypes, ParentOK
<1>2. ASSUME NEW from, NEW to, from # "exited", to \in {"begun", "ended"}, ChildChecks(from, to)
      PROVE  JoinKept
  <2>1. child' = [child EXCEPT !.pc = to] /\ child.pc # "exited"
    BY <1>2 DEF ChildChecks
  <2>2. child' \in ChildState /\ child'.error = None
    BY <1>1, <1>2, <2>1 DEF ChildState
  <2> QED BY <1>1, <1>2, <2>1, <2>2 DEF ChildChecks, JoinKept
<1>3. ASSUME NEW from, NEW message \in Message, NEW to, from # "exited",
             to \in {"body", "complete", "done"}, ChildPuts(from, message, to)
      PROVE  JoinKept
  <2>1. child' = [child EXCEPT !.pc = to] /\ child.pc # "exited" /\ queue' = Append(queue, message)
    BY <1>3 DEF ChildPuts
  <2>2. child' \in ChildState /\ child'.error = None
    BY <1>1, <1>3, <2>1 DEF ChildState
  <2>3. queue' \in Seq(Message)
    BY <1>1, <2>1
  <2> QED BY <1>1, <1>3, <2>1, <2>2, <2>3 DEF ChildPuts, JoinKept
<1>4. ASSUME ChildRaises PROVE JoinKept
  <2>1. child.pc # "exited" /\ child'.pc = "exited" /\ child' \in ChildState
    BY <1>4 DEF ChildRaises, ChildState
  <2>2. UNCHANGED <<runs, log, order, parent, queue, jammed, relay, late, slow, lost, elapsed, cancels, crashes>>
    BY <1>4 DEF ChildRaises
  <2> QED BY <1>1, <2>1, <2>2 DEF JoinKept
<1>5. ASSUME ChildExits PROVE JoinKept
  <2>1. child.pc # "exited" /\ child'.pc = "exited" /\ child' \in ChildState
    BY <1>1, <1>5 DEF ChildExits, ChildState
  <2>2. UNCHANGED <<runs, log, order, parent, queue, jammed, relay, late, slow, lost, elapsed, cancels, crashes>>
    BY <1>5 DEF ChildExits
  <2> QED BY <1>1, <2>1, <2>2 DEF JoinKept
<1>6. ASSUME LimitExceeded PROVE JoinKept
  <2>1. child.pc # "exited" /\ child'.pc = "exited" /\ child' \in ChildState
    BY <1>6 DEF LimitExceeded, Killed, ChildState
  <2>2. queue' \in Seq(Message) /\ jammed' \in BOOLEAN
    BY <1>1, <1>6, KilledTypes DEF LimitExceeded
  <2>3. UNCHANGED <<runs, log, order, parent, relay, late, slow, lost, elapsed, cancels, crashes>>
    BY <1>6 DEF LimitExceeded
  <2> QED BY <1>1, <2>1, <2>2, <2>3 DEF JoinKept
<1>7. ASSUME Pass PROVE JoinKept
  <2>1. elapsed' \in Elapsed
    BY <1>7 DEF Pass, Elapsed
  <2>2. /\ UNCHANGED <<runs, log, order, parent, child, queue, jammed, relay, late, slow, lost, cancels, crashes>>
        /\ parent.pc = "join"
    BY <1>7 DEF Pass
  <2> QED BY <1>1, <2>1, <2>2 DEF JoinKept
<1>8. JoinKept
  <2>1. {"workflow.started", "workflow.completed", "result"} \subseteq Message
    BY DEF Message, WorkflowEvents
  <2>2. ChildChecks("begin", "begun") \/ ChildChecks("body", "ended") => JoinKept
    BY <1>2
  <2>3. \/ ChildPuts("begun", "workflow.started", "body")
        \/ ChildPuts("ended", "workflow.completed", "complete")
        \/ ChildPuts("complete", "result", "done")
        => JoinKept
    BY <1>3, <2>1
  <2> QED BY <1>4, <1>5, <1>6, <1>7, <2>2, <2>3 DEF ChildNext
<1>9. StoreInv' /\ StoriesOK' /\ LateOK' /\ ProcessTypes'
  BY <1>8, StoreUnchangedInv DEF JoinKept, IsoInv, storeVars, StoriesOK, LateOK, ProcessTypes
<1> QED BY <1>8, <1>9, ChildPipeline, JoinFrame DEF JoinKept

-----------------------------------------------------------------------------
(* The relay *)

\* While the parent waits, the relay moves one message on: from the queue into its
\* hands, or from its hands into the log.
LEMMA RelayPipeline ==
  ASSUME IsoInv, parent.pc \in Waiting, NEW n \in 0 .. 2, Attempting(n), Pipeline(n), RelayNext
  PROVE  \E m \in 0 .. 2 : Attempting(m)' /\ Pipeline(m)'
<1>1. /\ relay \in RelayState /\ queue \in Seq(Message) /\ Len(queue) \in Nat
      /\ RelayOK(n) /\ QueueOK(n) /\ ChildOK(Taken(n) + Len(queue))
  BY DEF IsoInv, ProcessTypes, Pipeline
<1>2. /\ parent.run \in Runs /\ log[parent.run] \in Seq(EventType)
      /\ relay.pc # "off" => relay.run = parent.run
  BY DEF IsoInv, StoreInv, ParentOK, Waiting
<1>3. parent' = parent /\ child' = child
  BY DEF RelayNext, RelayLoops, RelayTakes, RelayWrites
<1>4. ASSUME NEW m \in 0 .. 2, RelayOK(m)', QueueOK(m)',
             (Taken(m) + Len(queue))' = Taken(n) + Len(queue)
      PROVE  Pipeline(m)'
  BY <1>1, <1>3, <1>4 DEF Pipeline, ChildOK
<1>5. ASSUME UNCHANGED <<log, lost>> PROVE Attempting(n)'
  BY <1>3, <1>5 DEF Attempting
<1>6. CASE RelayLoops
  <2>1. relay.pc = "head" /\ relay' = [relay EXCEPT !.pc = "get"] /\ queue' = queue /\ UNCHANGED <<log, lost>>
    BY <1>1, <1>6 DEF RelayLoops, RelayOK
  <2>2. Taken(n) = n /\ Taken(n)' = n /\ RelayOK(n)'
    BY <1>1, <2>1 DEF Taken, RelayOK, RelayState
  <2>3. QueueOK(n)'
    BY <1>1, <2>1, <2>2 DEF QueueOK
  <2> QED BY <1>4, <1>5, <2>1, <2>2, <2>3
<1>7. CASE RelayTakes /\ queue = <<>>
  <2>1. relay.pc = "get" /\ relay' = [relay EXCEPT !.pc = "head"] /\ queue' = queue /\ UNCHANGED <<log, lost>>
    BY <1>7 DEF RelayTakes
  <2>2. Taken(n) = n /\ Taken(n)' = n /\ RelayOK(n)'
    BY <1>1, <2>1 DEF Taken, RelayOK, RelayState
  <2>3. QueueOK(n)'
    BY <1>1, <2>1, <2>2 DEF QueueOK
  <2> QED BY <1>4, <1>5, <2>1, <2>2, <2>3
<1>8. CASE RelayTakes /\ queue # <<>>
  <2>1. relay.pc = "get" /\ queue' = Tail(queue) /\ UNCHANGED <<log, lost>> /\ Taken(n) = n
    BY <1>8 DEF RelayTakes, Taken
  <2>2. /\ Len(queue) \in Nat \ {0} /\ Len(queue') = Len(queue) - 1
        /\ \A i \in 1 .. Len(queue) - 1 : queue'[i] = queue[i + 1]
        /\ Head(queue) = queue[1]
    BY <1>1, <1>8, <2>1
  <2>3. Head(queue) = Sent(n + 1)
    BY <1>1, <2>1, <2>2 DEF QueueOK
  <2>4. ASSUME Taken(n)' = n + 1 PROVE QueueOK(n)'
    <3>1. ASSUME NEW i \in 1 .. Len(queue') PROVE queue'[i] = Sent(n + 1 + i)
      <4>1. i \in 1 .. Len(queue) - 1 /\ i + 1 \in 1 .. Len(queue) /\ n + (i + 1) = n + 1 + i
        BY <2>2
      <4>2. queue[i + 1] = Sent(n + (i + 1))
        BY <1>1, <2>1, <4>1 DEF QueueOK
      <4> QED BY <2>2, <4>1, <4>2
    <3> QED BY <1>1, <2>1, <2>2, <2>4, <3>1 DEF QueueOK
  <2>5. Taken(n)' = n + 1 /\ RelayOK(n)'
    <3>1. CASE n = 2
      <4>1. Head(queue) = "result"
        BY <2>3, <3>1 DEF Sent
      <4>2. relay' = [relay EXCEPT !.pc = "off", !.result = "completed"]
        BY <1>8, <4>1 DEF RelayTakes
      <4> QED BY <1>1, <3>1, <4>2 DEF Taken, RelayOK, RelayState
    <3>2. CASE n < 2
      <4>1. Head(queue) = Chapter(n + 1) /\ Head(queue) \notin {"result", "sentinel"}
        BY <2>3, <3>2 DEF Sent, Chapter
      <4>2. relay' = [relay EXCEPT !.pc = "write", !.msg = Head(queue)]
        BY <1>8, <4>1 DEF RelayTakes
      <4> QED BY <1>1, <2>1, <3>2, <4>1, <4>2 DEF Taken, RelayOK, RelayState
    <3> QED BY <3>1, <3>2
  <2>6. QueueOK(n)' /\ (Taken(n) + Len(queue))' = Taken(n) + Len(queue)
    BY <2>1, <2>2, <2>4, <2>5
  <2> QED BY <1>4, <1>5, <2>1, <2>5, <2>6
<1>9. CASE RelayWrites
  <2> DEFINE told == Chapters(n) \ lost[parent.run]
  <2>1. /\ relay.pc = "write" /\ relay' = [relay EXCEPT !.pc = "head", !.msg = None]
        /\ queue' = queue
    BY <1>9 DEF RelayWrites
  <2>2. /\ relay.msg = Chapter(n + 1) /\ n \in 0 .. 1 /\ n + 1 \in 0 .. 2 /\ ~relay.stopping
        /\ relay.run = parent.run /\ relay.result # "completed"
    BY <1>1, <1>2, <2>1 DEF RelayOK
  <2>3. /\ Chapter(n + 1) \notin Chapters(n) /\ Chapter(n + 1) \in WorkflowEvents
        /\ Chapters(n + 1) = Chapters(n) \union {Chapter(n + 1)}
        /\ Chapter(n + 1) = "workflow.started" => told = {}
        /\ told \in SUBSET WorkflowEvents /\ lost[parent.run] \subseteq Chapters(n)
        /\ Chapter(n + 1) \in EventType /\ Chapter(n + 1) # "run.cancel_requested"
    BY <2>2, ChapterSets
       DEF Attempting, Chapters, Chapter, WorkflowEvents, EventType, ReportEvents
  <2>4. PICK s \in DOMAIN log[parent.run] :
          /\ Tells(log[parent.run], s, told)
          /\ ~parent.asked => Unasked(log[parent.run], s)
    BY DEF Attempting
  <2>5. Attempting(n + 1)'
    <3>1. CASE AppendEvent(relay.run, relay.msg) /\ UNCHANGED lost
      <4>1. log'[parent.run] = Append(log[parent.run], Chapter(n + 1))
        BY <1>2, <2>2, <3>1, Inserted DEF IsoInv, AppendEvent
      <4>2. Tells(log'[parent.run], s, told \union {Chapter(n + 1)}) /\ s \in 1 .. Len(log[parent.run])
        <5>1. told \in SUBSET WorkflowEvents /\ Tells(log[parent.run], s, told)
          BY <2>3, <2>4
        <5>2. Chapter(n + 1) \in WorkflowEvents \ told
          BY <2>3
        <5> HIDE DEF told
        <5>3. /\ s \in 1 .. Len(log[parent.run])
              /\ Tells(Append(log[parent.run], Chapter(n + 1)), s, told \union {Chapter(n + 1)})
          BY <1>2, <2>3, <5>1, <5>2, TellsOn
        <5> QED BY <4>1, <5>3
      <4>3. ~parent.asked => Unasked(log'[parent.run], s)
        BY <1>2, <2>3, <2>4, <4>1, <4>2, UnaskedOfAppend
      <4>4. s \in DOMAIN log'[parent.run]
        BY <1>2, <2>3, <4>1, <4>2, Appended
      <4>5. /\ told \union {Chapter(n + 1)} = Chapters(n + 1) \ lost[parent.run]
            /\ lost[parent.run] \subseteq Chapters(n + 1)
        BY <2>3
      <4> QED BY <1>3, <3>1, <4>2, <4>3, <4>4, <4>5 DEF Attempting
    <3>2. CASE UNCHANGED storeVars /\ lost' = [lost EXCEPT ![relay.run] = @ \union {relay.msg}]
      <4>1. lost'[parent.run] = lost[parent.run] \union {Chapter(n + 1)} /\ log' = log
        BY <1>2, <2>2, <3>2 DEF IsoInv, ProcessTypes, storeVars
      <4>2. /\ told = Chapters(n + 1) \ lost'[parent.run]
            /\ lost'[parent.run] \subseteq Chapters(n + 1)
        BY <2>3, <4>1
      <4> QED BY <1>3, <2>4, <4>1, <4>2 DEF Attempting
    <3> QED BY <1>9, <3>1, <3>2 DEF RelayWrites
  <2>6. Taken(n) = n + 1 /\ Taken(n + 1)' = n + 1 /\ RelayOK(n + 1)'
    BY <1>1, <2>1, <2>2 DEF Taken, RelayOK, RelayState
  <2>7. QueueOK(n + 1)'
    BY <1>1, <2>1, <2>6 DEF QueueOK
  <2> QED BY <1>4, <2>1, <2>2, <2>5, <2>6, <2>7
<1> QED BY <1>6, <1>7, <1>8, <1>9 DEF RelayNext

LEMMA RelayStep ==
  ASSUME IsoInv, RelayNext
  PROVE  StoreInv' /\ StoriesOK' /\ LateOK' /\ ProcessTypes' /\ ParentOK'
<1>1. /\ relay \in RelayState /\ queue \in Seq(Message) /\ parent \in ParentState
      /\ StoreInv /\ StoriesOK /\ LateOK /\ ProcessTypes /\ ParentOK
  BY DEF IsoInv, ProcessTypes
<1>2. UNCHANGED <<parent, child, late, slow, elapsed, cancels, crashes>>
  BY DEF RelayNext, RelayLoops, RelayTakes, RelayWrites
<1>3. UNCHANGED jammed
  BY DEF RelayNext, RelayLoops, RelayTakes, RelayWrites
<1>4. relay.pc # "off"
  BY DEF RelayNext, RelayLoops, RelayTakes, RelayWrites
<1>5. /\ parent.pc \notin {"idle", "claimed"} /\ parent.run \in Runs /\ relay.run = parent.run
      /\ parent.pc \in Waiting \/ parent.pc \in {"cleanup", "close"}
  BY <1>1, <1>4 DEF ParentOK, ParentState, Waiting
<1>6. /\ runs[parent.run].status # "completed"
      /\ parent.pc \in {"cleanup", "close"} =>
           runs[parent.run].status = "failed" /\ (child.error # None \/ slow)
  BY <1>1, <1>4, <1>5 DEF ParentOK, Active
<1>7. /\ StoreInv' /\ StoriesOK' /\ runs' = runs
      /\ lost' \in [Runs -> SUBSET WorkflowEvents]
  <2>1. CASE RelayLoops \/ RelayTakes
    <3>1. UNCHANGED storeVars /\ UNCHANGED lost
      BY <2>1 DEF RelayLoops, RelayTakes, storeVars
    <3> QED BY <1>1, <3>1, StoreUnchangedInv DEF storeVars, StoriesOK, ProcessTypes
  <2>2. CASE RelayWrites
    <3>1. relay.msg \in WorkflowEvents
      BY <1>1, <2>2 DEF RelayWrites, ParentOK
    <3>2. CASE AppendEvent(relay.run, relay.msg) /\ UNCHANGED lost
      BY <1>1, <1>5, <1>6, <3>1, <3>2, ReportStories DEF ProcessTypes
    <3>3. CASE UNCHANGED storeVars /\ lost' = [lost EXCEPT ![relay.run] = @ \union {relay.msg}]
      <4>1. /\ lost' \in [Runs -> SUBSET WorkflowEvents]
            /\ \A q \in Runs : q # parent.run => lost'[q] = lost[q]
        BY <1>1, <1>5, <3>1, <3>3 DEF ProcessTypes
      <4>2. StoryOK(runs'[parent.run], log'[parent.run], lost'[parent.run])
        BY <1>1, <1>5, <1>6, <3>3 DEF storeVars, StoriesOK, StoryOK
      <4> QED BY <1>1, <1>5, <3>3, <4>1, <4>2, OneStory, StoreUnchangedInv DEF storeVars
    <3> QED BY <2>2, <3>2, <3>3 DEF RelayWrites
  <2> QED BY <2>1, <2>2 DEF RelayNext
<1>8. /\ relay' \in RelayState /\ relay'.run = relay.run
      /\ relay'.pc = "write" => relay'.msg \in WorkflowEvents
      /\ queue' \in Seq(Message)
      /\ RelayIsDone => relay'.pc # "write" /\ queue' = queue
  <2>1. CASE RelayLoops
    BY <1>1, <2>1 DEF RelayLoops, RelayState, RelayIsDone
  <2>2. CASE RelayTakes /\ queue = <<>>
    BY <1>1, <2>2 DEF RelayTakes, RelayState, RelayIsDone
  <2>3. CASE RelayTakes /\ queue # <<>>
    <3>1. Head(queue) \in Message /\ queue' = Tail(queue) /\ Tail(queue) \in Seq(Message)
      BY <1>1, <2>3 DEF RelayTakes
    <3>2. ~RelayIsDone
      BY <1>4, <2>3 DEF RelayIsDone
    <3>3. CASE Head(queue) = "sentinel"
      <4>1. relay' = [relay EXCEPT !.pc = "off"]
        BY <2>3, <3>3 DEF RelayTakes
      <4> QED BY <1>1, <3>1, <3>2, <4>1 DEF RelayState
    <3>4. CASE Head(queue) = "result"
      <4>1. relay' = [relay EXCEPT !.pc = "off", !.result = "completed"]
        BY <2>3, <3>4 DEF RelayTakes
      <4> QED BY <1>1, <3>1, <3>2, <4>1 DEF RelayState
    <3>5. CASE Head(queue) \in WorkflowEvents
      <4>1. relay' = [relay EXCEPT !.pc = "write", !.msg = Head(queue)]
        BY <2>3, <3>5 DEF RelayTakes, WorkflowEvents
      <4> QED BY <1>1, <3>1, <3>2, <3>5, <4>1 DEF RelayState, WorkflowEvents
    <3> QED BY <3>1, <3>3, <3>4, <3>5 DEF Message, WorkflowEvents
  <2>4. CASE RelayWrites
    <3>1. relay.pc = "write" /\ relay' = [relay EXCEPT !.pc = "head", !.msg = None] /\ queue' = queue
      BY <2>4 DEF RelayWrites
    <3> QED BY <1>1, <3>1 DEF RelayState, RelayIsDone
  <2> QED BY <2>1, <2>2, <2>3, <2>4 DEF RelayNext
<1>9. LateOK' /\ ProcessTypes'
  BY <1>1, <1>2, <1>3, <1>7, <1>8 DEF LateOK, ProcessTypes
<1>10. parent'.pc \in Waiting => (\E n \in 0 .. 2 : Attempting(n) /\ Pipeline(n))'
  BY <1>1, <1>2, RelayPipeline DEF ParentOK
<1>11. RelayIsDone => RelayIsDone'
  BY <1>4, <1>8 DEF RelayIsDone
<1>12. /\ parent'.pc \notin {"idle", "claimed"} /\ parent'.run \in Runs
       /\ relay'.run = parent'.run /\ child' = child /\ (slow => slow')
       /\ parent'.pc # "join" => child'.pc = "exited"
       /\ child'.pc # "exited" => child'.error = None
       /\ parent'.pc \in Waiting => runs'[parent'.run].status \in Active
       /\ parent'.pc = "overdue" => child'.error # None
       /\ parent'.pc \in {"lookup", "unresolved"} => child'.error # None \/ slow'
  BY <1>1, <1>2, <1>5, <1>7, <1>8 DEF ParentOK
<1>13. /\ parent'.pc = "apply" => RelayIsDone' \/ slow'
       /\ parent'.pc \in {"cleanup", "close"} =>
            runs'[parent'.run].status = "failed" /\ (child'.error # None \/ slow')
  BY <1>1, <1>2, <1>6, <1>7, <1>11 DEF ParentOK
<1>14. relay'.pc = "write" => relay'.msg \in WorkflowEvents
  BY <1>8
<1>15. ParentOK'
  BY <1>10, <1>12, <1>13, <1>14 DEF ParentOK
<1> QED BY <1>7, <1>9, <1>15

-----------------------------------------------------------------------------
(* The parent *)

\* The parent goes on waiting for an outcome.
LEMMA WaitingOn ==
  ASSUME IsoInv, parent.pc \in Waiting,
         NEW to \in Waiting, to # "join", parent' = [parent EXCEPT !.pc = to],
         UNCHANGED <<runs, log, order, relay, late, lost, elapsed, cancels, crashes>>,
         UNCHANGED <<child, queue, jammed>> \/ Killed,
         slow' = slow \/ slow' = TRUE,
         child'.pc = "exited",
         to = "overdue" => child'.error # None,
         to = "apply" => RelayIsDone' \/ slow',
         to \in {"lookup", "unresolved"} => child'.error # None \/ slow'
  PROVE  IsoInv'
<1>1. /\ parent \in ParentState /\ child \in ChildState /\ queue \in Seq(Message)
      /\ StoreInv /\ StoriesOK /\ LateOK /\ ProcessTypes /\ ParentOK
  BY DEF IsoInv, ProcessTypes
<1>2. parent.run \in Runs /\ runs[parent.run].status \in Active
  BY <1>1 DEF ParentOK, Waiting
<1>3. PICK n \in 0 .. 2 : Attempting(n) /\ Pipeline(n)
  BY <1>1 DEF ParentOK
<1>4. parent'.pc = to /\ parent'.run = parent.run /\ parent'.asked = parent.asked /\ parent' \in ParentState
  BY <1>1 DEF ParentState, Waiting
<1>5. Attempting(n)'
  BY <1>3, <1>4 DEF Attempting
<1>6. Pipeline(n)' /\ child' \in ChildState /\ queue' \in Seq(Message)
  <2>1. CASE UNCHANGED <<child, queue, jammed>>
    BY <1>1, <1>3, <1>4, <2>1 DEF Pipeline, RelayOK, QueueOK, ChildOK, Taken
  <2>2. CASE Killed
    <3>1. child' \in ChildState
      BY <2>2 DEF Killed, ChildState
    <3> QED BY <1>1, <1>3, <1>4, <2>2, <3>1, KilledPipeline, KilledTypes
  <2> QED BY <2>1, <2>2
<1>7. jammed' \in BOOLEAN
  <2>1. CASE UNCHANGED <<child, queue, jammed>>
    BY <1>1, <2>1 DEF ProcessTypes
  <2> QED BY <1>1, <2>1, KilledTypes
<1>8. slow' \in BOOLEAN /\ (slow => slow')
  BY <1>1 DEF ProcessTypes
<1>9. StoreInv' /\ StoriesOK' /\ LateOK'
  BY <1>1, <1>8, StoreUnchangedInv DEF storeVars, StoriesOK, LateOK
<1>10. ProcessTypes'
  BY <1>1, <1>4, <1>6, <1>7, <1>8 DEF ProcessTypes
<1>11. /\ relay'.pc # "off" => relay'.run = parent'.run
       /\ relay'.pc = "write" => relay'.msg \in WorkflowEvents
  BY <1>1, <1>4 DEF ParentOK
<1>12. parent'.pc \notin {"idle", "claimed", "join", "cleanup", "close"}
  BY <1>4 DEF Waiting
<1>13. ParentOK'
  BY <1>2, <1>4, <1>5, <1>6, <1>11, <1>12 DEF ParentOK
<1> QED BY <1>9, <1>10, <1>13 DEF IsoInv

\* The parent writes the outcome: of a child that came to its end and sent all of its
\* messages, or of one that did not.
LEMMA FinishStep ==
  ASSUME IsoInv, parent.pc \in Waiting, parent.pc # "join",
         parent' = [parent EXCEPT !.pc = "cleanup"],
         UNCHANGED <<child, queue, jammed, relay, late, slow, lost, elapsed, cancels, crashes>>,
         \/ MarkRunFailed(parent.run) /\ (child.error # None \/ slow)
         \/ MarkRunCompleted(parent.run) /\ relay.result = "completed"
  PROVE  IsoInv'
<1>1. /\ parent \in ParentState /\ queue \in Seq(Message)
      /\ StoreInv /\ StoriesOK /\ LateOK /\ ProcessTypes /\ ParentOK
  BY DEF IsoInv, ProcessTypes
<1>2. /\ parent.run \in Runs /\ runs[parent.run].status \in Active
      /\ log[parent.run] \in Seq(EventType)
      /\ StoryOK(runs[parent.run], log[parent.run], lost[parent.run])
      /\ parent.pc \notin {"idle", "claimed"} /\ child.pc = "exited"
  BY <1>1 DEF ParentOK, Waiting, StoreInv, StoriesOK
<1>3. PICK n \in 0 .. 2 : Attempting(n) /\ Pipeline(n)
  BY <1>1 DEF ParentOK
<1>4. parent'.pc = "cleanup" /\ parent'.run = parent.run /\ parent' \in ParentState
  BY <1>1 DEF ParentState
<1>5. PICK status, event :
        /\ FinishRun(parent.run, status, event)
        /\ \/ status = "failed" /\ event = "run.failed" /\ (child.error # None \/ slow)
           \/ status = "completed" /\ event = "run.completed" /\ relay.result = "completed"
  BY DEF MarkRunFailed, MarkRunCompleted
<1>6. /\ runs'[parent.run].status = status
      /\ Same(runs[parent.run], runs'[parent.run], {"cancel_requested"})
      /\ \A q \in Runs : q # parent.run => runs'[q] = runs[q]
  BY <1>1, <1>2, <1>5, FinishRunRow DEF Same
<1>7. /\ log'[parent.run] = Append(log[parent.run], event)
      /\ \A q \in Runs : q # parent.run => log'[q] = log[q]
  BY <1>1, <1>2, <1>5, Inserted DEF FinishRun
<1>8. StoreInv'
  BY <1>1, <1>2, <1>5, FinishRunInv
<1>9. StoryOK(runs'[parent.run], log'[parent.run], lost'[parent.run])
  <2>1. CASE status = "failed"
    <3>1. event \in EventType /\ event # "run.cancel_requested"
      BY <1>5, <2>1 DEF EventType, LifecycleEvents
    <3>2. runs[parent.run].cancel_requested => runs'[parent.run].cancel_requested
      BY <1>6 DEF Same
    <3> QED BY <1>2, <1>6, <1>7, <2>1, <3>1, <3>2, StoryGoesOn
  <2>2. CASE status = "completed"
    <3>1. event = "run.completed" /\ relay.pc = "off" /\ n = 2 /\ Taken(n) = 3 /\ Len(queue) \in Nat
          /\ ChildOK(Taken(n) + Len(queue))
      BY <1>1, <1>3, <1>5, <2>2 DEF Pipeline, RelayOK, Taken
    <3>2. ~parent.asked
      BY <3>1 DEF ChildOK
    <3>3. PICK s \in DOMAIN log[parent.run] :
            /\ Tells(log[parent.run], s, WorkflowEvents \ lost[parent.run])
            /\ Unasked(log[parent.run], s)
      BY <1>3, <3>1, <3>2, ChapterSets DEF Attempting
    <3>4. Same(runs[parent.run], runs'[parent.run], {"cancel_requested"}) /\ lost' = lost
      BY <1>6
    <3>5. StoryOK(runs'[parent.run], Append(log[parent.run], "run.completed"), lost[parent.run])
      BY <1>2, <3>3, <3>4, StoryEnds
    <3> QED BY <1>7, <3>1, <3>4, <3>5
  <2> QED BY <1>5, <2>1, <2>2
<1>10. StoriesOK'
  BY <1>1, <1>2, <1>6, <1>7, <1>9, OneStory
<1>11. LateOK'
  <2>1. ASSUME NEW write \in late PROVE runs'[write.run].status = "failed"
    BY <1>1, <1>2, <1>6 DEF LateOK, ProcessTypes, Active
  <2> QED BY <1>1, <2>1 DEF LateOK
<1>12. ProcessTypes'
  BY <1>1, <1>4 DEF ProcessTypes
<1>13. \/ status = "completed" /\ relay.pc = "off"
       \/ status = "failed" /\ (child.error # None \/ slow)
  BY <1>3, <1>5 DEF Pipeline, RelayOK
<1>14. ParentOK'
  BY <1>1, <1>2, <1>4, <1>6, <1>13 DEF ParentOK, Waiting
<1> QED BY <1>8, <1>10, <1>11, <1>12, <1>14 DEF IsoInv

LEMMA SpawnStep ==
  ASSUME IsoInv, Spawn
  PROVE  IsoInv'
<1>1. /\ parent \in ParentState /\ StoreInv /\ StoriesOK /\ LateOK /\ ProcessTypes /\ ParentOK
  BY DEF IsoInv, ProcessTypes
<1>2. /\ parent.pc = "claimed" /\ parent.run \in Runs /\ runs[parent.run].status \in Active
      /\ Attempting(0) /\ parent' = [parent EXCEPT !.pc = "join"]
      /\ child' = [pc |-> "begin", error |-> None] /\ queue' = <<>>
      /\ relay' = [NoRelay EXCEPT !.pc = "head", !.run = parent.run]
      /\ elapsed' \in {"in_time", "late"}
  BY <1>1 DEF Spawn, ParentOK
<1>3. jammed' = FALSE /\ UNCHANGED <<late, slow, lost, cancels, crashes>>
  BY DEF Spawn
<1>4. /\ StoreInv' /\ StoriesOK'
      /\ \A q \in Runs : Undisturbed(q) /\ log'[q] = log[q]
  <2>1. CASE RefreshLease(parent.run, Self)
    BY <1>1, <1>2, <1>3, <2>1, RefreshStories
  <2>2. CASE UNCHANGED storeVars
    BY <1>1, <1>3, <2>2, StoreUnchangedInv DEF storeVars, StoriesOK, Undisturbed
  <2> QED BY <2>1, <2>2 DEF Spawn
<1>5. parent'.pc = "join" /\ parent'.run = parent.run /\ parent'.asked = parent.asked /\ parent' \in ParentState
  BY <1>1, <1>2 DEF ParentState
<1>6. /\ relay' \in RelayState /\ relay'.pc = "head" /\ relay'.run = parent.run /\ relay'.result = None
      /\ relay'.stopping = FALSE
      /\ child' \in ChildState /\ child'.pc = "begin" /\ child'.error = None
      /\ queue' \in Seq(Message) /\ Len(queue') = 0 /\ elapsed' \in Elapsed
  <2>1. NoRelay \in RelayState /\ NoRelay.result = None /\ NoRelay.stopping = FALSE
    BY DEF NoRelay, RelayState
  <2>2. /\ relay' \in RelayState /\ relay'.pc = "head" /\ relay'.run = parent.run
        /\ relay'.result = None /\ relay'.stopping = FALSE
    BY <1>2, <2>1 DEF RelayState
  <2>3. child' \in ChildState /\ elapsed' \in Elapsed
    BY <1>2 DEF ChildState, Elapsed
  <2>4. queue' \in Seq(Message) /\ Len(queue') = 0
    BY <1>2
  <2>5. child'.pc = "begin" /\ child'.error = None
    BY <1>2
  <2> QED BY <2>2, <2>3, <2>4, <2>5
<1>7. ProcessTypes'
  BY <1>1, <1>3, <1>5, <1>6 DEF ProcessTypes
<1>8. LateOK'
  BY <1>1, <1>3, <1>4 DEF LateOK, ProcessTypes, Undisturbed, Terminal
<1>9. Attempting(0)'
  BY <1>2, <1>3, <1>4, <1>5 DEF Attempting
<1>10. Pipeline(0)'
  BY <1>6 DEF Pipeline, RelayOK, QueueOK, ChildOK, Taken
<1>11. ParentOK'
  BY <1>2, <1>4, <1>5, <1>6, <1>9, <1>10 DEF ParentOK, Undisturbed
<1> QED BY <1>4, <1>7, <1>8, <1>11 DEF IsoInv

LEMMA CleanupStep ==
  ASSUME IsoInv, Cleanup
  PROVE  IsoInv'
<1>1. /\ parent \in ParentState /\ queue \in Seq(Message) /\ relay \in RelayState
      /\ StoreInv /\ StoriesOK /\ LateOK /\ ProcessTypes /\ ParentOK
  BY DEF IsoInv, ProcessTypes
<1>2. /\ parent.pc = "cleanup" /\ parent' = [parent EXCEPT !.pc = "close"]
      /\ relay' = [relay EXCEPT !.stopping = TRUE]
      /\ UNCHANGED <<runs, log, order, child, late, slow, lost, elapsed, cancels, crashes>>
  BY DEF Cleanup, ParentGoes
<1>3. jammed' = jammed
  BY DEF Cleanup
<1>4. queue' \in Seq(Message)
  <2>1. queue' = queue \/ queue' = Append(queue, "sentinel")
    BY DEF Cleanup
  <2> QED BY <1>1, <2>1 DEF Message
<1>5. parent'.pc = "close" /\ parent'.run = parent.run /\ parent' \in ParentState
  BY <1>1, <1>2 DEF ParentState
<1>6. relay' \in RelayState /\ relay'.pc = relay.pc /\ relay'.run = relay.run /\ relay'.msg = relay.msg
  BY <1>1, <1>2 DEF RelayState
<1>7. StoreInv' /\ StoriesOK' /\ LateOK'
  BY <1>1, <1>2, StoreUnchangedInv DEF storeVars, StoriesOK, LateOK
<1>8. ProcessTypes'
  BY <1>1, <1>2, <1>3, <1>4, <1>5, <1>6 DEF ProcessTypes
<1>9. ParentOK'
  BY <1>1, <1>2, <1>5, <1>6 DEF ParentOK, Waiting
<1> QED BY <1>7, <1>8, <1>9 DEF IsoInv

\* An idle parent, without a child and a relay.
LEMMA IdleAgain ==
  ASSUME parent' = NoRun, child' = Exited, relay' = NoRelay, queue' = <<>>
  PROVE  /\ ParentOK'
         /\ parent' \in ParentState /\ child' \in ChildState /\ relay' \in RelayState
         /\ queue' \in Seq(Message)
  BY DEF NoRun, Exited, NoRelay, ParentOK, ParentState, ChildState, RelayState, Waiting

LEMMA CloseStep ==
  ASSUME IsoInv, Close
  PROVE  IsoInv'
<1>1. /\ StoreInv /\ StoriesOK /\ LateOK /\ ProcessTypes /\ ParentOK
  BY DEF IsoInv
<1>2. /\ parent.pc = "close" /\ parent' = NoRun /\ child' = Exited /\ queue' = <<>> /\ relay' = NoRelay
      /\ UNCHANGED <<runs, log, order, lost, elapsed, cancels, crashes>>
  BY DEF Close
<1>3. jammed' = jammed
  BY DEF Close
<1>4. /\ slow' \in BOOLEAN
      /\ late' \subseteq [run : Runs, msg : Message]
      /\ LateOK'
  <2>1. CASE UNCHANGED <<late, slow>>
    BY <1>1, <1>2, <2>1 DEF ProcessTypes, LateOK
  <2>2. CASE relay.pc = "write" /\ late' = late \union {[run |-> relay.run, msg |-> relay.msg]} /\ slow' = TRUE
    <3>1. /\ relay.run = parent.run /\ parent.run \in Runs /\ relay.msg \in WorkflowEvents
          /\ runs[parent.run].status = "failed"
      BY <1>1, <1>2, <2>2 DEF ParentOK
    <3>2. relay.msg \in Message
      BY <3>1 DEF WorkflowEvents, Message
    <3> QED BY <1>1, <1>2, <2>2, <3>1, <3>2 DEF ProcessTypes, LateOK
  <2> QED BY <2>1, <2>2 DEF Close
<1>5. ParentOK' /\ ProcessTypes'
  BY <1>1, <1>2, <1>3, <1>4, IdleAgain DEF ProcessTypes
<1>6. StoreInv' /\ StoriesOK'
  BY <1>1, <1>2, StoreUnchangedInv DEF storeVars, StoriesOK
<1> QED BY <1>4, <1>5, <1>6 DEF IsoInv

LEMMA CrashStep ==
  ASSUME IsoInv, IsoCrash
  PROVE  IsoInv'
<1>1. StoreInv /\ StoriesOK /\ ProcessTypes
  BY DEF IsoInv
<1>2. /\ parent' = NoRun /\ child' = Exited /\ queue' = <<>> /\ relay' = NoRelay /\ late' = {}
      /\ UNCHANGED <<runs, log, order, lost, elapsed, cancels>>
      /\ crashes' = crashes + 1 /\ crashes < MaxCrashes
  BY DEF IsoCrash
<1>3. jammed' = FALSE /\ slow' = slow
  BY DEF IsoCrash
<1>4. crashes' \in 0 .. MaxCrashes
  BY <1>1, <1>2 DEF ProcessTypes
<1>5. ParentOK' /\ ProcessTypes'
  BY <1>1, <1>2, <1>3, <1>4, IdleAgain DEF ProcessTypes
<1>6. StoreInv' /\ StoriesOK' /\ LateOK'
  BY <1>1, <1>2, StoreUnchangedInv DEF storeVars, StoriesOK, LateOK
<1> QED BY <1>5, <1>6 DEF IsoInv

LEMMA ParentStep ==
  ASSUME IsoInv, ParentNext
  PROVE  IsoInv'
<1>1. ParentOK /\ parent \in ParentState /\ IsoInv
  BY DEF IsoInv, ProcessTypes
<1>2. CASE JoinReturns
  BY <1>1, <1>2, WaitingOn DEF JoinReturns, ParentGoes, Waiting
<1>3. CASE JoinTimesOut
  <2>1. child'.pc = "exited" /\ child'.error # None
    BY <1>3 DEF JoinTimesOut, Killed
  <2> QED BY <1>1, <1>3, <2>1, WaitingOn DEF JoinTimesOut, ParentGoes, Waiting
<1>4. CASE MarkOverdue
  <2>1. child.error # None
    BY <1>1, <1>4 DEF ParentOK, MarkOverdue, ParentGoes
  <2> QED BY <1>1, <1>4, <2>1, FinishStep DEF MarkOverdue, ParentGoes, Waiting
<1>5. CASE Drained
  <2>1. parent.pc = "drain" /\ child'.pc = "exited"
    BY <1>1, <1>5 DEF ParentOK, Drained, ParentGoes
  <2>2. slow' = slow \/ slow' = TRUE
    BY <1>5 DEF Drained
  <2>3. RelayIsDone' \/ slow'
    BY <1>5 DEF Drained, RelayIsDone
  <2>4. UNCHANGED <<runs, log, order, child, queue, jammed, relay, late, lost, elapsed, cancels, crashes>>
    BY <1>5 DEF Drained
  <2>5. parent' = [parent EXCEPT !.pc = "apply"]
    BY <1>5 DEF Drained, ParentGoes
  <2> QED BY <1>1, <2>1, <2>2, <2>3, <2>4, <2>5, WaitingOn DEF Waiting
<1>6. CASE ApplyResult
  BY <1>1, <1>6, FinishStep DEF ApplyResult, ParentGoes, Waiting
<1>7. CASE NoResult
  <2>1. parent.pc = "apply" /\ relay.result = None /\ child.pc = "exited"
    BY <1>1, <1>7 DEF ParentOK, NoResult, ParentGoes
  <2>2. PICK n \in 0 .. 2 : Pipeline(n)
    BY <1>1, <2>1 DEF ParentOK, Waiting
  <2>3. relay.pc # "off"
    BY <2>1, <2>2 DEF Pipeline, RelayOK
  <2>4. ASSUME ~slow PROVE child.error # None
    <3>1. queue = <<>> /\ relay.pc # "write"
      BY <1>1, <2>1, <2>3, <2>4 DEF ParentOK, RelayIsDone
    <3>2. Taken(n) + Len(queue) = n
      BY <2>3, <3>1 DEF Taken
    <3> QED BY <2>1, <2>2, <3>2 DEF Pipeline, ChildOK
  <2>5. UNCHANGED <<runs, log, order, child, queue, jammed, relay, late, slow, lost, elapsed, cancels, crashes>>
    BY <1>7 DEF NoResult
  <2>6. parent' = [parent EXCEPT !.pc = "lookup"]
    BY <1>7 DEF NoResult, ParentGoes
  <2>7. child'.error # None \/ slow'
    BY <2>4, <2>5
  <2> QED BY <1>1, <2>1, <2>5, <2>6, <2>7, WaitingOn DEF Waiting
<1>8. CASE Lookup
  <2>1. parent.pc = "lookup" /\ child.pc = "exited" /\ (child.error # None \/ slow)
    BY <1>1, <1>8 DEF ParentOK, Lookup, ParentGoes
  <2>2. runs[parent.run].status \notin Terminal
    BY <1>1, <2>1 DEF ParentOK, Waiting, Active, Terminal
  <2>3. parent' = [parent EXCEPT !.pc = "unresolved"]
    BY <1>8, <2>2 DEF Lookup, ParentGoes
  <2>4. UNCHANGED <<runs, log, order, child, queue, jammed, relay, late, slow, lost, elapsed, cancels, crashes>>
    BY <1>8 DEF Lookup
  <2>5. child'.error # None \/ slow'
    BY <2>1, <2>4
  <2> QED BY <1>1, <2>1, <2>3, <2>4, <2>5, WaitingOn DEF Waiting
<1>9. CASE MarkUnresolved
  <2>1. child.error # None \/ slow
    BY <1>1, <1>9 DEF ParentOK, MarkUnresolved, ParentGoes
  <2> QED BY <1>1, <1>9, <2>1, FinishStep DEF MarkUnresolved, ParentGoes, Waiting
<1> QED BY <1>2, <1>3, <1>4, <1>5, <1>6, <1>7, <1>8, <1>9, SpawnStep, CleanupStep, CloseStep DEF ParentNext

-----------------------------------------------------------------------------
(* Claims, and the steps of others *)

LEMMA ClaimStep ==
  ASSUME IsoInv, IsoClaim
  PROVE  IsoInv'
<1>1. /\ StoreInv /\ StoriesOK /\ LateOK /\ ProcessTypes /\ ParentOK
  BY DEF IsoInv
<1>2. PICK r \in Runs, locked \in SUBSET Runs :
        /\ ClaimNextRun(r, Self, locked)
        /\ parent' = [pc |-> "claimed", run |-> r, asked |-> runs[r].cancel_requested]
        /\ lost' = [lost EXCEPT ![r] = {}]
  BY DEF IsoClaim
<1>3. /\ parent.pc = "idle" /\ UNCHANGED <<child, queue, relay, late, elapsed, cancels, crashes>>
      /\ child.pc = "exited" /\ relay.pc = "off"
  BY <1>1 DEF IsoClaim, ParentOK
<1>4. jammed' = jammed /\ slow' = slow
  BY DEF IsoClaim
<1>5. /\ runs[r].status \in {"queued"} \union Active
      /\ runs'[r].status \in Active
      /\ Same(runs[r], runs'[r], {"cancel_requested"})
      /\ \A q \in Runs : q # r => runs'[q] = runs[q]
  BY <1>1, <1>2, ClaimNextRunRow DEF Same, Active
<1>6. log'[r] = Append(log[r], "run.started") /\ \A q \in Runs : q # r => log'[q] = log[q]
  BY <1>1, <1>2, Inserted DEF ClaimNextRun
<1>7. /\ log[r] \in Seq(EventType) /\ StoryOK(runs[r], log[r], lost[r])
      /\ lost' \in [Runs -> SUBSET WorkflowEvents] /\ lost'[r] = {}
      /\ \A q \in Runs : q # r => lost'[q] = lost[q]
      /\ "run.started" \in EventType
  BY <1>1, <1>2 DEF ProcessTypes, StoreInv, StoriesOK, EventType, LifecycleEvents
<1>8. StoreInv'
  BY <1>1, <1>2, ClaimNextRunInv
<1>9. StoriesOK'
  <2>1. runs[r].cancel_requested => runs'[r].cancel_requested
    BY <1>5 DEF Same
  <2>2. runs'[r].status # "completed"
    BY <1>5 DEF Active
  <2>3. StoryOK(runs'[r], log'[r], lost'[r])
    BY <1>6, <1>7, <2>1, <2>2, StoryGoesOn
  <2> QED BY <1>1, <1>5, <1>6, <1>7, <2>3, OneStory
<1>10. LateOK'
  <2>1. ASSUME NEW write \in late PROVE runs'[write.run].status = "failed"
    BY <1>1, <1>5, <2>1 DEF LateOK, ProcessTypes, Active
  <2> QED BY <1>1, <1>3, <1>4, <2>1 DEF LateOK
<1>11. /\ parent' \in ParentState
       /\ parent'.pc = "claimed" /\ parent'.run = r /\ parent'.asked = runs[r].cancel_requested
  <2>1. runs[r].cancel_requested \in BOOLEAN
    BY <1>1, RowType DEF Row
  <2> QED BY <1>2, <2>1 DEF ParentState
<1>12. ProcessTypes'
  BY <1>1, <1>3, <1>4, <1>7, <1>11 DEF ProcessTypes
<1>13. Attempting(0)'
  <2>1. Tells(log'[r], Len(log[r]) + 1, {}) /\ Len(log[r]) + 1 \in DOMAIN log'[r]
    BY <1>6, <1>7, TellsStart, Appended
  <2>2. ~parent'.asked => Unasked(log'[r], Len(log[r]) + 1)
    BY <1>6, <1>7, <1>11, UnaskedOfAppend DEF StoryOK
  <2>3. Chapters(0) \ lost'[r] = {} /\ lost'[r] \subseteq Chapters(0)
    BY <1>7, ChapterSets
  <2> QED BY <1>11, <2>1, <2>2, <2>3 DEF Attempting
<1>14. ParentOK'
  BY <1>3, <1>5, <1>11, <1>13 DEF ParentOK, Waiting
<1> QED BY <1>8, <1>9, <1>10, <1>12, <1>14 DEF IsoInv

\* The API, the clock and a relay that nobody waits for disturb no execution.
LEMMA OthersStep ==
  ASSUME IsoInv, (\E r \in Runs : IsoSubmit(r) \/ IsoCancel(r)) \/ IsoTime \/ LateWrite
  PROVE  IsoInv'
<1>1. /\ StoreInv /\ StoriesOK /\ LateOK /\ ProcessTypes /\ IsoInv
  BY DEF IsoInv
<1>2. UNCHANGED <<parent, child, queue, relay, elapsed, crashes>>
  BY DEF IsoSubmit, IsoCancel, IsoTime, LateWrite
<1>3. jammed' = jammed /\ slow' = slow /\ lost' = lost
  BY DEF IsoSubmit, IsoCancel, IsoTime, LateWrite
<1>4. StoreInv' /\ StoriesOK' /\ \A q \in Runs : Undisturbed(q)
  BY <1>1, <1>3, SubmitStories, CancelStories, TimeStories, LateStories DEF IsoTime
<1>5. late' \subseteq late
  BY DEF IsoSubmit, IsoCancel, IsoTime, LateWrite
<1>6. cancels' \in [Runs -> 0 .. MaxCancels]
  <2>1. ASSUME NEW r \in Runs, IsoCancel(r) PROVE cancels' \in [Runs -> 0 .. MaxCancels]
    <3>1. cancels[r] < MaxCancels /\ cancels' = [cancels EXCEPT ![r] = @ + 1]
      BY <2>1 DEF IsoCancel
    <3>2. cancels \in [Runs -> 0 .. MaxCancels] /\ cancels[r] \in 0 .. MaxCancels
      BY <1>1 DEF ProcessTypes
    <3>3. cancels[r] + 1 \in 0 .. MaxCancels
      BY <3>1, <3>2
    <3> QED BY <3>1, <3>2, <3>3
  <2>2. ASSUME UNCHANGED cancels PROVE cancels' \in [Runs -> 0 .. MaxCancels]
    BY <1>1, <2>2 DEF ProcessTypes
  <2> QED BY <2>1, <2>2 DEF IsoSubmit, IsoTime, LateWrite
<1>7. ProcessTypes'
  BY <1>1, <1>2, <1>3, <1>5, <1>6 DEF ProcessTypes
<1>8. LateOK'
  BY <1>1, <1>3, <1>4, <1>5 DEF LateOK, ProcessTypes, Undisturbed, Terminal
<1>9. ParentOK'
  BY <1>1, <1>2, <1>3, <1>4, ParentUndisturbed
<1> QED BY <1>4, <1>7, <1>8, <1>9 DEF IsoInv

-----------------------------------------------------------------------------
(* Theorems *)

LEMMA IsoInitInv == IsoInit => IsoInv
<1> SUFFICES ASSUME IsoInit PROVE IsoInv
  OBVIOUS
<1>1. /\ StoreInit /\ parent = NoRun /\ child = Exited /\ queue = <<>> /\ relay = NoRelay
      /\ late = {} /\ elapsed = "in_time" /\ cancels = [r \in Runs |-> 0] /\ crashes = 0
  BY DEF IsoInit
<1>2. jammed = FALSE /\ slow = FALSE /\ lost = [r \in Runs |-> {}]
  BY DEF IsoInit
<1>3. StoreInv
  BY <1>1, StoreInitInv
<1>4. StoriesOK
  <2>1. ASSUME NEW r \in Runs PROVE StoryOK(runs[r], log[r], lost[r])
    <3>1. runs[r].status = "absent" /\ log[r] = <<>>
      BY <1>1 DEF StoreInit, NoRow
    <3> QED BY <3>1 DEF StoryOK
  <2> QED BY <2>1 DEF StoriesOK
<1>5. /\ parent \in ParentState /\ child \in ChildState /\ relay \in RelayState
      /\ queue \in Seq(Message) /\ ParentOK
  BY <1>1 DEF NoRun, Exited, NoRelay, ParentOK, ParentState, ChildState, RelayState, Waiting
<1>6. ProcessTypes
  <2>1. cancels \in [Runs -> 0 .. MaxCancels] /\ crashes \in 0 .. MaxCrashes
        /\ lost \in [Runs -> SUBSET WorkflowEvents]
    BY <1>1, <1>2
  <2>2. elapsed \in Elapsed /\ late \subseteq [run : Runs, msg : Message]
    BY <1>1 DEF Elapsed
  <2> QED BY <1>2, <1>5, <2>1, <2>2 DEF ProcessTypes
<1>7. LateOK
  BY <1>1 DEF LateOK
<1> QED BY <1>3, <1>4, <1>5, <1>6, <1>7 DEF IsoInv

LEMMA IsoStepInv ==
  ASSUME IsoInv, [IsoNext]_isoVars
  PROVE  IsoInv'
<1>1. IsoInv
  OBVIOUS
<1>2. CASE IsoNext
  BY <1>1, <1>2, OthersStep, ClaimStep, ParentStep, ChildStep, RelayStep, CrashStep DEF IsoNext, IsoInv
<1>3. CASE UNCHANGED isoVars
  <2>1. UNCHANGED <<runs, log, order, parent, child, queue, relay, late, elapsed, cancels, crashes>>
    BY <1>3 DEF isoVars
  <2>2. jammed' = jammed /\ slow' = slow /\ lost' = lost
    BY <1>3 DEF isoVars
  <2>3. StoreInv' /\ StoriesOK' /\ \A q \in Runs : Undisturbed(q)
    BY <1>1, <2>1, <2>2, StoreUnchangedInv DEF IsoInv, storeVars, StoriesOK, Undisturbed
  <2>4. ParentOK'
    BY <1>1, <2>1, <2>2, <2>3, ParentUndisturbed
  <2> QED BY <1>1, <2>1, <2>2, <2>3, <2>4 DEF IsoInv, ProcessTypes, LateOK
<1> QED BY <1>2, <1>3

LEMMA IsoInvariant == IsoSpec => []IsoInv
<1>1. IsoInit => IsoInv
  BY IsoInitInv
<1>2. IsoInv /\ [IsoNext]_isoVars => IsoInv'
  BY IsoStepInv
<1> QED BY <1>1, <1>2, PTL DEF IsoSpec

\* The story of a completed run is whole but for the events whose append raised in the
\* relay: after the run's last start the events of the workflow follow in order and
\* once, and the outcome ends it.
THEOREM CompletionsAreWhole == IsoSpec => []CompletedRunsAreWhole
<1>1. ASSUME IsoInv PROVE CompletedRunsAreWhole
  <2>1. StoreInv /\ IsoTypeOK
    BY <1>1, StoreInvPromises DEF IsoInv, IsoTypeOK, ProcessTypes
  <2>2. ASSUME NEW r \in Runs, runs[r].status = "completed"
        PROVE  Whole(log[r], LastStart(r), WorkflowEvents \ lost[r])
    <3>1. PICK s \in DOMAIN log[r] :
            log[r][s] = "run.started" /\ Whole(log[r], s, WorkflowEvents \ lost[r])
      BY <1>1, <2>2 DEF IsoInv, StoriesOK, StoryOK
    <3>2. LastStart(r) = s
      <4> DEFINE told == WorkflowEvents \ lost[r]
      <4>1. told \in SUBSET WorkflowEvents
        OBVIOUS
      <4> HIDE DEF told
      <4> QED BY <2>1, <3>1, <4>1, WholeIsLast DEF told
    <3> QED BY <3>1, <3>2
  <2> QED BY <2>1, <2>2 DEF CompletedRunsAreWhole
<1> QED BY <1>1, IsoInvariant, PTL

\* A request that came before the last claim keeps a run from completing.
THEOREM RequestsAreHonoured == IsoSpec => []EarlyRequestsAreHonoured
<1>1. ASSUME IsoInv PROVE EarlyRequestsAreHonoured
  <2>1. ASSUME NEW r \in Runs, runs[r].status = "completed", NEW i \in At(r, "run.cancel_requested")
        PROVE  i > LastStart(r)
    <3>1. PICK s \in DOMAIN log[r] :
            /\ log[r][s] = "run.started" /\ Unasked(log[r], s)
            /\ Whole(log[r], s, WorkflowEvents \ lost[r])
      BY <1>1, <2>1 DEF IsoInv, StoriesOK, StoryOK
    <3>2. LastStart(r) = s /\ DOMAIN log[r] = 1 .. Len(log[r])
      <4> DEFINE told == WorkflowEvents \ lost[r]
      <4>1. told \in SUBSET WorkflowEvents
        OBVIOUS
      <4> HIDE DEF told
      <4> QED BY <1>1, <3>1, <4>1, WholeIsLast DEF told, IsoInv, StoreInv
    <3>3. s < i
      BY <3>1 DEF At, Unasked
    <3> QED BY <3>2, <3>3, <3>1 DEF At
  <2> QED BY <2>1 DEF EarlyRequestsAreHonoured
<1> QED BY <1>1, IsoInvariant, PTL

\* A run whose child came to its end does not fail for a result that got lost, unless
\* the store was too slow.
THEOREM ResultsArrive == IsoSpec => []ResultsAreNotLost
<1>1. ASSUME IsoInv PROVE ResultsAreNotLost
  BY <1>1 DEF IsoInv, ParentOK, ResultsAreNotLost
<1> QED BY <1>1, IsoInvariant, PTL

\* Nobody writes to a run after its executor returned, unless the store was too slow.
THEOREM RelaysStop == IsoSpec => []NoLateWrites
<1>1. ASSUME IsoInv PROVE NoLateWrites
  BY <1>1 DEF IsoInv, LateOK, NoLateWrites
<1> QED BY <1>1, IsoInvariant, PTL

\* The worker with process isolation moves runs only as RunLifecycle allows.
THEOREM IsolationRefinesLifecycle == IsoSpec => IsolationImplementsLifecycle
<1>1. IsoInit => Life!LifeInit
  BY InitLife DEF IsoInit
<1>2. ASSUME IsoInv, [IsoNext]_isoVars PROVE [Life!LifeNext]_(Life!lifeVars)
  <2>1. StoreInv /\ ParentOK
    BY <1>2 DEF IsoInv
  <2>2. ASSUME NEW r \in Runs, IsoSubmit(r) \/ IsoCancel(r) PROVE OneMoves
    BY <2>1, <2>2, CreateRunMoves, CancelRunMoves DEF IsoSubmit, IsoCancel
  <2>3. ASSUME IsoClaim PROVE OneMoves
    BY <2>1, <2>3, ClaimNextRunMoves DEF IsoClaim
  <2>4. ASSUME MarkOverdue \/ ApplyResult \/ MarkUnresolved PROVE OneMoves
    <3>1. parent.run \in Runs /\ runs[parent.run].status \in Active
      BY <2>1, <2>4 DEF ParentOK, MarkOverdue, ApplyResult, MarkUnresolved, ParentGoes, Waiting
    <3>2. MarkRunFailed(parent.run) \/ MarkRunCompleted(parent.run)
      BY <2>4 DEF MarkOverdue, ApplyResult, MarkUnresolved
    <3> QED BY <2>1, <3>1, <3>2, FinishRunMoves DEF MarkRunFailed, MarkRunCompleted
  <2>5. ASSUME Spawn PROVE NoneMoves
    <3>1. parent.run \in Runs
      BY <2>1, <2>5 DEF ParentOK, Spawn
    <3> QED BY <2>1, <2>5, <3>1, RefreshMovesNone, RowsUnchangedMovesNone DEF Spawn, storeVars
  <2>6. ASSUME IsoTime PROVE NoneMoves
    BY <2>1, <2>6, TickMovesNone DEF IsoTime
  <2>7. ASSUME \/ Pass \/ ChildNext \/ RelayNext \/ LateWrite \/ IsoCrash
               \/ JoinReturns \/ JoinTimesOut \/ Drained \/ NoResult \/ Lookup \/ Cleanup \/ Close
               \/ UNCHANGED isoVars
        PROVE  NoneMoves
    <3>1. ChildNext => runs' = runs
      BY DEF ChildNext, ChildChecks, ChildPuts, ChildRaises, ChildExits, LimitExceeded
    <3>2. RelayNext \/ LateWrite => runs' = runs
      BY DEF RelayNext, RelayLoops, RelayTakes, RelayWrites, LateWrite, AppendEvent, storeVars
    <3>3. \/ JoinReturns \/ JoinTimesOut \/ Drained \/ NoResult \/ Lookup \/ Cleanup \/ Close
          => runs' = runs
      BY DEF JoinReturns, JoinTimesOut, Drained, NoResult, Lookup, Cleanup, Close
    <3>4. Pass \/ IsoCrash \/ UNCHANGED isoVars => runs' = runs
      BY DEF Pass, IsoCrash, isoVars
    <3> QED BY <2>7, <3>1, <3>2, <3>3, <3>4, RowsUnchangedMovesNone
  <2>8. OneMoves \/ NoneMoves
    BY <1>2, <2>2, <2>3, <2>4, <2>5, <2>6, <2>7 DEF IsoNext, ParentNext
  <2> QED BY <2>8, LifeStep
<1> QED BY <1>1, <1>2, IsoInvariant, PTL DEF IsoSpec, IsolationImplementsLifecycle, Life!LifeSpec
=============================================================================
