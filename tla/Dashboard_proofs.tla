-------------------------- MODULE Dashboard_proofs --------------------------
(***************************************************************************)
(* For every number of runs, of calls at once, of cancel requests and of   *)
(* failures: the dashboard's success rate is that of real runs, whatever   *)
(* answers overtake each other, and the counters that Prometheus reads are *)
(* right whenever nobody is about to add to them.                          *)
(***************************************************************************)
EXTENDS Dashboard, FiniteSetTheorems, SequenceTheorems, TLAPS

USE ControlPlaneAssumption, CallAssumption

Phase == {"absent", "queued", "active"} \union Decided

TypesOK ==
  /\ phase \in [Runs -> Phase]
  /\ born \in Seq(Runs)
  /\ call \in [Calls -> CallState \union {None}]
  /\ counted \in [Runs -> Nat] /\ repeats \in [Runs -> Nat]
  /\ created \in Nat /\ troubles \in Nat /\ owed \subseteq Runs

\* A run is born once, and then it is in the store.
BornOK ==
  /\ \A i, j \in DOMAIN born : born[i] = born[j] => i = j
  /\ \A r \in Runs : phase[r] = "absent" <=> \A i \in DOMAIN born : born[i] # r

\* What a list says of outcomes is so, in the phases ph, and it says it once.
Honest(list, ph) ==
  /\ \A i \in DOMAIN list : list[i].phase \in Decided => list[i].phase = ph[list[i].run]
  /\ \A i, j \in DOMAIN list :
       list[i].phase \in Decided /\ list[j].phase \in Decided /\ list[i].run = list[j].run => i = j

\* A call k that is in progress, when n runs are in the store.
CallOK(k, ph, n) ==
  k # None =>
    /\ k.op = "create" => k.run \in Runs /\ k.status = "queued"
    /\ k.op = "cancel" => /\ k.run \in Runs /\ k.step # "count"
                          /\ k.status \in Decided => ph[k.run] \in Decided
    /\ k.step = "end" => k.op = "cancel" /\ k.status \in Decided
    /\ Honest(k.seen, ph) /\ Len(k.seen) <= n

PlaneOK ==
  /\ TypesOK /\ BornOK
  /\ \A c \in Calls : CallOK(call[c], phase, Len(born))

-----------------------------------------------------------------------------
(* Lists of runs *)

\* Decided runs stay as they are.
Lasts(ph, later) == \A r \in Runs : ph[r] \in Decided => later[r] = ph[r]

LEMMA HonestLasts ==
  ASSUME NEW list \in Seq(Listed), NEW ph, NEW later, Lasts(ph, later), Honest(list, ph)
  PROVE  Honest(list, later)
<1>1. \A i \in DOMAIN list : list[i].run \in Runs
  <2>1. \A i \in DOMAIN list : list[i] \in Listed
    BY LenProperties
  <2> QED BY <2>1 DEF Listed
<1> QED BY <1>1 DEF Honest, Lasts

LEMMA CallLasts ==
  ASSUME NEW k \in CallState \union {None}, NEW ph, NEW later, Lasts(ph, later),
         NEW n \in Nat, NEW m \in Nat, n <= m, CallOK(k, ph, n)
  PROVE  CallOK(k, later, m)
<1> SUFFICES ASSUME k # None
             PROVE  CallOK(k, later, m)
  BY DEF CallOK
<1>1. k \in CallState /\ k.seen \in Seq(Listed) /\ Len(k.seen) \in Nat
  BY LenProperties DEF CallState
<1>2. Honest(k.seen, later)
  BY <1>1, HonestLasts DEF CallOK
<1>3. Len(k.seen) <= m
  BY <1>1 DEF CallOK
<1> QED BY <1>2, <1>3 DEF CallOK, Lasts

LEMMA EmptyIsHonest ==
  ASSUME NEW ph
  PROVE  <<>> \in Seq(Listed) /\ Len(<<>>) = 0 /\ Honest(<<>>, ph)
BY EmptySeq DEF Honest

\* The list that the store gives.
LEMMA ListingIsHonest ==
  ASSUME TypesOK, BornOK
  PROVE  Listing \in Seq(Listed) /\ Len(Listing) = Len(born) /\ Honest(Listing, phase)
<1> DEFINE n == Len(born)
           At0(i) == born[n + 1 - i]
<1>1. n \in Nat /\ DOMAIN born = 1 .. n /\ \A i \in 1 .. n : born[i] \in Runs
  BY LenProperties, ElementOfSeq DEF TypesOK
<1>2. \A i \in 1 .. n : n + 1 - i \in 1 .. n
  BY <1>1
<1>3. Listing = [i \in 1 .. n |-> [run |-> At0(i), phase |-> phase[At0(i)]]]
  BY DEF Listing
<1> HIDE DEF n
<1>4. \A i \in 1 .. n : At0(i) \in Runs /\ phase[At0(i)] \in {"queued", "active"} \union Decided
  <2> SUFFICES ASSUME NEW i \in 1 .. n
               PROVE  At0(i) \in Runs /\ phase[At0(i)] \in {"queued", "active"} \union Decided
    OBVIOUS
  <2>1. At0(i) \in Runs /\ n + 1 - i \in DOMAIN born
    BY <1>1, <1>2
  <2>2. phase[At0(i)] # "absent" /\ phase[At0(i)] \in Phase
    BY <2>1 DEF BornOK, TypesOK
  <2> QED BY <2>1, <2>2 DEF Phase
<1>5. \A i, j \in 1 .. n : At0(i) = At0(j) => i = j
  <2> SUFFICES ASSUME NEW i \in 1 .. n, NEW j \in 1 .. n, At0(i) = At0(j)
               PROVE  i = j
    OBVIOUS
  <2>1. n + 1 - i \in DOMAIN born /\ n + 1 - j \in DOMAIN born
    BY <1>1, <1>2
  <2>2. n + 1 - i = n + 1 - j
    BY <2>1 DEF BornOK
  <2> QED BY <1>1, <2>2
<1> HIDE DEF At0
<1>6. \A i \in 1 .. n : [run |-> At0(i), phase |-> phase[At0(i)]] \in Listed
  BY <1>4 DEF Listed
<1>7. Listing \in Seq(Listed) /\ Len(Listing) = n /\ DOMAIN Listing = 1 .. n
  <2>1. Listing \in [1 .. n -> Listed]
    BY <1>3, <1>6
  <2>2. Listing \in Seq(Listed)
    BY <1>1, <2>1, SeqDef
  <2> QED BY <1>1, <2>1, <2>2, LenProperties
<1>8. Honest(Listing, phase)
  BY <1>3, <1>5, <1>7 DEF Honest
<1> QED BY <1>7, <1>8 DEF n

-----------------------------------------------------------------------------
(* Calls *)

\* One call goes on, ends or begins.
LEMMA OneCall ==
  ASSUME PlaneOK, NEW c \in Calls, NEW k \in CallState \union {None},
         call' = [call EXCEPT ![c] = k]
  PROVE  /\ call' \in [Calls -> CallState \union {None}]
         /\ call'[c] = k /\ \A d \in Calls : d # c => call'[d] = call[d]
BY DEF PlaneOK, TypesOK

LEMMA OneCallOK ==
  ASSUME PlaneOK, NEW c \in Calls, NEW k \in CallState \union {None},
         call' = [call EXCEPT ![c] = k], Lasts(phase, phase'),
         TypesOK', BornOK', Len(born) <= Len(born'), CallOK(k, phase', Len(born'))
  PROVE  PlaneOK'
<1>1. /\ call'[c] = k /\ \A d \in Calls : d # c => call'[d] = call[d]
      /\ Len(born) \in Nat /\ Len(born') \in Nat
  BY OneCall, LenProperties DEF PlaneOK, TypesOK
<1>2. ASSUME NEW d \in Calls
      PROVE  CallOK(call'[d], phase', Len(born'))
  <2>1. CASE d = c
    BY <1>1, <2>1
  <2>2. CASE d # c
    <3>1. call[d] \in CallState \union {None} /\ CallOK(call[d], phase, Len(born))
      BY DEF PlaneOK, TypesOK
    <3>2. CallOK(call[d], phase', Len(born'))
      BY <1>1, <3>1, CallLasts
    <3> QED BY <1>1, <2>2, <3>2
  <2> QED BY <2>1, <2>2
<1> QED BY <1>2 DEF PlaneOK

\* A call goes on, and neither a run nor a counter changes.
LEMMA QuietCallOK ==
  ASSUME PlaneOK, NEW c \in Calls, NEW k \in CallState \union {None},
         call' = [call EXCEPT ![c] = k], UNCHANGED <<phase, born, repeats, owed>>,
         created' \in Nat, counted' \in [Runs -> Nat], troubles' \in Nat,
         CallOK(k, phase, Len(born))
  PROVE  PlaneOK'
<1>1. TypesOK'
  BY OneCall DEF PlaneOK, TypesOK
<1>2. BornOK' /\ Lasts(phase, phase')
  BY DEF PlaneOK, BornOK, Lasts
<1>3. Len(born) <= Len(born')
  BY LenProperties DEF PlaneOK, TypesOK
<1> QED BY <1>1, <1>2, <1>3, OneCallOK

\* The calls are left alone.
LEMMA CallsLast ==
  ASSUME PlaneOK, UNCHANGED call, Lasts(phase, phase'), TypesOK', BornOK', UNCHANGED born
  PROVE  PlaneOK'
<1>1. Len(born) \in Nat
  BY LenProperties DEF PlaneOK, TypesOK
<1>2. ASSUME NEW d \in Calls
      PROVE  CallOK(call[d], phase', Len(born))
  <2>1. call[d] \in CallState \union {None} /\ CallOK(call[d], phase, Len(born))
    BY DEF PlaneOK, TypesOK
  <2> QED BY <1>1, <2>1, CallLasts
<1> QED BY <1>2 DEF PlaneOK

\* What a run may do: it does not come again, and what is decided stays.
LEMMA RunMoves ==
  ASSUME PlaneOK, NEW r \in Runs, NEW to \in Phase \ {"absent"},
         phase[r] \notin Decided \union {"absent"} \/ phase[r] = to, phase[r] # "absent",
         phase' = [phase EXCEPT ![r] = to], UNCHANGED born
  PROVE  /\ phase' \in [Runs -> Phase] /\ BornOK' /\ Lasts(phase, phase')
         /\ phase'[r] = to /\ \A s \in Runs : s # r => phase'[s] = phase[s]
<1>1. /\ phase' \in [Runs -> Phase] /\ phase'[r] = to
      /\ \A s \in Runs : s # r => phase'[s] = phase[s]
  BY DEF PlaneOK, TypesOK
<1>2. Lasts(phase, phase')
  BY <1>1 DEF Lasts
<1>3. BornOK'
  BY <1>1 DEF PlaneOK, BornOK
<1> QED BY <1>1, <1>2, <1>3

-----------------------------------------------------------------------------
(* Every step keeps the runs and the calls in order *)

LEMMA InProgress ==
  ASSUME PlaneOK, NEW c \in Calls, call[c] # None
  PROVE  /\ call[c] \in CallState /\ CallOK(call[c], phase, Len(born))
         /\ \A step \in {"count", "list", "depth", "active", "oldest", "end", "answer"} :
              [call[c] EXCEPT !.step = step] \in CallState
<1>1. call[c] \in CallState /\ CallOK(call[c], phase, Len(born))
  BY DEF PlaneOK, TypesOK
<1> QED BY <1>1 DEF CallState

\* A step that neither counts nor lists leaves the call in order.
LEMMA StepOK ==
  ASSUME PlaneOK, NEW c \in Calls, call[c] # None,
         NEW step \in {"list", "depth", "active", "oldest", "answer"}
  PROVE  CallOK([call[c] EXCEPT !.step = step], phase, Len(born))
<1> DEFINE k == [call[c] EXCEPT !.step = step]
<1>1. call[c] \in CallState /\ CallOK(call[c], phase, Len(born))
  BY InProgress
<1>2. /\ k.op = call[c].op /\ k.run = call[c].run /\ k.status = call[c].status
      /\ k.step = step /\ k.seen = call[c].seen
  BY <1>1 DEF CallState
<1> HIDE DEF k
<1>3. k.step \notin {"count", "end"}
  BY <1>2
<1>4. CallOK(k, phase, Len(born))
  BY <1>1, <1>2, <1>3 DEF CallOK
<1> QED BY <1>4 DEF k

\* A call makes its next step.
LEMMA GotoIs ==
  ASSUME PlaneOK, NEW c \in Calls, call[c] # None, NEW step, Goto(c, step)
  PROVE  call' = [call EXCEPT ![c] = [call[c] EXCEPT !.step = step]]
BY DEF Goto

LEMMA PlaneRecordCreated == \A c \in Calls : PlaneOK /\ RecordCreated(c) => PlaneOK'
<1> SUFFICES ASSUME NEW c \in Calls, PlaneOK, RecordCreated(c)
             PROVE  PlaneOK'
  OBVIOUS
<1> DEFINE k == [call[c] EXCEPT !.step = "list"]
<1>1. /\ call[c] # None /\ call[c].step = "count" /\ Goto(c, "list") /\ created' = created + 1
      /\ UNCHANGED <<phase, born, counted, owed, repeats, troubles>>
  BY DEF RecordCreated, At
<1>2. call' = [call EXCEPT ![c] = k] /\ k \in CallState
  BY <1>1, InProgress, GotoIs
<1>3. CallOK(k, phase, Len(born))
  BY <1>1, StepOK
<1> HIDE DEF k
<1>4. created' \in Nat /\ counted' \in [Runs -> Nat] /\ troubles' \in Nat
  BY <1>1 DEF PlaneOK, TypesOK
<1> QED BY <1>1, <1>2, <1>3, <1>4, QuietCallOK

LEMMA PlaneListAgain == \A c \in Calls : PlaneOK /\ ListAgain(c) => PlaneOK'
<1> SUFFICES ASSUME NEW c \in Calls, PlaneOK, ListAgain(c)
             PROVE  PlaneOK'
  OBVIOUS
<1> DEFINE k == [call[c] EXCEPT !.step = "depth", !.seen = Listing]
<1>1. /\ call[c] # None /\ call[c].step = "list" /\ call' = [call EXCEPT ![c] = k]
      /\ UNCHANGED <<phase, born, created, counted, owed, repeats, troubles>>
  BY DEF ListAgain, At
<1>2. Listing \in Seq(Listed) /\ Len(Listing) = Len(born) /\ Honest(Listing, phase)
  BY ListingIsHonest DEF PlaneOK
<1>3. call[c] \in CallState /\ CallOK(call[c], phase, Len(born)) /\ Len(born) \in Nat
  BY <1>1, InProgress, LenProperties DEF PlaneOK, TypesOK
<1>4. k \in CallState
  BY <1>2, <1>3 DEF CallState
<1>5. /\ k.op = call[c].op /\ k.run = call[c].run /\ k.status = call[c].status
      /\ k.step = "depth" /\ k.seen = Listing
  BY <1>3 DEF CallState
<1> HIDE DEF k
<1>6. CallOK(k, phase, Len(born))
  BY <1>1, <1>2, <1>3, <1>5 DEF CallOK
<1> QED BY <1>1, <1>4, <1>6, QuietCallOK DEF PlaneOK, TypesOK

LEMMA PlaneSetDepth == \A c \in Calls : PlaneOK /\ SetDepth(c) => PlaneOK'
<1> SUFFICES ASSUME NEW c \in Calls, PlaneOK, SetDepth(c)
             PROVE  PlaneOK'
  OBVIOUS
<1> DEFINE k == [call[c] EXCEPT !.step = "active"]
<1>1. /\ call[c] # None /\ call[c].step = "depth" /\ Goto(c, "active")
      /\ UNCHANGED <<phase, born, created, counted, owed, repeats, troubles>>
  BY DEF SetDepth, At
<1>2. call' = [call EXCEPT ![c] = k] /\ k \in CallState
  BY <1>1, InProgress, GotoIs
<1>3. CallOK(k, phase, Len(born))
  BY <1>1, StepOK
<1> HIDE DEF k
<1> QED BY <1>1, <1>2, <1>3, QuietCallOK DEF PlaneOK, TypesOK

LEMMA PlaneSetActive == \A c \in Calls : PlaneOK /\ SetActive(c) => PlaneOK'
<1> SUFFICES ASSUME NEW c \in Calls, PlaneOK, SetActive(c)
             PROVE  PlaneOK'
  OBVIOUS
<1> DEFINE k == [call[c] EXCEPT !.step = "oldest"]
<1>1. /\ call[c] # None /\ call[c].step = "active" /\ Goto(c, "oldest")
      /\ UNCHANGED <<phase, born, created, counted, owed, repeats, troubles>>
  BY DEF SetActive, At
<1>2. call' = [call EXCEPT ![c] = k] /\ k \in CallState
  BY <1>1, InProgress, GotoIs
<1>3. CallOK(k, phase, Len(born))
  BY <1>1, StepOK
<1> HIDE DEF k
<1> QED BY <1>1, <1>2, <1>3, QuietCallOK DEF PlaneOK, TypesOK

\* A call is over: its answer arrives or is lost or interests nobody, or it fails.
LEMMA PlaneFinish ==
  ASSUME PlaneOK, NEW c \in Calls, call' = [call EXCEPT ![c] = None], troubles' \in Nat,
         UNCHANGED <<phase, born, created, counted, owed, repeats>>
  PROVE  PlaneOK'
<1>1. CallOK(None, phase, Len(born))
  BY DEF CallOK
<1> QED BY <1>1, QuietCallOK DEF PlaneOK, TypesOK

\* What refreshing the gauges leaves of a call.
Refreshed(k) ==
  CASE k.op = "cancel" /\ k.status \in Decided -> [k EXCEPT !.step = "end", !.seen = <<>>]
    [] k.op = "cancel" /\ k.status \notin Decided -> None
    [] k.op = "glance" -> None
    [] OTHER -> [k EXCEPT !.step = "answer", !.seen = IF k.op = "list" THEN @ ELSE <<>>]

LEMMA RefreshedIs ==
  ASSUME NEW k \in CallState
  PROVE  \/ Refreshed(k) = None /\ k.op # "create" /\ ~(k.op = "cancel" /\ k.status \in Decided)
         \/ /\ Refreshed(k) \in CallState
            /\ Refreshed(k).op = k.op /\ Refreshed(k).run = k.run /\ Refreshed(k).status = k.status
            /\ \/ k.op = "cancel" /\ k.status \in Decided /\ Refreshed(k).step = "end"
               \/ k.op # "cancel" /\ Refreshed(k).step = "answer"
            /\ Refreshed(k).seen = k.seen \/ Refreshed(k).seen = <<>>
<1>1. <<>> \in Seq(Listed)
  BY EmptySeq
<1>2. CASE k.op = "cancel" /\ k.status \in Decided
  <2>1. Refreshed(k) = [k EXCEPT !.step = "end", !.seen = <<>>]
    BY <1>2 DEF Refreshed
  <2> QED BY <1>1, <1>2, <2>1 DEF CallState
<1>3. CASE k.op = "glance" \/ (k.op = "cancel" /\ k.status \notin Decided)
  <2>1. Refreshed(k) = None
    BY <1>3 DEF Refreshed
  <2> QED BY <1>3, <2>1
<1>4. CASE k.op \notin {"cancel", "glance"}
  <2>1. Refreshed(k) = [k EXCEPT !.step = "answer", !.seen = IF k.op = "list" THEN @ ELSE <<>>]
    BY <1>4 DEF Refreshed
  <2> QED BY <1>1, <1>4, <2>1 DEF CallState
<1> QED BY <1>2, <1>3, <1>4

LEMMA SetOldestIs ==
  ASSUME PlaneOK, NEW c \in Calls, SetOldest(c)
  PROVE  /\ call[c] # None /\ call[c].step = "oldest" /\ call' = [call EXCEPT ![c] = Refreshed(call[c])]
         /\ UNCHANGED <<phase, born, created, counted, owed, repeats, troubles>>
BY DEF SetOldest, At, AfterGauges, Refreshed

LEMMA PlaneSetOldest == \A c \in Calls : PlaneOK /\ SetOldest(c) => PlaneOK'
<1> SUFFICES ASSUME NEW c \in Calls, PlaneOK, SetOldest(c)
             PROVE  PlaneOK'
  OBVIOUS
<1> DEFINE k == Refreshed(call[c])
<1>1. /\ call[c] # None /\ call[c].step = "oldest" /\ call' = [call EXCEPT ![c] = k]
      /\ UNCHANGED <<phase, born, created, counted, owed, repeats, troubles>>
  BY SetOldestIs
<1>2. call[c] \in CallState /\ CallOK(call[c], phase, Len(born)) /\ Len(born) \in Nat
  BY <1>1, InProgress, LenProperties DEF PlaneOK, TypesOK
<1>3. \/ k = None
      \/ /\ k \in CallState /\ k.op = call[c].op /\ k.run = call[c].run /\ k.status = call[c].status
         /\ k.step = "answer" \/ (k.step = "end" /\ k.op = "cancel" /\ k.status \in Decided)
         /\ k.seen = call[c].seen \/ k.seen = <<>>
  BY <1>2, RefreshedIs
<1> HIDE DEF k
<1>4. CASE k = None
  BY <1>1, <1>4, PlaneFinish DEF PlaneOK, TypesOK
<1>5. CASE k # None
  <2>1. Honest(k.seen, phase) /\ Len(k.seen) <= Len(born)
    BY <1>1, <1>2, <1>3, <1>5, EmptyIsHonest DEF CallOK
  <2>2. CallOK(k, phase, Len(born))
    BY <1>1, <1>2, <1>3, <1>5, <2>1 DEF CallOK
  <2> QED BY <1>1, <1>3, <1>5, <2>2, QuietCallOK DEF PlaneOK, TypesOK
<1> QED BY <1>4, <1>5

LEMMA PlaneRecordEnded == \A c \in Calls : PlaneOK /\ RecordEnded(c) => PlaneOK'
<1> SUFFICES ASSUME NEW c \in Calls, PlaneOK, RecordEnded(c)
             PROVE  PlaneOK'
  OBVIOUS
<1>1. /\ call[c] # None /\ call[c].step = "end" /\ call' = [call EXCEPT ![c] = None]
      /\ CountEnd(call[c].run) /\ UNCHANGED <<phase, born, created, owed, repeats, troubles>>
  BY DEF RecordEnded, At
<1>2. CallOK(call[c], phase, Len(born)) /\ CallOK(None, phase, Len(born))
  BY <1>1, InProgress DEF CallOK
<1>3. call[c].run \in Runs
  BY <1>1, <1>2 DEF CallOK
<1>4. counted' \in [Runs -> Nat]
  BY <1>1, <1>3 DEF CountEnd, PlaneOK, TypesOK
<1> QED BY <1>1, <1>2, <1>4, QuietCallOK DEF PlaneOK, TypesOK

LEMMA PlaneServe == \A c \in Calls : PlaneOK /\ Serve(c) => PlaneOK'
BY PlaneRecordCreated, PlaneListAgain, PlaneSetDepth, PlaneSetActive, PlaneSetOldest, PlaneRecordEnded DEF Serve

\* A call begins.
LEMMA BeginIs ==
  ASSUME PlaneOK, NEW c \in Calls, NEW op, NEW r, NEW status, NEW step, NEW list,
         [op |-> op, run |-> r, status |-> status, step |-> step, seen |-> list] \in CallState,
         Begin(c, op, r, status, step, list)
  PROVE  /\ call[c] = None
         /\ call' = [call EXCEPT ![c] = [op |-> op, run |-> r, status |-> status, step |-> step, seen |-> list]]
BY DEF Begin

LEMMA PlaneListRuns == \A c \in Calls : PlaneOK /\ ListRuns(c) => PlaneOK'
<1> SUFFICES ASSUME NEW c \in Calls, PlaneOK, ListRuns(c)
             PROVE  PlaneOK'
  OBVIOUS
<1> DEFINE k == [op |-> "list", run |-> None, status |-> None, step |-> "depth", seen |-> Listing]
<1>1. /\ call' = [call EXCEPT ![c] = k]
      /\ UNCHANGED <<phase, born, created, counted, owed, repeats, troubles>>
  BY DEF ListRuns, Begin
<1>2. Listing \in Seq(Listed) /\ Len(Listing) = Len(born) /\ Honest(Listing, phase)
  BY ListingIsHonest DEF PlaneOK
<1>3. k \in CallState
  BY <1>2 DEF CallState
<1>4. CallOK(k, phase, Len(born))
  <2>1. Len(born) \in Nat
    BY LenProperties DEF PlaneOK, TypesOK
  <2> QED BY <1>2, <2>1 DEF CallOK
<1> HIDE DEF k
<1> QED BY <1>1, <1>3, <1>4, QuietCallOK DEF PlaneOK, TypesOK

\* create_run: where the run comes in.
LEMMA PlaneCreate == \A c \in Calls, r \in Runs : PlaneOK /\ CreateRun(c, r) => PlaneOK'
<1> SUFFICES ASSUME NEW c \in Calls, NEW r \in Runs, PlaneOK, CreateRun(c, r)
             PROVE  PlaneOK'
  OBVIOUS
<1> DEFINE k == [op |-> "create", run |-> r, status |-> "queued", step |-> "count", seen |-> <<>>]
           n == Len(born)
<1>1. /\ phase[r] = "absent" /\ phase' = [phase EXCEPT ![r] = "queued"] /\ born' = Append(born, r)
      /\ call' = [call EXCEPT ![c] = k]
      /\ UNCHANGED <<created, counted, owed, repeats, troubles>>
  BY DEF CreateRun, Moves, Begin
<1>2. k \in CallState
  BY EmptySeq DEF CallState
<1>3. /\ born' \in Seq(Runs) /\ n \in Nat /\ Len(born') = n + 1
      /\ DOMAIN born = 1 .. n /\ DOMAIN born' = 1 .. n + 1
      /\ \A i \in 1 .. n : born'[i] = born[i]
      /\ born'[n + 1] = r
  <2>1. born \in Seq(Runs)
    BY DEF PlaneOK, TypesOK
  <2>2. /\ Append(born, r) \in Seq(Runs) /\ Len(Append(born, r)) = n + 1
        /\ \A i \in 1 .. n : Append(born, r)[i] = born[i]
        /\ Append(born, r)[n + 1] = r
    BY <2>1, AppendProperties
  <2>3. n \in Nat /\ DOMAIN born = 1 .. n /\ DOMAIN Append(born, r) = 1 .. Len(Append(born, r))
    BY <2>1, <2>2, LenProperties
  <2> QED BY <1>1, <2>2, <2>3
<1> HIDE DEF n
<1>4. /\ phase' \in [Runs -> Phase] /\ phase'[r] = "queued"
      /\ \A s \in Runs : s # r => phase'[s] = phase[s]
  BY <1>1 DEF PlaneOK, TypesOK, Phase
<1>5. Lasts(phase, phase')
  BY <1>1, <1>4 DEF Lasts, Decided
<1>6. \A i \in 1 .. n : born[i] # r
  BY <1>1, <1>3 DEF PlaneOK, BornOK
<1>7. BornOK'
  <2>1. \A i, j \in 1 .. n + 1 : born'[i] = born'[j] => i = j
    <3> SUFFICES ASSUME NEW i \in 1 .. n + 1, NEW j \in 1 .. n + 1, born'[i] = born'[j]
                 PROVE  i = j
      OBVIOUS
    <3>1. (i \in 1 .. n \/ i = n + 1) /\ (j \in 1 .. n \/ j = n + 1)
      BY <1>3
    <3> QED BY <1>3, <1>6, <3>1 DEF PlaneOK, BornOK
  <2>2. ASSUME NEW s \in Runs
        PROVE  phase'[s] = "absent" <=> \A i \in 1 .. n + 1 : born'[i] # s
    <3>1. CASE s = r
      <4>1. n + 1 \in 1 .. n + 1
        BY <1>3
      <4> QED BY <1>3, <1>4, <3>1, <4>1
    <3>2. CASE s # r
      <4>1. (\A i \in 1 .. n + 1 : born'[i] # s) <=> \A i \in 1 .. n : born[i] # s
        <5>1. \A i \in 1 .. n + 1 : i \in 1 .. n \/ i = n + 1
          BY <1>3
        <5>2. \A i \in 1 .. n : i \in 1 .. n + 1
          BY <1>3
        <5> QED BY <1>3, <3>2, <5>1, <5>2
      <4> QED BY <1>3, <1>4, <3>2, <4>1 DEF PlaneOK, BornOK
    <3> QED BY <3>1, <3>2
  <2> QED BY <1>3, <2>1, <2>2 DEF BornOK
<1>8. CallOK(k, phase', Len(born'))
  BY <1>3, EmptyIsHonest DEF CallOK
<1> HIDE DEF k
<1>9. TypesOK'
  BY <1>1, <1>2, <1>3, <1>4, OneCall DEF PlaneOK, TypesOK
<1>10. Len(born) <= Len(born')
  BY <1>3 DEF n
<1> QED BY <1>1, <1>2, <1>5, <1>7, <1>8, <1>9, <1>10, OneCallOK

\* What cancel_run does to the run, and the call it leaves.
LEMMA PlaneCancel == \A c \in Calls, r \in Runs : PlaneOK /\ CancelRun(c, r) => PlaneOK'
<1> SUFFICES ASSUME NEW c \in Calls, NEW r \in Runs, PlaneOK, CancelRun(c, r)
             PROVE  PlaneOK'
  OBVIOUS
<1> DEFINE k == [op |-> "cancel", run |-> r, status |-> phase'[r], step |-> "list", seen |-> <<>>]
<1>1. /\ call' = [call EXCEPT ![c] = k]
      /\ UNCHANGED <<born, created, counted, owed, troubles>>
  BY DEF CancelRun, Begin
<1>2. PICK to \in {"cancelled", "active"} \union Decided :
        /\ phase[r] \notin Decided \union {"absent"} \/ phase[r] = to
        /\ phase[r] # "absent" /\ phase' = [phase EXCEPT ![r] = to]
  BY DEF CancelRun, Moves, Decided
<1>3. repeats' \in [Runs -> Nat]
  BY DEF CancelRun, PlaneOK, TypesOK
<1>4. to \in Phase \ {"absent"}
  BY DEF Phase, Decided
<1>5. /\ phase' \in [Runs -> Phase] /\ BornOK' /\ Lasts(phase, phase') /\ phase'[r] = to
  BY <1>1, <1>2, <1>4, RunMoves
<1>6. k \in CallState
  BY <1>5, EmptySeq DEF CallState, Decided
<1>7. Len(born) \in Nat
  BY LenProperties DEF PlaneOK, TypesOK
<1>8. CallOK(k, phase', Len(born'))
  BY <1>1, <1>7, EmptyIsHonest DEF CallOK
<1> HIDE DEF k
<1>9. TypesOK'
  BY <1>1, <1>3, <1>5, <1>6, OneCall DEF PlaneOK, TypesOK
<1>10. Len(born) <= Len(born')
  BY <1>1, <1>7
<1> QED BY <1>1, <1>5, <1>6, <1>8, <1>9, <1>10, OneCallOK

LEMMA PlaneWork == \A r \in Runs : PlaneOK /\ Work(r) => PlaneOK'
<1> SUFFICES ASSUME NEW r \in Runs, PlaneOK, Work(r)
             PROVE  PlaneOK'
  OBVIOUS
<1>1. UNCHANGED <<born, call>>
  BY DEF Work, Take, Settle, RecordTerminal, WorkerDies
<1>2. CASE Take(r) \/ Settle(r)
  <2>1. PICK to \in {"queued", "active"} \union Decided :
          phase[r] \in {"queued", "active"} /\ phase' = [phase EXCEPT ![r] = to]
    BY <1>2 DEF Take, Settle, Moves
  <2>2. to \in Phase \ {"absent"} /\ phase[r] \notin Decided \union {"absent"}
    BY <2>1 DEF Phase, Decided
  <2>3. phase' \in [Runs -> Phase] /\ BornOK' /\ Lasts(phase, phase')
    BY <1>1, <2>1, <2>2, RunMoves
  <2>4. owed' \subseteq Runs /\ UNCHANGED <<created, counted, repeats, troubles>>
    BY <1>2 DEF Take, Settle, PlaneOK, TypesOK
  <2>5. TypesOK'
    BY <1>1, <2>3, <2>4 DEF PlaneOK, TypesOK
  <2> QED BY <1>1, <2>3, <2>5, CallsLast
<1>3. CASE RecordTerminal(r) \/ WorkerDies(r)
  <2>1. UNCHANGED <<phase, created, repeats>> /\ owed' \subseteq Runs
        /\ counted' \in [Runs -> Nat] /\ troubles' \in Nat
    BY <1>3 DEF RecordTerminal, WorkerDies, CountEnd, PlaneOK, TypesOK
  <2>2. TypesOK' /\ BornOK' /\ Lasts(phase, phase')
    BY <1>1, <2>1 DEF PlaneOK, TypesOK, BornOK, Lasts
  <2> QED BY <1>1, <2>2, CallsLast
<1> QED BY <1>2, <1>3 DEF Work

\* A call that the page does not wait for any more.
Glanced(k) == [k EXCEPT !.op = "glance", !.run = None, !.status = None]
Left(k) ==
  IF k = None \/ k.op = "cancel" THEN k
  ELSE IF k.step = "answer" THEN None
  ELSE Glanced(k)

LEMMA GlancedIs ==
  ASSUME NEW k \in CallState
  PROVE  /\ Glanced(k) \in CallState /\ Glanced(k).op = "glance" /\ Glanced(k).step = k.step
         /\ Glanced(k).seen = k.seen
BY DEF CallState, Glanced

LEMMA LeftIs ==
  ASSUME NEW k \in CallState \union {None}, NEW ph, NEW n \in Nat, CallOK(k, ph, n)
  PROVE  Left(k) \in CallState \union {None} /\ CallOK(Left(k), ph, n)
<1>1. CASE k = None \/ k.op = "cancel"
  BY <1>1 DEF Left
<1>2. CASE k # None /\ k.op # "cancel" /\ k.step = "answer"
  BY <1>2 DEF Left, CallOK
<1>3. CASE k # None /\ k.op # "cancel" /\ k.step # "answer"
  <2>1. k \in CallState /\ Left(k) = Glanced(k)
    BY <1>3 DEF Left
  <2>2. k.step # "end" /\ Honest(k.seen, ph) /\ Len(k.seen) <= n
    BY <1>3 DEF CallOK
  <2>3. CallOK(Glanced(k), ph, n)
    BY <2>1, <2>2, GlancedIs DEF CallOK
  <2> QED BY <2>1, <2>3, GlancedIs
<1> QED BY <1>1, <1>2, <1>3

LEMMA VisitIs ==
  ASSUME PlaneOK, Visit
  PROVE  /\ call' = [c \in Calls |-> Left(call[c])]
         /\ UNCHANGED <<phase, born, created, counted, owed, repeats, troubles>>
BY DEF Visit, Left, Glanced

LEMMA PlaneVisit == PlaneOK /\ Visit => PlaneOK'
<1> SUFFICES ASSUME PlaneOK, Visit
             PROVE  PlaneOK'
  OBVIOUS
<1>1. /\ call' = [c \in Calls |-> Left(call[c])]
      /\ UNCHANGED <<phase, born, created, counted, owed, repeats, troubles>>
  BY VisitIs
<1>2. Len(born) \in Nat
  BY LenProperties DEF PlaneOK, TypesOK
<1>3. \A c \in Calls : call'[c] \in CallState \union {None} /\ CallOK(call'[c], phase, Len(born))
  BY <1>1, <1>2, LeftIs DEF PlaneOK, TypesOK
<1>4. call' \in [Calls -> CallState \union {None}]
  BY <1>1, <1>3
<1> QED BY <1>1, <1>3, <1>4 DEF PlaneOK, TypesOK, BornOK

LEMMA PlaneInitially == DashboardInit => PlaneOK
<1> SUFFICES ASSUME DashboardInit
             PROVE  PlaneOK
  OBVIOUS
<1>1. TypesOK
  BY EmptySeq DEF DashboardInit, PlaneInit, TypesOK, Phase
<1> QED BY <1>1 DEF DashboardInit, PlaneInit, PlaneOK, BornOK, CallOK

LEMMA PlaneStep == PlaneOK /\ [DashboardNext]_vars => PlaneOK'
<1> SUFFICES ASSUME PlaneOK, [DashboardNext]_vars
             PROVE  PlaneOK'
  OBVIOUS
<1>1. ASSUME NEW c \in Calls,
             Poll(c) \/ Behind(Serve(c)) \/ Behind(ServeRaises(c)) \/ Deliver(c) \/ LoseAnswer(c)
      PROVE  PlaneOK'
  <2>1. CASE Poll(c)
    BY <2>1, PlaneListRuns DEF Poll
  <2>2. CASE Behind(Serve(c))
    BY <2>2, PlaneServe DEF Behind
  <2>3. CASE Deliver(c)
    <3>1. /\ call' = [call EXCEPT ![c] = None]
          /\ UNCHANGED <<phase, born, created, counted, owed, repeats, troubles>>
      BY <2>3 DEF Deliver, ShowRuns, ShowCreated, Answer, Finish
    <3> QED BY <3>1, PlaneFinish DEF PlaneOK, TypesOK
  <2>4. CASE LoseAnswer(c) \/ Behind(ServeRaises(c))
    <3>1. /\ call' = [call EXCEPT ![c] = None] /\ troubles' = troubles + 1
          /\ UNCHANGED <<phase, born, created, counted, owed, repeats>>
      BY <2>4 DEF LoseAnswer, Behind, ServeRaises, Finish
    <3>2. troubles' \in Nat
      BY <3>1 DEF PlaneOK, TypesOK
    <3> QED BY <3>1, <3>2, PlaneFinish
  <2> QED BY <1>1, <2>1, <2>2, <2>3, <2>4
<1>2. ASSUME NEW c \in Calls, NEW r \in Runs, SubmitRun(c, r) \/ Behind(CancelRun(c, r))
      PROVE  PlaneOK'
  BY <1>2, PlaneCreate, PlaneCancel DEF SubmitRun, Behind
<1>3. ASSUME NEW r \in Runs, Behind(Work(r))
      PROVE  PlaneOK'
  BY <1>3, PlaneWork DEF Behind
<1>4. CASE UNCHANGED vars
  BY <1>4 DEF vars, planeVars, PlaneOK, TypesOK, BornOK
<1> QED BY <1>1, <1>2, <1>3, <1>4, PlaneVisit DEF DashboardNext

-----------------------------------------------------------------------------
(* What the page shows *)

Creates == {c \in Calls : call[c] # None /\ call[c].op = "create"}

\* While the answer of the form is under way, no run but the one it brings is to be
\* shown twice.
ShownOK ==
  /\ shown \in Seq(Listed) /\ Honest(shown, phase)
  /\ \A c, d \in Creates : c = d
  /\ Len(shown) <= Len(born) + 1
  /\ Creates # {} => Len(shown) <= Len(born)

\* The page stays, and no run is being created that was not.
LEMMA ShownLasts ==
  ASSUME PlaneOK, ShownOK, UNCHANGED shown, Lasts(phase, phase'), Len(born') = Len(born),
         Creates' \subseteq Creates
  PROVE  ShownOK'
BY HonestLasts DEF ShownOK

\* A call goes on.
LEMMA SameCreates ==
  ASSUME PlaneOK, NEW c \in Calls, NEW k \in CallState \union {None},
         call' = [call EXCEPT ![c] = k],
         k # None /\ k.op = "create" => call[c] # None /\ call[c].op = "create"
  PROVE  Creates' \subseteq Creates
<1>1. call'[c] = k /\ \A d \in Calls : d # c => call'[d] = call[d]
  BY OneCall
<1> QED BY <1>1 DEF Creates

LEMMA ShownServe == \A c \in Calls : PlaneOK /\ ShownOK /\ Behind(Serve(c)) => ShownOK'
<1> SUFFICES ASSUME NEW c \in Calls, PlaneOK, ShownOK, Behind(Serve(c))
             PROVE  ShownOK'
  OBVIOUS
<1>1. UNCHANGED <<shown, phase, born>> /\ call[c] # None
  BY DEF Behind, Serve, RecordCreated, ListAgain, SetDepth, SetActive, SetOldest, RecordEnded, At
<1>2. call[c] \in CallState
  BY <1>1, InProgress
<1> DEFINE GoesOn(k) == call' = [call EXCEPT ![c] = k] /\ (k # None => k.op = call[c].op)
<1>3. PICK k \in CallState \union {None} : GoesOn(k)
  <2>1. ASSUME NEW step \in {"list", "active", "oldest"}, Goto(c, step)
        PROVE  \E k \in CallState \union {None} : GoesOn(k)
    <3>1. call' = [call EXCEPT ![c] = [call[c] EXCEPT !.step = step]]
      BY <1>1, <2>1, GotoIs
    <3>2. [call[c] EXCEPT !.step = step] \in CallState
      BY <1>1, InProgress
    <3>3. [call[c] EXCEPT !.step = step].op = call[c].op
      BY <1>2 DEF CallState
    <3> QED BY <3>1, <3>2, <3>3
  <2>2. ASSUME ListAgain(c)
        PROVE  \E k \in CallState \union {None} : GoesOn(k)
    <3> DEFINE k == [call[c] EXCEPT !.step = "depth", !.seen = Listing]
    <3>1. call' = [call EXCEPT ![c] = k]
      BY <2>2 DEF ListAgain
    <3>2. Listing \in Seq(Listed)
      BY ListingIsHonest DEF PlaneOK
    <3>3. k \in CallState /\ k.op = call[c].op
      BY <1>2, <3>2 DEF CallState
    <3> HIDE DEF k
    <3> QED BY <3>1, <3>3
  <2>3. ASSUME SetOldest(c)
        PROVE  \E k \in CallState \union {None} : GoesOn(k)
    BY <1>2, <2>3, SetOldestIs, RefreshedIs
  <2>4. ASSUME RecordEnded(c)
        PROVE  \E k \in CallState \union {None} : GoesOn(k)
    BY <2>4 DEF RecordEnded
  <2> QED BY <2>1, <2>2, <2>3, <2>4 DEF Behind, Serve, RecordCreated, SetDepth, SetActive
<1>4. Creates' \subseteq Creates
  BY <1>1, <1>3, SameCreates
<1> QED BY <1>1, <1>4, ShownLasts DEF Lasts

\* A list that nobody is told of.
LEMMA ShownPoll == \A c \in Calls : PlaneOK /\ ShownOK /\ Poll(c) => ShownOK'
<1> SUFFICES ASSUME NEW c \in Calls, PlaneOK, ShownOK, Poll(c)
             PROVE  ShownOK'
  OBVIOUS
<1> DEFINE k == [op |-> "list", run |-> None, status |-> None, step |-> "depth", seen |-> Listing]
<1>1. call' = [call EXCEPT ![c] = k] /\ UNCHANGED <<shown, phase, born>>
  BY DEF Poll, ListRuns, Begin
<1>2. Listing \in Seq(Listed)
  BY ListingIsHonest DEF PlaneOK
<1>3. k \in CallState /\ k.op # "create"
  BY <1>2 DEF CallState
<1> HIDE DEF k
<1>4. Creates' \subseteq Creates
  BY <1>1, <1>3, SameCreates
<1> QED BY <1>1, <1>4, ShownLasts DEF Lasts

LEMMA ShownCancel ==
  \A c \in Calls, r \in Runs : PlaneOK /\ ShownOK /\ Behind(CancelRun(c, r)) => ShownOK'
<1> SUFFICES ASSUME NEW c \in Calls, NEW r \in Runs, PlaneOK, ShownOK, Behind(CancelRun(c, r))
             PROVE  ShownOK'
  OBVIOUS
<1> DEFINE k == [op |-> "cancel", run |-> r, status |-> phase'[r], step |-> "list", seen |-> <<>>]
<1>1. call' = [call EXCEPT ![c] = k] /\ UNCHANGED <<shown, born>>
  BY DEF Behind, CancelRun, Begin
<1>2. PICK to \in {"cancelled", "active"} \union Decided :
        /\ phase[r] \notin Decided \union {"absent"} \/ phase[r] = to
        /\ phase[r] # "absent" /\ phase' = [phase EXCEPT ![r] = to]
  BY DEF Behind, CancelRun, Moves, Decided
<1>3. Lasts(phase, phase') /\ phase'[r] = to
  BY <1>1, <1>2, RunMoves DEF Phase, Decided
<1>4. k \in CallState /\ k.op # "create"
  BY <1>3, EmptySeq DEF CallState, Decided
<1> HIDE DEF k
<1>5. Creates' \subseteq Creates
  BY <1>1, <1>4, SameCreates
<1> QED BY <1>1, <1>3, <1>5, ShownLasts

LEMMA ShownWork == \A r \in Runs : PlaneOK /\ ShownOK /\ Behind(Work(r)) => ShownOK'
<1> SUFFICES ASSUME NEW r \in Runs, PlaneOK, ShownOK, Behind(Work(r))
             PROVE  ShownOK'
  OBVIOUS
<1>1. UNCHANGED <<born, call, shown>>
  BY DEF Behind, Work, Take, Settle, RecordTerminal, WorkerDies
<1>2. Creates' \subseteq Creates
  BY <1>1 DEF Creates
<1>3. Lasts(phase, phase')
  <2>1. CASE UNCHANGED phase
    BY <2>1 DEF Lasts
  <2>2. CASE Take(r) \/ Settle(r)
    <3>1. PICK to \in {"queued", "active"} \union Decided :
            phase[r] \in {"queued", "active"} /\ phase' = [phase EXCEPT ![r] = to]
      BY <2>2 DEF Take, Settle, Moves
    <3> QED BY <1>1, <3>1, RunMoves DEF Phase, Decided
  <2> QED BY <2>1, <2>2 DEF Behind, Work, RecordTerminal, WorkerDies
<1> QED BY <1>1, <1>2, <1>3, ShownLasts

\* The form is sent: there was no other, and there is a run more.
LEMMA ShownSubmit == \A c \in Calls, r \in Runs : PlaneOK /\ ShownOK /\ SubmitRun(c, r) => ShownOK'
<1> SUFFICES ASSUME NEW c \in Calls, NEW r \in Runs, PlaneOK, ShownOK, SubmitRun(c, r)
             PROVE  ShownOK'
  OBVIOUS
<1> DEFINE k == [op |-> "create", run |-> r, status |-> "queued", step |-> "count", seen |-> <<>>]
<1>1. /\ Creates = {} /\ UNCHANGED shown
      /\ phase[r] = "absent" /\ phase' = [phase EXCEPT ![r] = "queued"] /\ born' = Append(born, r)
      /\ call' = [call EXCEPT ![c] = k]
  BY DEF SubmitRun, CreateRun, Moves, Begin, Creates
<1>2. k \in CallState
  BY EmptySeq DEF CallState
<1> HIDE DEF k
<1>3. \A d \in Calls : d # c => call'[d] = call[d]
  BY <1>1, <1>2, OneCall
<1>4. Creates' \subseteq {c}
  BY <1>1, <1>3 DEF Creates
<1>5. Lasts(phase, phase')
  BY <1>1 DEF Lasts, Decided, PlaneOK, TypesOK
<1>6. Len(born') = Len(born) + 1 /\ Len(born) \in Nat
  BY <1>1, AppendProperties, LenProperties DEF PlaneOK, TypesOK
<1>7. Honest(shown, phase') /\ Len(shown) \in Nat
  BY <1>5, HonestLasts, LenProperties DEF ShownOK
<1> QED BY <1>1, <1>4, <1>6, <1>7 DEF ShownOK

\* A call ends.
LEMMA CreatesEnd ==
  ASSUME PlaneOK, NEW c \in Calls, Finish(c)
  PROVE  Creates' = Creates \ {c}
<1>1. call' = [call EXCEPT ![c] = None]
  BY DEF Finish
<1>2. call'[c] = None /\ \A d \in Calls : d # c => call'[d] = call[d]
  BY <1>1, OneCall
<1> QED BY <1>2 DEF Creates

LEMMA ShownDeliver == \A c \in Calls : PlaneOK /\ ShownOK /\ Deliver(c) => ShownOK'
<1> SUFFICES ASSUME NEW c \in Calls, PlaneOK, ShownOK, Deliver(c)
             PROVE  ShownOK'
  OBVIOUS
<1>1. Finish(c) /\ UNCHANGED <<phase, born>>
  BY DEF Deliver, ShowRuns, ShowCreated, Answer
<1>2. call[c] # None
  BY <1>1 DEF Finish, At
<1>3. /\ call[c] \in CallState /\ call[c].seen \in Seq(Listed) /\ CallOK(call[c], phase, Len(born))
      /\ Len(born) \in Nat /\ Len(shown) \in Nat /\ Len(call[c].seen) \in Nat
  <2>1. call[c] \in CallState /\ CallOK(call[c], phase, Len(born))
    BY <1>2, InProgress
  <2>2. call[c].seen \in Seq(Listed)
    BY <2>1 DEF CallState
  <2> QED BY <2>1, <2>2, LenProperties DEF PlaneOK, TypesOK, ShownOK
<1>4. Creates' = Creates \ {c}
  BY <1>1, CreatesEnd
<1>6. CASE ShowRuns(c)
  <2>1. shown' = call[c].seen
    BY <1>6 DEF ShowRuns
  <2>2. Honest(shown', phase) /\ Len(shown') <= Len(born)
    BY <1>2, <1>3, <2>1 DEF CallOK
  <2> QED BY <1>1, <1>3, <1>4, <2>1, <2>2 DEF ShownOK
<1>7. CASE ShowCreated(c)
  <2> DEFINE e == [run |-> call[c].run, phase |-> "queued"]
  <2>1. call[c].op = "create" /\ call[c].status = "queued" /\ call[c].run \in Runs
    BY <1>2, <1>3, <1>7 DEF ShowCreated, CallOK
  <2>2. shown' = <<e>> \o shown
    BY <1>7, <2>1 DEF ShowCreated
  <2>3. e \in Listed
    BY <2>1 DEF Listed
  <2>4. c \in Creates /\ Creates' = {}
    BY <1>2, <1>4, <2>1 DEF Creates, ShownOK
  <2>5. /\ shown' \in Seq(Listed) /\ Len(shown') = Len(shown) + 1
        /\ \A i \in 1 .. Len(shown) + 1 : shown'[i] = IF i = 1 THEN e ELSE shown[i - 1]
    <3> HIDE DEF e
    <3>1. <<e>> \in Seq(Listed) /\ Len(<<e>>) = 1 /\ <<e>>[1] = e /\ shown \in Seq(Listed)
      BY <2>3 DEF ShownOK
    <3>2. /\ <<e>> \o shown \in Seq(Listed) /\ Len(<<e>> \o shown) = Len(<<e>>) + Len(shown)
          /\ \A i \in 1 .. Len(<<e>>) + Len(shown) : (<<e>> \o shown)[i] =
                IF i <= Len(<<e>>) THEN <<e>>[i] ELSE shown[i - Len(<<e>>)]
      BY <3>1, ConcatProperties
    <3>3. \A i \in 1 .. Len(shown) + 1 : i <= 1 <=> i = 1
      BY <1>3
    <3> QED BY <1>3, <2>2, <3>1, <3>2, <3>3
  <2>6. Honest(shown', phase)
    <3>1. DOMAIN shown' = 1 .. Len(shown) + 1 /\ DOMAIN shown = 1 .. Len(shown)
      BY <2>5, LenProperties DEF ShownOK
    <3>2. e.phase \notin Decided
      BY DEF Decided
    <3> HIDE DEF e
    <3>3. \A i \in DOMAIN shown' : shown'[i].phase \in Decided =>
            i # 1 /\ i - 1 \in DOMAIN shown /\ shown'[i] = shown[i - 1]
      <4> SUFFICES ASSUME NEW i \in 1 .. Len(shown) + 1, shown'[i].phase \in Decided
                   PROVE  i # 1 /\ i - 1 \in 1 .. Len(shown) /\ shown'[i] = shown[i - 1]
        BY <3>1
      <4>1. i # 1
        BY <2>5, <3>2
      <4> QED BY <1>3, <2>5, <4>1
    <3>4. \A i, j \in DOMAIN shown' : i - 1 = j - 1 => i = j
      BY <1>3, <3>1
    <3> QED BY <3>3, <3>4 DEF Honest, ShownOK
  <2>7. Len(shown) <= Len(born)
    BY <2>4 DEF ShownOK
  <2> QED BY <1>1, <1>3, <2>4, <2>5, <2>6, <2>7 DEF ShownOK
<1> QED BY <1>6, <1>7 DEF Deliver

LEMMA ShownLose == \A c \in Calls : PlaneOK /\ ShownOK /\ LoseAnswer(c) => ShownOK'
<1> SUFFICES ASSUME NEW c \in Calls, PlaneOK, ShownOK, LoseAnswer(c)
             PROVE  ShownOK'
  OBVIOUS
<1>1. Finish(c) /\ UNCHANGED <<phase, born, shown>>
  BY DEF LoseAnswer
<1>2. Creates' \subseteq Creates
  BY <1>1, CreatesEnd
<1> QED BY <1>1, <1>2, ShownLasts DEF Lasts

LEMMA ShownRaises == \A c \in Calls : PlaneOK /\ ShownOK /\ Behind(ServeRaises(c)) => ShownOK'
<1> SUFFICES ASSUME NEW c \in Calls, PlaneOK, ShownOK, Behind(ServeRaises(c))
             PROVE  ShownOK'
  OBVIOUS
<1>1. call' = [call EXCEPT ![c] = None] /\ UNCHANGED <<phase, born, shown>>
  BY DEF Behind, ServeRaises
<1>2. Creates' \subseteq Creates
  BY <1>1, SameCreates
<1> QED BY <1>1, <1>2, ShownLasts DEF Lasts

LEMMA ShownVisit == PlaneOK /\ ShownOK /\ Visit => ShownOK'
<1> SUFFICES ASSUME PlaneOK, ShownOK, Visit
             PROVE  ShownOK'
  OBVIOUS
<1>1. shown' = <<>> /\ call' = [c \in Calls |-> Left(call[c])] /\ UNCHANGED <<phase, born>>
  BY VisitIs DEF Visit
<1>2. ASSUME NEW c \in Calls, Left(call[c]) # None
      PROVE  Left(call[c]).op # "create"
  <2>1. CASE call[c] = None \/ call[c].op = "cancel"
    BY <1>2, <2>1 DEF Left
  <2>2. CASE call[c] # None /\ call[c].op # "cancel"
    <3>1. call[c] \in CallState
      BY <2>2, InProgress
    <3>2. Left(call[c]) = Glanced(call[c])
      BY <1>2, <2>2 DEF Left
    <3> QED BY <3>1, <3>2, GlancedIs
  <2> QED BY <2>1, <2>2
<1>3. Creates' = {}
  BY <1>1, <1>2 DEF Creates
<1>4. Len(born) \in Nat
  BY LenProperties DEF PlaneOK, TypesOK
<1> QED BY <1>1, <1>3, <1>4, EmptyIsHonest DEF ShownOK

LEMMA ShownStep == PlaneOK /\ ShownOK /\ [DashboardNext]_vars => ShownOK'
<1> SUFFICES ASSUME PlaneOK, ShownOK, [DashboardNext]_vars
             PROVE  ShownOK'
  OBVIOUS
<1>1. CASE UNCHANGED vars
  BY <1>1 DEF vars, planeVars, ShownOK, Creates
<1> QED BY <1>1, ShownServe, ShownPoll, ShownCancel, ShownWork, ShownSubmit, ShownDeliver,
           ShownLose, ShownRaises, ShownVisit DEF DashboardNext

\* As many runs as a list tells of with one of these outcomes, or more, have it.
LEMMA ListedRunsAreReal ==
  ASSUME PlaneOK, NEW list \in Seq(Listed), Honest(list, phase), NEW outcomes \in SUBSET Decided
  PROVE  Cardinality({i \in DOMAIN list : list[i].phase \in outcomes}) <= Cardinality(With(outcomes))
<1> DEFINE D == {i \in DOMAIN list : list[i].phase \in outcomes}
           W == With(outcomes)
           f == [i \in D |-> list[i].run]
<1>1. IsFiniteSet(W)
  <2> DEFINE B == {i \in DOMAIN born : born[i] \in W}
             g == [i \in B |-> born[i]]
  <2>1. IsFiniteSet(B)
    <3>1. Len(born) \in Nat /\ DOMAIN born = 1 .. Len(born)
      BY LenProperties DEF PlaneOK, TypesOK
    <3>2. IsFiniteSet(1 .. Len(born)) /\ B \in SUBSET (1 .. Len(born))
      BY <3>1, FS_Interval
    <3> QED BY <3>2, FS_Subset
  <2>2. \A w \in W : \E i \in B : born[i] = w
    BY DEF With, PlaneOK, BornOK, Decided
  <2>3. g \in Surjection(B, W)
    <3>1. g \in [B -> W]
      OBVIOUS
    <3> QED BY <2>2, <3>1 DEF Surjection
  <2> QED BY <2>1, <2>3, FS_Surjection
<1>2. \A i \in DOMAIN list : list[i].run \in Runs
  <2>1. \A i \in DOMAIN list : list[i] \in Listed
    BY LenProperties
  <2> QED BY <2>1 DEF Listed
<1>3. \A i \in D : list[i].run \in W
  BY <1>2 DEF Honest, With
<1>4. \A i, j \in D : list[i].run = list[j].run => i = j
  BY DEF Honest
<1> HIDE DEF D, W
<1>5. f \in Injection(D, W)
  BY <1>3, <1>4 DEF Injection, IsInjective
<1>6. Cardinality(D) <= Cardinality(W)
  BY <1>1, <1>5, FS_Injection
<1> QED BY <1>6 DEF D, W

\* The dashboard counts as finished, and as completed, no more runs than are, and shows
\* no outcome that is not the run's, whatever answers overtake one another.
THEOREM SuccessRatesAreReal == DashboardSpec => []SuccessRateIsReal
<1>1. DashboardInit => ShownOK
  <2> SUFFICES ASSUME DashboardInit
               PROVE  ShownOK
    OBVIOUS
  <2>1. shown = <<>> /\ born = <<>> /\ Creates = {}
    BY DEF DashboardInit, PlaneInit, Creates
  <2> QED BY <2>1, EmptyIsHonest, EmptySeq DEF ShownOK
<1>2. PlaneOK /\ ShownOK => SuccessRateIsReal
  <2> SUFFICES ASSUME PlaneOK, ShownOK
               PROVE  SuccessRateIsReal
    OBVIOUS
  <2>1. {"completed"} \in SUBSET Decided /\ Decided \in SUBSET Decided
    BY DEF Decided
  <2>2. shown \in Seq(Listed) /\ Honest(shown, phase)
    BY DEF ShownOK
  <2>3. Cardinality({i \in DOMAIN shown : shown[i].phase \in Decided}) <= Cardinality(With(Decided))
    BY <2>1, <2>2, ListedRunsAreReal
  <2>4. Cardinality({i \in DOMAIN shown : shown[i].phase \in {"completed"}})
          <= Cardinality(With({"completed"}))
    BY <2>1, <2>2, ListedRunsAreReal
  <2>5. {i \in DOMAIN shown : shown[i].phase \in {"completed"}}
          = {i \in DOMAIN shown : shown[i].phase = "completed"}
    OBVIOUS
  <2>6. /\ Summary.terminalRuns = Cardinality({i \in DOMAIN shown : shown[i].phase \in Decided})
        /\ Summary.completedRuns = Cardinality({i \in DOMAIN shown : shown[i].phase = "completed"})
        /\ Summary.totalRuns = Len(shown)
    BY DEF Summary
  <2>7. Len(shown) <= Len(born) + 1
    BY DEF ShownOK
  <2>8. \A i \in DOMAIN shown : shown[i].phase \in Decided => shown[i].phase = phase[shown[i].run]
    BY <2>2 DEF Honest
  <2> QED BY <2>3, <2>4, <2>5, <2>6, <2>7, <2>8 DEF SuccessRateIsReal
<1> QED BY <1>1, <1>2, PlaneInitially, PlaneStep, ShownStep, PTL DEF DashboardSpec

-----------------------------------------------------------------------------
(* What the counters tell *)

\* Whether a call has a created run to count, or the end of run r.
Counts(k) == k # None /\ k.step = "count"
Ends(k, r) ==
  k # None /\ k.op = "cancel" /\ k.run = r /\ k.status \in Decided /\ k.step # "answer"

Counting == {c \in Calls : Counts(call[c])}
Ending(r) == {c \in Calls : Ends(call[c], r)}

\* How often the end of a run is counted, or is going to be.
Told(r) == counted[r] + (IF r \in owed THEN 1 ELSE 0) + Cardinality(Ending(r))

\* What may be told of a run in phase ph that rep requests found decided, after n
\* workers died or requests failed.
Fair(ph, told, rep, n) ==
  /\ ph \notin Decided => told = 0 /\ rep = 0
  /\ ph \in Decided => told <= 1 + rep /\ (1 + rep <= told + n \/ Isolated)

CountsOK ==
  /\ IsFiniteSet(Counting)
  /\ created + Cardinality(Counting) <= Len(born)
  /\ Len(born) <= created + Cardinality(Counting) + troubles
  /\ \A r \in Runs : IsFiniteSet(Ending(r)) /\ Fair(phase[r], Told(r), repeats[r], troubles)

LEMMA Sizes ==
  ASSUME PlaneOK, CountsOK
  PROVE  /\ Cardinality(Counting) \in Nat /\ Len(born) \in Nat /\ created \in Nat
         /\ troubles \in Nat
         /\ \A r \in Runs : /\ Cardinality(Ending(r)) \in Nat /\ counted[r] \in Nat /\ repeats[r] \in Nat
                            /\ Told(r) \in Nat
<1>1. \A r \in Runs : Cardinality(Ending(r)) \in Nat /\ counted[r] \in Nat /\ repeats[r] \in Nat
  BY FS_CardinalityType DEF CountsOK, PlaneOK, TypesOK
<1>2. \A r \in Runs : Told(r) \in Nat
  BY <1>1 DEF Told
<1> QED BY <1>1, <1>2, FS_CardinalityType, LenProperties DEF CountsOK, PlaneOK, TypesOK

\* More troubles excuse more.
LEMMA FairLasts ==
  ASSUME NEW told \in Nat, NEW rep \in Nat, NEW n \in Nat, NEW m \in Nat, n <= m,
         NEW ph, Fair(ph, told, rep, n)
  PROVE  Fair(ph, told, rep, m)
BY DEF Fair

\* A set that may lose or take an element.
LEMMA SetMoves ==
  ASSUME NEW S, IsFiniteSet(S), NEW T, NEW c, S \ {c} = T \ {c}
  PROVE  /\ IsFiniteSet(T)
         /\ (c \in T <=> c \in S) => Cardinality(T) = Cardinality(S)
         /\ c \in T /\ c \notin S => Cardinality(T) = Cardinality(S) + 1
         /\ c \notin T /\ c \in S => Cardinality(T) = Cardinality(S) - 1
<1>1. CASE c \in T <=> c \in S
  <2>1. T = S
    BY <1>1
  <2> QED BY <1>1, <2>1
<1>2. CASE c \in T /\ c \notin S
  <2>1. T = S \union {c}
    BY <1>2
  <2> QED BY <1>2, <2>1, FS_AddElement
<1>3. CASE c \notin T /\ c \in S
  <2>1. T = S \ {c}
    BY <1>3
  <2> QED BY <1>3, <2>1, FS_RemoveElement
<1> QED BY <1>1, <1>2, <1>3

\* The sets follow the one call that changes.
LEMMA CallMoves ==
  ASSUME PlaneOK, NEW c \in Calls, NEW k \in CallState \union {None},
         call' = [call EXCEPT ![c] = k]
  PROVE  /\ Counting \ {c} = Counting' \ {c}
         /\ c \in Counting <=> Counts(call[c])
         /\ c \in Counting' <=> Counts(k)
         /\ \A r : Ending(r) \ {c} = Ending(r)' \ {c}
         /\ \A r : c \in Ending(r) <=> Ends(call[c], r)
         /\ \A r : c \in Ending(r)' <=> Ends(k, r)
<1>1. call'[c] = k /\ \A d \in Calls : d # c => call'[d] = call[d]
  BY OneCall
<1>2. Counting \ {c} = Counting' \ {c} /\ (c \in Counting <=> Counts(call[c]))
      /\ (c \in Counting' <=> Counts(k))
  BY <1>1 DEF Counting
<1>3. ASSUME NEW r
      PROVE  /\ Ending(r) \ {c} = Ending(r)' \ {c}
             /\ c \in Ending(r) <=> Ends(call[c], r)
             /\ c \in Ending(r)' <=> Ends(k, r)
  BY <1>1 DEF Ending
<1> QED BY <1>2, <1>3

\* A call that is in the sets as before leaves them as they were.
LEMMA CallStays ==
  ASSUME PlaneOK, NEW c \in Calls, NEW k \in CallState \union {None},
         call' = [call EXCEPT ![c] = k]
  PROVE  /\ (Counts(k) <=> Counts(call[c])) => Counting' = Counting
         /\ \A r : (Ends(k, r) <=> Ends(call[c], r)) => Ending(r)' = Ending(r)
<1>1. ASSUME Counts(k) <=> Counts(call[c])
      PROVE  Counting' = Counting
  <2>1. Counting \ {c} = Counting' \ {c} /\ (c \in Counting <=> c \in Counting')
    BY <1>1, CallMoves
  <2> QED BY <2>1
<1>2. ASSUME NEW r, Ends(k, r) <=> Ends(call[c], r)
      PROVE  Ending(r)' = Ending(r)
  <2>1. Ending(r) \ {c} = Ending(r)' \ {c} /\ (c \in Ending(r) <=> c \in Ending(r)')
    BY <1>2, CallMoves
  <2> QED BY <2>1
<1> QED BY <1>1, <1>2

\* The same sets, and nothing else that is counted changes.
LEMMA CountsLast ==
  ASSUME PlaneOK, CountsOK, Counting' = Counting, \A r \in Runs : Ending(r)' = Ending(r),
         UNCHANGED <<phase, counted, owed, repeats, created>>, Len(born') = Len(born),
         troubles' \in Nat, troubles <= troubles'
  PROVE  CountsOK'
<1>1. ASSUME NEW r \in Runs
      PROVE  IsFiniteSet(Ending(r)') /\ Fair(phase'[r], Told(r)', repeats'[r], troubles')
  <2>1. Told(r)' = Told(r)
    BY DEF Told
  <2>2. IsFiniteSet(Ending(r)) /\ Fair(phase[r], Told(r), repeats[r], troubles)
    BY DEF CountsOK
  <2> QED BY <2>1, <2>2, FairLasts, Sizes
<1>2. Len(born) <= created + Cardinality(Counting) + troubles'
  BY Sizes DEF CountsOK
<1> QED BY <1>1, <1>2 DEF CountsOK

LEMMA QuietCounts ==
  ASSUME PlaneOK, CountsOK, NEW c \in Calls, NEW k \in CallState \union {None},
         call' = [call EXCEPT ![c] = k],
         Counts(k) <=> Counts(call[c]), \A r \in Runs : Ends(k, r) <=> Ends(call[c], r),
         UNCHANGED <<phase, counted, owed, repeats, created, born>>,
         troubles' \in Nat, troubles <= troubles'
  PROVE  CountsOK'
<1>1. Counting' = Counting
  BY CallStays
<1>2. \A r \in Runs : Ending(r)' = Ending(r)
  BY CallStays
<1> QED BY <1>1, <1>2, CountsLast

LEMMA CountsRecordCreated == \A c \in Calls : PlaneOK /\ CountsOK /\ RecordCreated(c) => CountsOK'
<1> SUFFICES ASSUME NEW c \in Calls, PlaneOK, CountsOK, RecordCreated(c)
             PROVE  CountsOK'
  OBVIOUS
<1> DEFINE k == [call[c] EXCEPT !.step = "list"]
<1>1. /\ call[c] # None /\ call[c].step = "count" /\ Goto(c, "list") /\ created' = created + 1
      /\ UNCHANGED <<phase, born, counted, owed, repeats, troubles>>
  BY DEF RecordCreated, At
<1>2. call' = [call EXCEPT ![c] = k] /\ k \in CallState /\ call[c] \in CallState
  BY <1>1, InProgress, GotoIs
<1>3. /\ k.op = call[c].op /\ k.run = call[c].run /\ k.status = call[c].status /\ k.step = "list"
  BY <1>2 DEF CallState
<1> HIDE DEF k
<1>4. Counts(call[c]) /\ ~Counts(k) /\ \A r : Ends(k, r) <=> Ends(call[c], r)
  BY <1>1, <1>2, <1>3 DEF Counts, Ends
<1>5. IsFiniteSet(Counting') /\ Cardinality(Counting') = Cardinality(Counting) - 1
  <2>1. c \in Counting /\ c \notin Counting' /\ Counting \ {c} = Counting' \ {c}
    BY <1>2, <1>4, CallMoves
  <2> QED BY <2>1, SetMoves DEF CountsOK
<1>6. \A r \in Runs : Ending(r)' = Ending(r)
  BY <1>2, <1>4, CallStays
<1>7. /\ created' + Cardinality(Counting') <= Len(born')
      /\ Len(born') <= created' + Cardinality(Counting') + troubles'
  BY <1>1, <1>5, Sizes DEF CountsOK
<1> QED BY <1>1, <1>5, <1>6, <1>7 DEF CountsOK, Told, Fair

LEMMA CountsServe == \A c \in Calls : PlaneOK /\ CountsOK /\ Serve(c) => CountsOK'
<1> SUFFICES ASSUME NEW c \in Calls, PlaneOK, CountsOK, Serve(c)
             PROVE  CountsOK'
  OBVIOUS
<1>0. call[c] # None /\ call[c] \in CallState
  BY InProgress DEF Serve, RecordCreated, ListAgain, SetDepth, SetActive, SetOldest, RecordEnded, At
<1>1. CASE ListAgain(c)
  <2> DEFINE k == [call[c] EXCEPT !.step = "depth", !.seen = Listing]
  <2>1. /\ call[c].step = "list" /\ call' = [call EXCEPT ![c] = k]
        /\ UNCHANGED <<phase, born, created, counted, owed, repeats, troubles>>
    BY <1>1 DEF ListAgain, At
  <2>2. Listing \in Seq(Listed)
    BY ListingIsHonest DEF PlaneOK
  <2>3. /\ k \in CallState /\ k.op = call[c].op /\ k.run = call[c].run /\ k.status = call[c].status
        /\ k.step = "depth"
    BY <1>0, <2>2 DEF CallState
  <2> HIDE DEF k
  <2>4. (Counts(k) <=> Counts(call[c])) /\ \A r : Ends(k, r) <=> Ends(call[c], r)
    BY <1>0, <2>1, <2>3 DEF Counts, Ends
  <2>5. troubles' \in Nat /\ troubles <= troubles'
    BY <2>1, Sizes
  <2> QED BY <2>1, <2>3, <2>4, <2>5, QuietCounts
<1>2. CASE SetDepth(c)
  <2> DEFINE k == [call[c] EXCEPT !.step = "active"]
  <2>1. /\ call[c].step = "depth" /\ Goto(c, "active")
        /\ UNCHANGED <<phase, born, created, counted, owed, repeats, troubles>>
    BY <1>2 DEF SetDepth, At
  <2>2. call' = [call EXCEPT ![c] = k] /\ k \in CallState
    BY <1>0, <2>1, InProgress, GotoIs
  <2>3. /\ k.op = call[c].op /\ k.run = call[c].run /\ k.status = call[c].status /\ k.step = "active"
    BY <1>0 DEF CallState
  <2> HIDE DEF k
  <2>4. (Counts(k) <=> Counts(call[c])) /\ \A r : Ends(k, r) <=> Ends(call[c], r)
    BY <1>0, <2>1, <2>2, <2>3 DEF Counts, Ends
  <2>5. troubles' \in Nat /\ troubles <= troubles'
    BY <2>1, Sizes
  <2> QED BY <2>1, <2>2, <2>4, <2>5, QuietCounts
<1>5. CASE SetActive(c)
  <2> DEFINE k == [call[c] EXCEPT !.step = "oldest"]
  <2>1. /\ call[c].step = "active" /\ Goto(c, "oldest")
        /\ UNCHANGED <<phase, born, created, counted, owed, repeats, troubles>>
    BY <1>5 DEF SetActive, At
  <2>2. call' = [call EXCEPT ![c] = k] /\ k \in CallState
    BY <1>0, <2>1, InProgress, GotoIs
  <2>3. /\ k.op = call[c].op /\ k.run = call[c].run /\ k.status = call[c].status /\ k.step = "oldest"
    BY <1>0 DEF CallState
  <2> HIDE DEF k
  <2>4. (Counts(k) <=> Counts(call[c])) /\ \A r : Ends(k, r) <=> Ends(call[c], r)
    BY <1>0, <2>1, <2>2, <2>3 DEF Counts, Ends
  <2>5. troubles' \in Nat /\ troubles <= troubles'
    BY <2>1, Sizes
  <2> QED BY <2>1, <2>2, <2>4, <2>5, QuietCounts
<1>3. CASE SetOldest(c)
  <2> DEFINE k == Refreshed(call[c])
  <2>1. /\ call[c].step = "oldest" /\ call' = [call EXCEPT ![c] = k]
        /\ UNCHANGED <<phase, born, created, counted, owed, repeats, troubles>>
    BY <1>3, SetOldestIs
  <2>2. \/ k = None /\ ~(call[c].op = "cancel" /\ call[c].status \in Decided)
        \/ /\ k \in CallState /\ k.op = call[c].op /\ k.run = call[c].run /\ k.status = call[c].status
           /\ \/ k.op = "cancel" /\ k.status \in Decided /\ k.step = "end"
              \/ k.op # "cancel" /\ k.step = "answer"
    BY <1>0, RefreshedIs
  <2> HIDE DEF k
  <2>3. (Counts(k) <=> Counts(call[c])) /\ \A r : Ends(k, r) <=> Ends(call[c], r)
    BY <1>0, <2>1, <2>2 DEF Counts, Ends
  <2>5. troubles' \in Nat /\ troubles <= troubles'
    BY <2>1, Sizes
  <2> QED BY <2>1, <2>2, <2>3, <2>5, QuietCounts
<1>4. CASE RecordEnded(c)
  <2> DEFINE s == call[c].run
  <2>1. /\ call[c].step = "end" /\ call' = [call EXCEPT ![c] = None] /\ CountEnd(s)
        /\ UNCHANGED <<phase, born, created, owed, repeats, troubles>>
    BY <1>4 DEF RecordEnded, At
  <2>2. CallOK(call[c], phase, Len(born))
    BY <1>0, InProgress
  <2>3. call[c].op = "cancel" /\ call[c].status \in Decided /\ s \in Runs
    BY <1>0, <2>1, <2>2 DEF CallOK
  <2> HIDE DEF s
  <2>5. ~Counts(None) /\ ~Counts(call[c]) /\ \A r : ~Ends(None, r) /\ (Ends(call[c], r) <=> r = s)
    BY <1>0, <2>1, <2>3 DEF Counts, Ends, s
  <2>6. Counting' = Counting
    BY <2>1, <2>5, CallStays
  <2>7. counted' = [counted EXCEPT ![s] = @ + 1]
    BY <2>1 DEF CountEnd
  <2>8. ASSUME NEW r \in Runs
        PROVE  IsFiniteSet(Ending(r)') /\ Told(r)' = Told(r)
    <3>1. Ending(r) \ {c} = Ending(r)' \ {c} /\ (c \in Ending(r) <=> r = s) /\ c \notin Ending(r)'
      BY <2>1, <2>5, CallMoves
    <3>2. IsFiniteSet(Ending(r)')
          /\ Cardinality(Ending(r)') = Cardinality(Ending(r)) - (IF r = s THEN 1 ELSE 0)
      BY <3>1, SetMoves, Sizes DEF CountsOK
    <3>3. counted'[r] = counted[r] + (IF r = s THEN 1 ELSE 0)
      BY <2>7, Sizes DEF PlaneOK, TypesOK
    <3>4. counted[r] \in Nat /\ Cardinality(Ending(r)) \in Nat /\ owed' = owed
      BY <2>1, Sizes
    <3> QED BY <3>2, <3>3, <3>4 DEF Told
  <2> QED BY <2>1, <2>6, <2>8 DEF CountsOK
<1> QED BY <1>1, <1>2, <1>3, <1>4, <1>5, CountsRecordCreated DEF Serve

LEMMA CountsFinish ==
  ASSUME PlaneOK, CountsOK, NEW c \in Calls, Finish(c),
         UNCHANGED <<phase, born, created, counted, owed, repeats>>,
         troubles' \in Nat, troubles <= troubles'
  PROVE  CountsOK'
<1>1. call[c].step = "answer" /\ call' = [call EXCEPT ![c] = None]
  BY DEF Finish, At
<1>2. ~Counts(call[c]) /\ ~Counts(None) /\ \A r : ~Ends(call[c], r) /\ ~Ends(None, r)
  BY <1>1 DEF Counts, Ends
<1> QED BY <1>1, <1>2, QuietCounts

\* A request that fails leaves out one count at most: that of the run it created, or that
\* of the end it found.
LEMMA CountsRaises == \A c \in Calls : PlaneOK /\ CountsOK /\ ServeRaises(c) => CountsOK'
<1> SUFFICES ASSUME NEW c \in Calls, PlaneOK, CountsOK, ServeRaises(c)
             PROVE  CountsOK'
  OBVIOUS
<1>1. /\ call[c] # None /\ call' = [call EXCEPT ![c] = None] /\ troubles' = troubles + 1
      /\ UNCHANGED <<phase, born, created, counted, owed, repeats>>
  BY DEF ServeRaises
<1>2. ~Counts(None) /\ \A r : ~Ends(None, r)
  BY DEF Counts, Ends
<1>3. /\ IsFiniteSet(Counting') /\ Cardinality(Counting') \in Nat
      /\ Cardinality(Counting') <= Cardinality(Counting)
      /\ Cardinality(Counting) <= Cardinality(Counting') + 1
  <2>1. Counting \ {c} = Counting' \ {c} /\ c \notin Counting'
    BY <1>1, <1>2, CallMoves
  <2>2. /\ IsFiniteSet(Counting')
        /\ Cardinality(Counting') \in {Cardinality(Counting), Cardinality(Counting) - 1}
    BY <2>1, SetMoves DEF CountsOK
  <2> QED BY <2>2, FS_CardinalityType, Sizes
<1>4. ASSUME NEW r \in Runs
      PROVE  IsFiniteSet(Ending(r)') /\ Fair(phase'[r], Told(r)', repeats'[r], troubles')
  <2>1. Ending(r) \ {c} = Ending(r)' \ {c} /\ c \notin Ending(r)'
    BY <1>1, <1>2, CallMoves
  <2>2. /\ IsFiniteSet(Ending(r)')
        /\ Cardinality(Ending(r)') \in {Cardinality(Ending(r)), Cardinality(Ending(r)) - 1}
    BY <2>1, SetMoves DEF CountsOK
  <2>3. Cardinality(Ending(r)') \in Nat /\ Told(r)' \in Nat
    <3>1. Cardinality(Ending(r)') \in Nat /\ counted'[r] \in Nat
      BY <1>1, <2>2, FS_CardinalityType, Sizes
    <3> QED BY <3>1 DEF Told
  <2>4. Told(r)' <= Told(r) /\ Told(r) <= Told(r)' + 1
    <3>1. Cardinality(Ending(r)) \in Nat /\ counted[r] \in Nat
      BY Sizes
    <3>2. Told(r)' = Told(r) - Cardinality(Ending(r)) + Cardinality(Ending(r)')
      BY <1>1, <2>3, <3>1 DEF Told
    <3>3. Told(r) \in Nat
      BY Sizes
    <3> QED BY <2>2, <2>3, <3>1, <3>2, <3>3
  <2>5. /\ Fair(phase[r], Told(r), repeats[r], troubles) /\ phase' = phase /\ repeats' = repeats
        /\ repeats[r] \in Nat /\ troubles \in Nat /\ Told(r) \in Nat /\ troubles' = troubles + 1
    BY <1>1, Sizes DEF CountsOK
  <2>6. CASE phase[r] \notin Decided
    <3>1. Told(r) = 0 /\ repeats[r] = 0
      BY <2>5, <2>6 DEF Fair
    <3>2. Told(r)' = 0
      BY <2>3, <2>4, <3>1
    <3> QED BY <2>2, <2>5, <2>6, <3>1, <3>2 DEF Fair
  <2>7. CASE phase[r] \in Decided
    <3>1. Told(r) <= 1 + repeats[r] /\ (1 + repeats[r] <= Told(r) + troubles \/ Isolated)
      BY <2>5, <2>7 DEF Fair
    <3>2. Told(r)' <= 1 + repeats[r]
      BY <2>3, <2>4, <2>5, <3>1
    <3>3. 1 + repeats[r] <= Told(r) + troubles => 1 + repeats[r] <= Told(r)' + troubles'
      BY <2>3, <2>4, <2>5
    <3> QED BY <2>2, <2>5, <2>7, <3>1, <3>2, <3>3 DEF Fair
  <2> QED BY <2>6, <2>7
<1> QED BY <1>1, <1>3, <1>4, Sizes DEF CountsOK

LEMMA CountsPoll == \A c \in Calls : PlaneOK /\ CountsOK /\ ListRuns(c) => CountsOK'
<1> SUFFICES ASSUME NEW c \in Calls, PlaneOK, CountsOK, ListRuns(c)
             PROVE  CountsOK'
  OBVIOUS
<1> DEFINE k == [op |-> "list", run |-> None, status |-> None, step |-> "depth", seen |-> Listing]
<1>1. /\ call[c] = None /\ call' = [call EXCEPT ![c] = k]
      /\ UNCHANGED <<phase, born, created, counted, owed, repeats, troubles>>
  BY DEF ListRuns, Begin
<1>2. k \in CallState
  BY ListingIsHonest DEF PlaneOK, CallState
<1>3. ~Counts(k) /\ ~Counts(call[c]) /\ \A r : ~Ends(k, r) /\ ~Ends(call[c], r)
  BY <1>1 DEF Counts, Ends
<1> HIDE DEF k
<1>4. troubles' \in Nat /\ troubles <= troubles'
  BY <1>1, Sizes
<1> QED BY <1>1, <1>2, <1>3, <1>4, QuietCounts

LEMMA CountsCreate == \A c \in Calls, r \in Runs : PlaneOK /\ CountsOK /\ CreateRun(c, r) => CountsOK'
<1> SUFFICES ASSUME NEW c \in Calls, NEW s \in Runs, PlaneOK, CountsOK, CreateRun(c, s)
             PROVE  CountsOK'
  OBVIOUS
<1> DEFINE k == [op |-> "create", run |-> s, status |-> "queued", step |-> "count", seen |-> <<>>]
<1>1. /\ call[c] = None /\ call' = [call EXCEPT ![c] = k]
      /\ phase[s] = "absent" /\ phase' = [phase EXCEPT ![s] = "queued"]
      /\ born' = Append(born, s)
      /\ UNCHANGED <<created, counted, owed, repeats, troubles>>
  BY DEF CreateRun, Begin, Moves
<1>2. k \in CallState
  BY EmptySeq DEF CallState
<1>3. Counts(k) /\ ~Counts(call[c]) /\ \A r : ~Ends(k, r) /\ ~Ends(call[c], r)
  BY <1>1, <1>2 DEF Counts, Ends
<1> HIDE DEF k
<1>4. IsFiniteSet(Counting') /\ Cardinality(Counting') = Cardinality(Counting) + 1
  <2>1. c \notin Counting /\ c \in Counting' /\ Counting \ {c} = Counting' \ {c}
    BY <1>1, <1>2, <1>3, CallMoves
  <2> QED BY <2>1, SetMoves DEF CountsOK
<1>5. Len(born') = Len(born) + 1
  BY <1>1, AppendProperties DEF PlaneOK, TypesOK
<1>6. \A r \in Runs : Ending(r)' = Ending(r)
  BY <1>1, <1>2, <1>3, CallStays
<1>7. \A r \in Runs : phase'[r] \in Decided <=> phase[r] \in Decided
  BY <1>1 DEF PlaneOK, TypesOK, Decided
<1>8. /\ created' + Cardinality(Counting') <= Len(born')
      /\ Len(born') <= created' + Cardinality(Counting') + troubles'
  BY <1>1, <1>4, <1>5, Sizes DEF CountsOK
<1>9. \A r \in Runs : IsFiniteSet(Ending(r)') /\ Fair(phase'[r], Told(r)', repeats'[r], troubles')
  BY <1>1, <1>6, <1>7 DEF CountsOK, Told, Fair
<1> QED BY <1>4, <1>8, <1>9 DEF CountsOK

LEMMA CountsCancel == \A c \in Calls, r \in Runs : PlaneOK /\ CountsOK /\ CancelRun(c, r) => CountsOK'
<1> SUFFICES ASSUME NEW c \in Calls, NEW s \in Runs, PlaneOK, CountsOK, CancelRun(c, s)
             PROVE  CountsOK'
  OBVIOUS
<1> DEFINE k == [op |-> "cancel", run |-> s, status |-> phase'[s], step |-> "list", seen |-> <<>>]
           W == phase'[s] \in Decided
<1>1. /\ call[c] = None /\ call' = [call EXCEPT ![c] = k]
      /\ UNCHANGED <<born, created, counted, owed, troubles>>
  BY DEF CancelRun, Begin
<1>2. /\ \/ phase[s] = "queued" /\ phase' = [phase EXCEPT ![s] = "cancelled"] /\ repeats' = repeats
         \/ phase[s] = "active" /\ phase' = [phase EXCEPT ![s] = "active"] /\ repeats' = repeats
         \/ /\ phase[s] \in Decided /\ phase' = [phase EXCEPT ![s] = phase[s]]
            /\ repeats' = [repeats EXCEPT ![s] = @ + 1]
  BY DEF CancelRun, Moves
<1>3. phase'[s] \in {"active"} \union Decided /\ \A r \in Runs : r # s => phase'[r] = phase[r]
  BY <1>2 DEF PlaneOK, TypesOK, Decided
<1>4. k \in CallState
  BY <1>3, EmptySeq DEF CallState
<1>5. ~Counts(k) /\ ~Counts(call[c]) /\ \A r : ~Ends(call[c], r) /\ (Ends(k, r) <=> r = s /\ W)
  <2>1. k # None /\ k.op = "cancel" /\ k.run = s /\ k.step = "list" /\ k.status = phase'[s]
    BY <1>4
  <2> HIDE DEF k
  <2>2. ~Counts(k) /\ ~Counts(call[c]) /\ \A r : ~Ends(call[c], r)
    BY <1>1, <2>1 DEF Counts, Ends
  <2>3. ASSUME NEW r
        PROVE  Ends(k, r) <=> r = s /\ W
    BY <2>1 DEF Ends
  <2> QED BY <2>2, <2>3
<1> HIDE DEF k
<1>6. Counting' = Counting
  BY <1>1, <1>4, <1>5, CallStays
<1>7. ASSUME NEW r \in Runs
      PROVE  IsFiniteSet(Ending(r)') /\ Fair(phase'[r], Told(r)', repeats'[r], troubles')
  <2>1. Ending(r) \ {c} = Ending(r)' \ {c} /\ c \notin Ending(r) /\ (c \in Ending(r)' <=> r = s /\ W)
    BY <1>1, <1>4, <1>5, CallMoves
  <2>2. IsFiniteSet(Ending(r)')
        /\ Cardinality(Ending(r)') = Cardinality(Ending(r)) + (IF r = s /\ W THEN 1 ELSE 0)
    <3>1. IsFiniteSet(Ending(r)) /\ Cardinality(Ending(r)) \in Nat
      BY Sizes DEF CountsOK
    <3> HIDE DEF W
    <3>2. CASE r = s /\ W
      <4>1. c \in Ending(r)' /\ c \notin Ending(r)
        BY <2>1, <3>2
      <4> QED BY <2>1, <3>1, <3>2, <4>1, SetMoves
    <3>3. CASE ~(r = s /\ W)
      <4>1. Ending(r)' = Ending(r)
        BY <2>1, <3>3
      <4> QED BY <3>1, <3>3, <4>1
    <3> QED BY <3>2, <3>3
  <2>3. Told(r)' = Told(r) + (IF r = s /\ W THEN 1 ELSE 0) /\ Told(r) \in Nat
    <3> HIDE DEF W
    <3>1. /\ Cardinality(Ending(r)) \in Nat /\ counted[r] \in Nat /\ Told(r) \in Nat
          /\ counted' = counted /\ owed' = owed
      BY <1>1, Sizes
    <3>2. Told(r)' = Told(r) - Cardinality(Ending(r)) + Cardinality(Ending(r)')
      BY <2>2, <3>1 DEF Told
    <3> QED BY <2>2, <3>1, <3>2
  <2>4. Fair(phase[r], Told(r), repeats[r], troubles) /\ troubles' = troubles /\ troubles \in Nat
    BY <1>1, Sizes DEF CountsOK
  <2>5. repeats[r] \in Nat /\ repeats \in [Runs -> Nat] /\ phase \in [Runs -> Phase]
    BY DEF PlaneOK, TypesOK
  <2>6. CASE r # s
    <3>1. phase'[r] = phase[r] /\ repeats'[r] = repeats[r] /\ Told(r)' = Told(r)
      BY <1>2, <1>3, <2>3, <2>5, <2>6
    <3> QED BY <2>2, <2>4, <3>1 DEF Fair
  <2>7. CASE r = s
    <3>1. CASE phase[s] = "queued"
      <4>1. phase'[s] = "cancelled" /\ repeats'[s] = repeats[s]
        BY <1>2, <2>5, <3>1 DEF Decided
      <4>2. Told(s) = 0 /\ repeats[s] = 0
        BY <2>4, <2>7, <3>1 DEF Fair, Decided
      <4>3. Told(s)' = 1
        BY <2>3, <2>7, <4>1, <4>2 DEF Decided
      <4>4. 1 <= 1 + troubles'
        BY <2>4
      <4> QED BY <2>2, <2>7, <4>1, <4>2, <4>3, <4>4 DEF Fair, Decided
    <3>2. CASE phase[s] = "active"
      <4>1. phase'[s] = "active" /\ repeats'[s] = repeats[s]
        BY <1>2, <2>5, <3>2 DEF Decided
      <4>2. Told(s) = 0 /\ repeats[s] = 0
        BY <2>4, <2>7, <3>2 DEF Fair, Decided
      <4>3. Told(s)' = 0
        BY <2>3, <2>7, <4>1, <4>2 DEF Decided
      <4> QED BY <2>2, <2>7, <4>1, <4>2, <4>3 DEF Fair, Decided
    <3>3. CASE phase[s] \in Decided
      <4>1. phase'[s] = phase[s] /\ repeats'[s] = repeats[s] + 1
        BY <1>2, <2>5, <3>3 DEF Decided
      <4>2. Told(s) <= 1 + repeats[s] /\ (1 + repeats[s] <= Told(s) + troubles \/ Isolated)
        BY <2>4, <2>7, <3>3 DEF Fair
      <4>3. Told(s)' = Told(s) + 1
        BY <2>3, <2>7, <3>3, <4>1
      <4>4. Told(s)' <= 1 + repeats'[s] /\ (1 + repeats'[s] <= Told(s)' + troubles' \/ Isolated)
        BY <2>3, <2>4, <2>5, <2>7, <4>1, <4>2, <4>3
      <4> QED BY <2>2, <2>7, <3>3, <4>1, <4>4 DEF Fair
    <3> QED BY <1>2, <3>1, <3>2, <3>3
  <2> QED BY <2>6, <2>7
<1> QED BY <1>1, <1>6, <1>7 DEF CountsOK

\* Workers answer no calls.
LEMMA CallsStay ==
  ASSUME UNCHANGED call
  PROVE  Counting' = Counting /\ \A r : Ending(r)' = Ending(r)
BY DEF Counting, Ending

\* A worker's step is about one run.
LEMMA OneRun ==
  ASSUME PlaneOK, CountsOK, NEW s \in Runs, UNCHANGED <<born, call, created, repeats>>,
         \A r \in Runs : r # s =>
           phase'[r] = phase[r] /\ counted'[r] = counted[r] /\ (r \in owed' <=> r \in owed),
         troubles' \in Nat, troubles <= troubles',
         Fair(phase'[s], Told(s)', repeats[s], troubles')
  PROVE  CountsOK'
<1>1. Counting' = Counting /\ \A r : Ending(r)' = Ending(r)
  BY CallsStay
<1>2. ASSUME NEW r \in Runs
      PROVE  IsFiniteSet(Ending(r)') /\ Fair(phase'[r], Told(r)', repeats'[r], troubles')
  <2>1. IsFiniteSet(Ending(r)') /\ Fair(phase[r], Told(r), repeats[r], troubles)
    BY <1>1 DEF CountsOK
  <2>2. CASE r = s
    BY <2>1, <2>2
  <2>3. CASE r # s
    <3>1. Told(r)' = Told(r)
      BY <1>1, <2>3 DEF Told
    <3>2. phase'[r] = phase[r] /\ repeats' = repeats
      BY <2>3
    <3> QED BY <2>1, <3>1, <3>2, FairLasts, Sizes
  <2> QED BY <2>2, <2>3
<1>3. Len(born) <= created + Cardinality(Counting) + troubles'
  BY Sizes DEF CountsOK
<1> QED BY <1>1, <1>2, <1>3 DEF CountsOK

LEMMA CountsWork == \A r \in Runs : PlaneOK /\ CountsOK /\ Work(r) => CountsOK'
<1> SUFFICES ASSUME NEW s \in Runs, PlaneOK, CountsOK, Work(s)
             PROVE  CountsOK'
  OBVIOUS
<1> DEFINE n == Cardinality(Ending(s))
<1>1. /\ n \in Nat /\ counted[s] \in Nat /\ repeats[s] \in Nat /\ troubles \in Nat
      /\ phase \in [Runs -> Phase] /\ counted \in [Runs -> Nat] /\ owed \in SUBSET Runs
  BY Sizes DEF PlaneOK, TypesOK
<1>2. Fair(phase[s], Told(s), repeats[s], troubles) /\ Told(s) = counted[s] + (IF s \in owed THEN 1 ELSE 0) + n
  BY DEF CountsOK, Told
<1>3. ASSUME UNCHANGED call
      PROVE  Told(s)' = counted'[s] + (IF s \in owed' THEN 1 ELSE 0) + n
  BY <1>3, CallsStay DEF Told
<1> HIDE DEF n
<1>4. CASE Take(s)
  <2>1. /\ phase[s] \in {"queued", "active"} /\ phase' = [phase EXCEPT ![s] = phase'[s]]
        /\ phase'[s] \in {"queued", "active"}
        /\ UNCHANGED <<born, call, created, counted, owed, repeats, troubles>>
    BY <1>1, <1>4 DEF Take, Moves
  <2>2. Told(s)' = Told(s)
    BY <1>2, <1>3, <2>1
  <2>3. Fair(phase'[s], Told(s)', repeats[s], troubles')
    BY <1>2, <2>1, <2>2 DEF Fair, Decided
  <2> QED BY <1>1, <2>1, <2>3, OneRun
<1>5. CASE Settle(s)
  <2>1. PICK status \in Decided, counts \in BOOLEAN :
          /\ phase[s] = "active" /\ phase' = [phase EXCEPT ![s] = status]
          /\ ~Isolated => counts
          /\ owed' = IF counts THEN owed \union {s} ELSE owed
          /\ UNCHANGED <<born, call, created, counted, repeats, troubles>>
    BY <1>5 DEF Settle, Moves
  <2>2. Told(s) = 0 /\ repeats[s] = 0
    BY <1>2, <2>1 DEF Fair, Decided
  <2>3. counted[s] = 0 /\ s \notin owed /\ n = 0
    BY <1>1, <1>2, <2>2
  <2>4. Told(s)' = IF counts THEN 1 ELSE 0
    BY <1>3, <2>1, <2>3
  <2>5. phase'[s] = status
    BY <1>1, <2>1
  <2>6. Fair(phase'[s], Told(s)', repeats[s], troubles')
    BY <2>1, <2>2, <2>4, <2>5, <1>1, ControlPlaneAssumption DEF Fair
  <2>7. \A r \in Runs : r # s => phase'[r] = phase[r] /\ (r \in owed' <=> r \in owed)
    BY <1>1, <2>1
  <2>8. troubles' \in Nat /\ troubles <= troubles'
    BY <2>1, Sizes
  <2> QED BY <2>1, <2>6, <2>7, <2>8, OneRun
<1>6. CASE RecordTerminal(s)
  <2>1. /\ s \in owed /\ owed' = owed \ {s} /\ counted' = [counted EXCEPT ![s] = @ + 1]
        /\ UNCHANGED <<phase, born, call, created, repeats, troubles>>
    BY <1>6 DEF RecordTerminal, CountEnd
  <2>2. Told(s)' = Told(s)
    BY <1>1, <1>2, <1>3, <2>1
  <2>3. Fair(phase'[s], Told(s)', repeats[s], troubles')
    BY <1>2, <2>1, <2>2 DEF Fair
  <2> QED BY <1>1, <2>1, <2>3, OneRun
<1>7. CASE WorkerDies(s)
  <2>1. /\ s \in owed /\ owed' = owed \ {s} /\ troubles' = troubles + 1
        /\ UNCHANGED <<phase, born, call, created, counted, repeats>>
    BY <1>7 DEF WorkerDies
  <2>2. Told(s)' = Told(s) - 1 /\ Told(s) \in Nat /\ Told(s) >= 1
    BY <1>1, <1>2, <1>3, <2>1
  <2>3. troubles' \in Nat /\ troubles' = troubles + 1 /\ troubles <= troubles'
    BY <1>1, <2>1
  <2>4. Fair(phase'[s], Told(s)', repeats[s], troubles')
    BY <1>1, <1>2, <2>1, <2>2, <2>3 DEF Fair
  <2> QED BY <1>1, <2>1, <2>3, <2>4, OneRun
<1> QED BY <1>4, <1>5, <1>6, <1>7 DEF Work

LEMMA CountsVisit == PlaneOK /\ CountsOK /\ Visit => CountsOK'
<1> SUFFICES ASSUME PlaneOK, CountsOK, Visit
             PROVE  CountsOK'
  OBVIOUS
<1>1. \A c \in Calls : call'[c] = Left(call[c])
  BY VisitIs
<1>2. ASSUME NEW c \in Calls
      PROVE  /\ Counts(Left(call[c])) <=> Counts(call[c])
             /\ \A r : Ends(Left(call[c]), r) <=> Ends(call[c], r)
  <2>1. call[c] \in CallState \union {None}
    BY DEF PlaneOK, TypesOK
  <2>2. CASE call[c] = None \/ call[c].op = "cancel"
    BY <2>2 DEF Left
  <2>3. CASE call[c] # None /\ call[c].op # "cancel" /\ call[c].step = "answer"
    BY <2>3 DEF Left, Counts, Ends
  <2>4. CASE call[c] # None /\ call[c].op # "cancel" /\ call[c].step # "answer"
    <3> DEFINE k == Glanced(call[c])
    <3>1. call[c] \in CallState /\ Left(call[c]) = k
      BY <2>1, <2>4 DEF Left
    <3>2. k \in CallState /\ k.op = "glance" /\ k.step = call[c].step
      BY <3>1, GlancedIs
    <3> HIDE DEF k
    <3> QED BY <2>4, <3>1, <3>2 DEF Counts, Ends
  <2> QED BY <2>2, <2>3, <2>4
<1>3. Counting' = Counting /\ \A r \in Runs : Ending(r)' = Ending(r)
  BY <1>1, <1>2 DEF Counting, Ending
<1>4. troubles' \in Nat /\ troubles <= troubles'
  <2>1. troubles' = troubles
    BY DEF Visit
  <2> QED BY <2>1, Sizes
<1> QED BY <1>3, <1>4, CountsLast DEF Visit

LEMMA CountsStep == PlaneOK /\ CountsOK /\ [DashboardNext]_vars => CountsOK'
<1> SUFFICES ASSUME PlaneOK, CountsOK, [DashboardNext]_vars
             PROVE  CountsOK'
  OBVIOUS
<1>1. CASE UNCHANGED vars
  <2>1. UNCHANGED <<phase, born, call, created, counted, owed, repeats, troubles>>
    BY <1>1 DEF vars, planeVars
  <2> QED BY <2>1, CallsStay, CountsLast, Sizes
<1>2. ASSUME NEW c \in Calls, Poll(c) \/ Behind(Serve(c))
      PROVE  CountsOK'
  BY <1>2, CountsPoll, CountsServe DEF Poll, Behind
<1>3. ASSUME NEW c \in Calls, Deliver(c)
      PROVE  CountsOK'
  <2>1. Answer(c)
    BY <1>3 DEF Deliver, ShowRuns, ShowCreated
  <2> QED BY <2>1, CountsFinish, Sizes DEF Answer
<1>4. ASSUME NEW c \in Calls, LoseAnswer(c)
      PROVE  CountsOK'
  BY <1>4, CountsFinish, Sizes DEF LoseAnswer
<1>7. ASSUME NEW c \in Calls, Behind(ServeRaises(c))
      PROVE  CountsOK'
  BY <1>7, CountsRaises DEF Behind
<1>5. ASSUME NEW c \in Calls, NEW r \in Runs, SubmitRun(c, r) \/ Behind(CancelRun(c, r))
      PROVE  CountsOK'
  BY <1>5, CountsCreate, CountsCancel DEF SubmitRun, Behind
<1>6. ASSUME NEW r \in Runs, Behind(Work(r))
      PROVE  CountsOK'
  BY <1>6, CountsWork DEF Behind
<1> QED BY <1>1, <1>2, <1>3, <1>4, <1>5, <1>6, <1>7, CountsVisit DEF DashboardNext

\* Nothing is left to count: no worker owes a count, and every call only awaits its answer.
Quiet == owed = {} /\ \A c \in Calls : call[c] # None => call[c].step = "answer"

\* Whenever nothing is left to count the counters tell what happened: each run created
\* is counted once, each end once and once more for every cancel request that came too
\* late, less one for each worker that died and each request that failed, but where workers
\* isolate their runs (the safety half of
\* CountsAreRight; record_run_created and record_run_terminal in core.py).
THEOREM CountersTell == DashboardSpec => [](Quiet => CountsTell)
<1>1. DashboardInit => CountsOK
  <2> SUFFICES ASSUME DashboardInit
               PROVE  CountsOK
    OBVIOUS
  <2>1. /\ phase = [r \in Runs |-> "absent"] /\ born = <<>> /\ call = [c \in Calls |-> None]
        /\ created = 0 /\ counted = [r \in Runs |-> 0] /\ owed = {} /\ repeats = [r \in Runs |-> 0]
        /\ troubles = 0
    BY DEF DashboardInit, PlaneInit
  <2>2. Counting = {} /\ \A r \in Runs : Ending(r) = {}
    BY <2>1 DEF Counting, Ending, Counts, Ends
  <2>3. Len(born) = 0 /\ IsFiniteSet({}) /\ Cardinality({}) = 0
    BY <2>1, EmptySeq, FS_EmptySet
  <2>4. ASSUME NEW r \in Runs
        PROVE  IsFiniteSet(Ending(r)) /\ Fair(phase[r], Told(r), repeats[r], troubles)
    <3>1. Ending(r) = {} /\ counted[r] = 0 /\ phase[r] = "absent" /\ repeats[r] = 0
      BY <2>1, <2>2
    <3>2. Told(r) = 0
      BY <2>1, <2>3, <3>1 DEF Told
    <3> QED BY <2>1, <2>3, <3>1, <3>2 DEF Fair, Decided
  <2>5. /\ IsFiniteSet(Counting) /\ created + Cardinality(Counting) <= Len(born)
        /\ Len(born) <= created + Cardinality(Counting) + troubles
    BY <2>1, <2>2, <2>3
  <2> QED BY <2>4, <2>5 DEF CountsOK
<1>2. PlaneOK /\ CountsOK => (Quiet => CountsTell)
  <2> SUFFICES ASSUME PlaneOK, CountsOK, Quiet
               PROVE  CountsTell
    OBVIOUS
  <2>1. Counting = {} /\ \A r \in Runs : Ending(r) = {} /\ r \notin owed
    BY DEF Quiet, Counting, Ending, Counts, Ends
  <2>2. created <= Len(born) /\ Len(born) <= created + troubles
    BY <2>1, FS_EmptySet, Sizes DEF CountsOK
  <2>3. ASSUME NEW r \in Runs
        PROVE  Told(r) = counted[r]
    <3>1. Ending(r) = {} /\ Cardinality({}) = 0 /\ counted[r] \in Nat
      BY <2>1, FS_EmptySet, Sizes
    <3> QED BY <2>1, <3>1 DEF Told
  <2>4. \A r \in With(Decided) :
          counted[r] <= 1 + repeats[r] /\ (1 + repeats[r] <= counted[r] + troubles \/ Isolated)
    BY <2>3 DEF With, CountsOK, Fair
  <2> QED BY <2>2, <2>4 DEF CountsTell
<1> QED BY <1>1, <1>2, PlaneInitially, PlaneStep, CountsStep, PTL DEF DashboardSpec
=============================================================================
