---------------------------- MODULE RunLifecycle ----------------------------
(***************************************************************************)
(* What the harness promises of a run, with no workers, leases or clock:   *)
(* a run is submitted once, attempted at most limit times, and decided     *)
(* once and for all.  The abstract specification WorkerFleet implements.   *)
(***************************************************************************)
EXTENDS Naturals

CONSTANTS Runs, MaxAttempts

VARIABLES
  phase,     \* absent, queued, active, completed, failed or cancelled
  attempts,  \* how often the run was handed to a worker
  limit,     \* how often that may happen
  asked      \* somebody asked to cancel the run

lifeVars == <<phase, attempts, limit, asked>>

LifeInit ==
  /\ phase = [r \in Runs |-> "absent"]
  /\ attempts = [r \in Runs |-> 0]
  /\ limit = [r \in Runs |-> 0]
  /\ asked = [r \in Runs |-> FALSE]

Moves(r, from, to) == phase[r] \in from /\ phase' = [phase EXCEPT ![r] = to]

Submit(r, n) ==
  /\ Moves(r, {"absent"}, "queued")
  /\ limit' = [limit EXCEPT ![r] = n]
  /\ UNCHANGED <<attempts, asked>>

\* The first attempt, a retry, or the attempt that replaces a lost worker's.
Attempt(r) ==
  /\ Moves(r, {"queued", "active"}, "active")
  /\ attempts[r] < limit[r]
  /\ attempts' = [attempts EXCEPT ![r] = @ + 1]
  /\ UNCHANGED <<limit, asked>>

\* Before a worker has the run a cancel request decides it, after that it asks.
Cancel(r) ==
  /\ \/ Moves(r, {"queued"}, "cancelled")
     \/ Moves(r, {"active"}, "active")
  /\ asked' = [asked EXCEPT ![r] = TRUE]
  /\ UNCHANGED <<attempts, limit>>

\* A failed attempt goes back to the queue only if another one may follow.
Retry(r) ==
  /\ Moves(r, {"active"}, "queued")
  /\ attempts[r] < limit[r]
  /\ UNCHANGED <<attempts, limit, asked>>

\* A run ends as cancelled only if somebody asked for it.
Decide(r) ==
  /\ \/ Moves(r, {"active"}, "completed")
     \/ Moves(r, {"active"}, "failed")
     \/ asked[r] /\ Moves(r, {"active"}, "cancelled")
  /\ UNCHANGED <<attempts, limit, asked>>

LifeNext ==
  \E r \in Runs :
    \/ \E n \in 1 .. MaxAttempts : Submit(r, n)
    \/ Attempt(r)
    \/ Cancel(r)
    \/ Retry(r)
    \/ Decide(r)

LifeSpec == LifeInit /\ [][LifeNext]_lifeVars
=============================================================================
