------------------------------ MODULE BullQueue ------------------------------
(***************************************************************************)
(* One Bull queue as branivo-api uses it: jobs are added under a caller's  *)
(* jobId, a worker takes a job under a lock, a handler that returns        *)
(* completes the job, a handler that throws sends it back until the        *)
(* attempts of queue.module.ts are used up.  A job whose lock is no longer *)
(* renewed (its process died, or its event loop was blocked) is stalled:   *)
(* Bull hands it to another worker, although the first one may still run.  *)
(*                                                                         *)
(* The module has no behaviour of its own.  The components that consume a  *)
(* queue extend it and put their handlers between Take and Complete.       *)
(***************************************************************************)
EXTENDS Naturals, FiniteSets

CONSTANTS
  Jobs,         \* job identifiers
  Workers,      \* processes that consume the queue
  None,         \* no worker, no job
  MaxAttempts,  \* defaultJobOptions.attempts
  MaxStalls     \* Bull's maxStalledCount, which the code leaves at 1

ASSUME QueueAssumption ==
  /\ None \notin Workers
  /\ None \notin Jobs
  /\ MaxAttempts \in Nat \ {0}
  /\ MaxStalls \in Nat

VARIABLES
  job,     \* job[j]: where Redis holds job j
  tries,   \* tries[j]: attemptsMade
  stalls,  \* stalls[j]: how often j was found stalled
  lock     \* lock[j]: the worker holding the lock of an active job

queueVars == <<job, tries, stalls, lock>>

JobState == {"absent", "waiting", "active", "completed", "failed"}

QueueTypeOK ==
  /\ job \in [Jobs -> JobState]
  /\ tries \in [Jobs -> 0..MaxAttempts]
  /\ stalls \in [Jobs -> 0..(MaxStalls + 1)]
  /\ lock \in [Jobs -> Workers \union {None}]

QueueInit ==
  /\ job = [j \in Jobs |-> "absent"]
  /\ tries = [j \in Jobs |-> 0]
  /\ stalls = [j \in Jobs |-> 0]
  /\ lock = [j \in Jobs |-> None]

(* queue.add(name, data, {jobId: j}): a jobId Redis still knows is ignored. *)
Add(j) ==
  /\ job' = [job EXCEPT ![j] = IF @ = "absent" THEN "waiting" ELSE @]
  /\ UNCHANGED <<tries, stalls, lock>>

Take(w, j) ==
  /\ job[j] = "waiting"
  /\ job' = [job EXCEPT ![j] = "active"]
  /\ lock' = [lock EXCEPT ![j] = w]
  /\ UNCHANGED <<tries, stalls>>

(* The handler returned.  A worker that lost its lock changes nothing. *)
Complete(w, j) ==
  IF lock[j] = w
  THEN /\ job' = [job EXCEPT ![j] = "completed"]
       /\ lock' = [lock EXCEPT ![j] = None]
       /\ UNCHANGED <<tries, stalls>>
  ELSE UNCHANGED queueVars

(* The handler threw: retry with backoff, or the dead letter set. *)
Throw(w, j) ==
  IF lock[j] = w
  THEN /\ tries' = [tries EXCEPT ![j] = @ + 1]
       /\ job' = [job EXCEPT ![j] =
                    IF tries[j] + 1 < MaxAttempts THEN "waiting" ELSE "failed"]
       /\ lock' = [lock EXCEPT ![j] = None]
       /\ UNCHANGED stalls
  ELSE UNCHANGED queueVars

(* The stalled-job checker takes the lock away. *)
Reclaim(j) ==
  /\ job[j] = "active"
  /\ stalls' = [stalls EXCEPT ![j] = @ + 1]
  /\ job' = [job EXCEPT ![j] = IF stalls[j] < MaxStalls THEN "waiting" ELSE "failed"]
  /\ lock' = [lock EXCEPT ![j] = None]
  /\ UNCHANGED tries

(* removeOnComplete / removeOnFail: a finished job leaves Redis, and its   *)
(* jobId can be added again.                                               *)
Forget(j) ==
  /\ job[j] \in {"completed", "failed"}
  /\ job' = [job EXCEPT ![j] = "absent"]
  /\ tries' = [tries EXCEPT ![j] = 0]
  /\ stalls' = [stalls EXCEPT ![j] = 0]
  /\ UNCHANGED lock
=============================================================================
