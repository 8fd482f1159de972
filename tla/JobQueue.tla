------------------------------ MODULE JobQueue ------------------------------
(***************************************************************************)
(* A BullMQ queue, as this repository uses one: every job has an id chosen *)
(* by the producer, the queue holds at most one job per id, and a finished *)
(* job keeps occupying its id until it is removed or ages out.             *)
(*                                                                         *)
(* External code.  What is modelled is what lib/queues.ts,                 *)
(* queueWorkers.ts and the services rely on: delayed jobs and their        *)
(* promotion, the lock a worker holds on an active job, stalled jobs       *)
(* being handed to another worker while the first may still be running,    *)
(* and a Redis that can lose a job altogether.                             *)
(***************************************************************************)
EXTENDS Integers

CONSTANTS
  Id,        \* the job ids a producer may use
  Worker,    \* worker slots, over every process that consumes the queue
  NoWorker,  \* the value of a lock nobody holds
  MaxStalls, \* BullMQ's maxStalledCount (the repository keeps the default, 1)
  Horizon    \* the last instant of the model's clock

ASSUME QueueAssumption ==
  /\ NoWorker \notin Worker
  /\ MaxStalls \in Nat
  /\ Horizon \in Nat

VARIABLES
  job,    \* what Redis holds under each id
  fireAt, \* when a delayed job becomes due; 0 for any other job
  lock,   \* the worker whose token is on the active job
  stalls  \* how often the job was taken from a worker that stopped renewing

queueVars == <<job, fireAt, lock, stalls>>

JobState == {"none", "delayed", "waiting", "active", "completed", "failed"}

QueueTypeOK ==
  /\ job \in [Id -> JobState]
  /\ fireAt \in [Id -> 0..Horizon]
  /\ lock \in [Id -> Worker \cup {NoWorker}]
  /\ stalls \in [Id -> 0..MaxStalls]

QueueInit ==
  /\ job = [i \in Id |-> "none"]
  /\ fireAt = [i \in Id |-> 0]
  /\ lock = [i \in Id |-> NoWorker]
  /\ stalls = [i \in Id |-> 0]

\* Nothing under this id would make the queue ignore an add.
Vacant(i) == job[i] \in {"none", "completed", "failed"}

\* An instant past the horizon is represented by the horizon.
Capped(t) == IF t > Horizon THEN Horizon ELSE t

\* A fresh job that is to wait for delay, counted from now.
Insert(i, delay, now) ==
  /\ job' = [job EXCEPT ![i] = IF delay > 0 THEN "delayed" ELSE "waiting"]
  /\ fireAt' = [fireAt EXCEPT ![i] = IF delay > 0 THEN Capped(now + delay) ELSE 0]
  /\ lock' = [lock EXCEPT ![i] = NoWorker]
  /\ stalls' = [stalls EXCEPT ![i] = 0]

\* The id is free again: the job was removed, aged out, or Redis lost it.
Clear(i) ==
  /\ job' = [job EXCEPT ![i] = "none"]
  /\ fireAt' = [fireAt EXCEPT ![i] = 0]
  /\ lock' = [lock EXCEPT ![i] = NoWorker]
  /\ stalls' = [stalls EXCEPT ![i] = 0]

\* job.remove(): refused, with an exception, while a worker's lock is on it.
Removable(i) == job[i] # "none" /\ lock[i] = NoWorker

\* A delayed job whose delay has elapsed becomes takeable.
Promote(i, now) ==
  /\ job[i] = "delayed"
  /\ fireAt[i] <= now
  /\ job' = [job EXCEPT ![i] = "waiting"]
  /\ fireAt' = [fireAt EXCEPT ![i] = 0]
  /\ UNCHANGED <<lock, stalls>>

Acquire(i, w) ==
  /\ job[i] = "waiting"
  /\ job' = [job EXCEPT ![i] = "active"]
  /\ lock' = [lock EXCEPT ![i] = w]
  /\ UNCHANGED <<fireAt, stalls>>

\* The processor returned (or threw): the outcome is written only by the
\* worker whose token is still on the job.
Release(i, w, outcome) ==
  IF job[i] = "active" /\ lock[i] = w
    THEN /\ job' = [job EXCEPT ![i] = outcome]
         /\ lock' = [lock EXCEPT ![i] = NoWorker]
         /\ UNCHANGED <<fireAt, stalls>>
    ELSE UNCHANGED queueVars

\* The processor threw and attempts are left: the job waits out its backoff.
Retry(i, w) ==
  IF job[i] = "active" /\ lock[i] = w
    THEN /\ job' = [job EXCEPT ![i] = "delayed"]
         /\ lock' = [lock EXCEPT ![i] = NoWorker]
         /\ UNCHANGED <<fireAt, stalls>>
    ELSE UNCHANGED queueVars

\* The worker's process is gone: its lock is no longer renewed and lapses.
Abandon(i, w) ==
  /\ lock' = [lock EXCEPT ![i] = IF @ = w THEN NoWorker ELSE @]
  /\ UNCHANGED <<job, fireAt, stalls>>

\* The stalled-job check moves an active job whose lock lapsed back to the
\* queue, or fails it when that has happened too often.
Stall(i) ==
  /\ job[i] = "active"
  /\ lock' = [lock EXCEPT ![i] = NoWorker]
  /\ IF stalls[i] < MaxStalls
       THEN /\ job' = [job EXCEPT ![i] = "waiting"]
            /\ stalls' = [stalls EXCEPT ![i] = @ + 1]
       ELSE /\ job' = [job EXCEPT ![i] = "failed"]
            /\ UNCHANGED stalls
  /\ UNCHANGED fireAt
=============================================================================
