--------------------------- MODULE JobQueueProofs ---------------------------
(***************************************************************************)
(* Lemmas about the queue, shared by the proofs of its producers and       *)
(* consumers.                                                              *)
(***************************************************************************)
EXTENDS JobQueue, TLAPS

\* Each queue operation keeps the queue well typed.
LEMMA InsertType ==
  ASSUME QueueTypeOK, NEW i \in Id, NEW delay \in Int, NEW t \in 0..Horizon,
         Insert(i, delay, t)
  PROVE  QueueTypeOK'
<1>1. Capped(t + delay) \in Int
  BY QueueAssumption DEF Capped
<1>2. delay > 0 => Capped(t + delay) \in 0..Horizon
  BY QueueAssumption DEF Capped
<1>3. job' \in [Id -> JobState] /\ lock' \in [Id -> Worker \cup {NoWorker}]
  BY DEF QueueTypeOK, Insert, JobState
<1>4. fireAt' \in [Id -> 0..Horizon]
  BY <1>2, QueueAssumption DEF QueueTypeOK, Insert
<1>5. stalls' \in [Id -> 0..MaxStalls]
  BY QueueAssumption DEF QueueTypeOK, Insert
<1> QED BY <1>3, <1>4, <1>5 DEF QueueTypeOK

LEMMA ClearType ==
  ASSUME QueueTypeOK, NEW i \in Id, Clear(i)
  PROVE  QueueTypeOK'
BY QueueAssumption DEF QueueTypeOK, Clear, JobState

LEMMA PromoteType ==
  ASSUME QueueTypeOK, NEW i \in Id, NEW t \in 0..Horizon, Promote(i, t)
  PROVE  QueueTypeOK'
BY QueueAssumption DEF QueueTypeOK, Promote, JobState

LEMMA AcquireType ==
  ASSUME QueueTypeOK, NEW i \in Id, NEW w \in Worker, Acquire(i, w)
  PROVE  QueueTypeOK'
BY DEF QueueTypeOK, Acquire, JobState

LEMMA ReleaseType ==
  ASSUME QueueTypeOK, NEW i, NEW w \in Worker,
         NEW outcome \in {"completed", "failed"}, Release(i, w, outcome)
  PROVE  QueueTypeOK'
BY DEF QueueTypeOK, Release, JobState, queueVars

LEMMA AbandonType ==
  ASSUME QueueTypeOK, NEW i, NEW w \in Worker, Abandon(i, w)
  PROVE  QueueTypeOK'
BY DEF QueueTypeOK, Abandon

LEMMA StallType ==
  ASSUME QueueTypeOK, NEW i \in Id, Stall(i)
  PROVE  QueueTypeOK'
BY QueueAssumption DEF QueueTypeOK, Stall, JobState

LEMMA RetryType ==
  ASSUME QueueTypeOK, NEW i, NEW w \in Worker, Retry(i, w)
  PROVE  QueueTypeOK'
BY DEF QueueTypeOK, Retry, JobState, queueVars

LEMMA IdleQueueType ==
  ASSUME QueueTypeOK, UNCHANGED queueVars
  PROVE  QueueTypeOK'
BY DEF QueueTypeOK, queueVars
=============================================================================
