---------------------------- MODULE ScheduledSend ----------------------------
(***************************************************************************)
(* Scheduled sends: services/schedule.ts, with the queue it uses           *)
(* (lib/queues.ts) and the workers that run it (queueWorkers.ts).          *)
(*                                                                         *)
(* The row in Postgres is the truth and the BullMQ job is only a trigger.  *)
(* A request writes the row and then queues the trigger; a worker reads    *)
(* the row, re-resolves its wall time, claims it, calls the provider once  *)
(* and records the outcome; a sweeper re-queues triggers that were lost.   *)
(* Every await of the code is a step boundary here: requests, workers,     *)
(* the sweeper, the queue, deploys and faults interleave between them.     *)
(*                                                                         *)
(* The demo user's rows are sample data that no path here touches, and     *)
(* every row the two schedule functions write has a wall time.             *)
(***************************************************************************)
EXTENDS JobQueue, FiniteSets

CONSTANTS
  NoRow,     \* "no task", for an idle worker
  Wall,      \* the wall times users ask for, in the reference zone rules
  Shift,     \* by how much a revision of the zone's rules moves an instant
  Lead,      \* SWEEP_LEAD_MS
  Backdate,  \* MAX_BACKDATE_MS
  MaxAhead,  \* MAX_HORIZON_MS
  Batch,     \* SWEEP_BATCH
  MaxFaults  \* bound on the crashes, losses and failed calls of one behaviour

Row == Id

ASSUME SendAssumption ==
  /\ NoRow \notin Row
  /\ Wall \subseteq Int /\ Shift \subseteq Int /\ 0 \in Shift
  /\ \A t \in Wall, s \in Shift : t + s \in 0..Horizon
  /\ Lead \in Nat /\ Backdate \in Nat /\ MaxAhead \in Nat
  /\ Batch \in Nat \ {0}
  /\ MaxFaults \in Nat

VARIABLES
  now,       \* the clock
  shift,     \* the zone rules the running processes were built with
  mailbox,   \* the one mailbox these rows send from
  status,    \* ScheduledEmail.status; "NONE" before, "DELETED" after the row
  sendAt,    \* ScheduledEmail.sendAt
  wall,      \* ScheduledEmail.localSendAt
  expecting, \* rows with expectsReply (these have a thread)
  attempts,  \* ScheduledEmail.attempts; a deleted row keeps its last value
  delivered, \* how many times the provider accepted the row's message
  reminded,  \* rows whose follow-up reminder was created
  adding,    \* the delay a schedule request has yet to queue its row with
  cancel,    \* how far a cancel request has got with the row
  sweep,     \* the rows a running sweep has read and has yet to re-queue
  sweepAsOf, \* the instant that sweep started
  pc,        \* where each worker is in runScheduledSend
  task,      \* the row each worker is running
  readAt,    \* the instant its job started, which is the run's "now"
  faults     \* faults so far

rowVars == <<status, sendAt, wall, expecting, attempts>>
outVars == <<delivered, reminded>>
apiVars == <<adding, cancel>>
sweepVars == <<sweep, sweepAsOf>>
workerVars == <<pc, task, readAt>>
envVars == <<now, shift, mailbox>>
vars == <<queueVars, rowVars, outVars, apiVars, sweepVars, workerVars, envVars,
          faults>>

Status ==
  {"NONE", "SCHEDULED", "SENDING", "SENT", "FAILED", "CANCELLED", "DELETED"}
Step ==
  {"idle", "read", "reschedule", "requeue", "claim", "prepare", "send",
   "record", "remind", "fail", "finish"}
Time == 0..Horizon
NotAdding == 0 - 1

TypeOK ==
  /\ QueueTypeOK
  /\ now \in Time /\ shift \in Shift
  /\ mailbox \in {"ACTIVE", "REVOKED", "GONE"}
  /\ status \in [Row -> Status]
  /\ sendAt \in [Row -> Time] /\ wall \in [Row -> Wall \cup {0}]
  /\ expecting \subseteq Row
  /\ attempts \in [Row -> 0..1]
  /\ delivered \in [Row -> Nat] /\ reminded \subseteq Row
  /\ adding \in [Row -> Time \cup {NotAdding}]
  /\ cancel \in [Row -> {"idle", "write", "remove"}]
  /\ sweep \subseteq Row \X Time /\ sweepAsOf \in Time
  /\ pc \in [Worker -> Step]
  /\ task \in [Worker -> Row \cup {NoRow}]
  /\ readAt \in [Worker -> Time]
  /\ faults \in 0..MaxFaults

Init ==
  /\ QueueInit
  /\ now = 0 /\ shift = 0 /\ mailbox = "ACTIVE"
  /\ status = [r \in Row |-> "NONE"]
  /\ sendAt = [r \in Row |-> 0] /\ wall = [r \in Row |-> 0]
  /\ expecting = {}
  /\ attempts = [r \in Row |-> 0]
  /\ delivered = [r \in Row |-> 0] /\ reminded = {}
  /\ adding = [r \in Row |-> NotAdding]
  /\ cancel = [r \in Row |-> "idle"]
  /\ sweep = {} /\ sweepAsOf = 0
  /\ pc = [w \in Worker |-> "idle"]
  /\ task = [w \in Worker |-> NoRow]
  /\ readAt = [w \in Worker |-> 0]
  /\ faults = 0

Fault == faults < MaxFaults /\ faults' = faults + 1

(***************************************************************************)
(* Helpers of schedule.ts.                                                 *)
(***************************************************************************)

\* zonedWallTimeToUtc, under the rules of the running processes.
Resolved(r) == wall[r] + shift

\* The UPDATE ... WHERE status = 'SCHEDULED' that every transition out of
\* SCHEDULED goes through.
FromScheduled(r, to) ==
  /\ status[r] = "SCHEDULED"
  /\ status' = [status EXCEPT ![r] = to]

\* The delay enqueueScheduledSend computes before it talks to the queue.
Delay(at, asOf) == IF at > asOf THEN at - asOf ELSE 0

\* Mutant of Enqueue: the finished job of an earlier run is not removed first.
EnqueueOverFinished(r, delay) ==
  IF job[r] = "none" THEN Insert(r, delay, now) ELSE UNCHANGED queueVars

\* The rest of it: a finished job is removed first, a live one is left.
Enqueue(r, delay) ==
  IF Vacant(r) THEN Insert(r, delay, now) ELSE UNCHANGED queueVars

(***************************************************************************)
(* Requests.                                                               *)
(***************************************************************************)

\* resolveSendAt accepts the time, the row is created; queueing comes next.
Create(r, t, replyExpected) ==
  /\ status[r] = "NONE"
  /\ now - Backdate <= t + shift /\ t + shift <= now + MaxAhead
  /\ status' = [status EXCEPT ![r] = "SCHEDULED"]
  /\ sendAt' = [sendAt EXCEPT ![r] = t + shift]
  /\ wall' = [wall EXCEPT ![r] = t]
  /\ expecting' = IF replyExpected THEN expecting \cup {r} ELSE expecting
  /\ adding' = [adding EXCEPT ![r] = Delay(t + shift, now)]
  /\ UNCHANGED <<queueVars, attempts, outVars, cancel, sweepVars, workerVars,
                 envVars, faults>>

\* A reply needs its thread, which goes with the mailbox.
ScheduleReply(r, t, replyExpected) ==
  /\ mailbox # "GONE"
  /\ Create(r, t, replyExpected)

\* A new message refuses a revoked mailbox and cannot carry a reminder.
ScheduleNewMessage(r, t) ==
  /\ mailbox = "ACTIVE"
  /\ Create(r, t, FALSE)

\* The request queues the trigger; the failure of that call is swallowed, and
\* an API process that dies here has the same effect.
QueueTrigger(r) ==
  /\ adding[r] # NotAdding
  /\ adding' = [adding EXCEPT ![r] = NotAdding]
  /\ \/ Enqueue(r, adding[r]) /\ UNCHANGED faults
     \/ Fault /\ UNCHANGED queueVars
  /\ UNCHANGED <<rowVars, outVars, cancel, sweepVars, workerVars, envVars>>

\* cancelScheduledEmail reads the row; any other status is a conflict.
CancelRead(r) ==
  /\ cancel[r] = "idle"
  /\ status[r] = "SCHEDULED"
  /\ cancel' = [cancel EXCEPT ![r] = "write"]
  /\ UNCHANGED <<queueVars, rowVars, outVars, adding, sweepVars, workerVars,
                 envVars, faults>>

\* Mutant of CancelWrite: the update is not conditional on the status.
CancelWriteById(r) ==
  /\ cancel[r] = "write"
  /\ status' = [status EXCEPT ![r] = IF @ = "DELETED" THEN @ ELSE "CANCELLED"]
  /\ cancel' = [cancel EXCEPT ![r] = "remove"]
  /\ UNCHANGED <<queueVars, sendAt, wall, expecting, attempts, outVars, adding,
                 sweepVars, workerVars, envVars, faults>>

\* The conditional update; zero rows means the send got there first.
CancelWrite(r) ==
  /\ cancel[r] = "write"
  /\ \/ /\ FromScheduled(r, "CANCELLED")
        /\ cancel' = [cancel EXCEPT ![r] = "remove"]
     \/ /\ status[r] # "SCHEDULED"
        /\ cancel' = [cancel EXCEPT ![r] = "idle"]
        /\ UNCHANGED status
  /\ UNCHANGED <<queueVars, sendAt, wall, expecting, attempts, outVars, adding,
                 sweepVars, workerVars, envVars, faults>>

\* Removing the job is a courtesy: a locked job cannot be, and Redis may fail.
CancelRemove(r) ==
  /\ cancel[r] = "remove"
  /\ cancel' = [cancel EXCEPT ![r] = "idle"]
  /\ \/ /\ IF Removable(r) THEN Clear(r) ELSE UNCHANGED queueVars
        /\ UNCHANGED faults
     \/ Fault /\ UNCHANGED queueVars
  /\ UNCHANGED <<rowVars, outVars, adding, sweepVars, workerVars, envVars>>

(***************************************************************************)
(* The worker: runScheduledSend, one step per await.                       *)
(***************************************************************************)

Goto(w, step) == pc' = [pc EXCEPT ![w] = step]

\* BullMQ hands a waiting job to an idle slot; the run fixes its "now".
Take(w, r) ==
  /\ pc[w] = "idle"
  /\ Acquire(r, w)
  /\ Goto(w, "read")
  /\ task' = [task EXCEPT ![w] = r]
  /\ readAt' = [readAt EXCEPT ![w] = now]
  /\ UNCHANGED <<rowVars, outVars, apiVars, sweepVars, envVars, faults>>

\* Mutant of Read: the stored instant is trusted, the wall time not re-resolved.
ReadStoredInstant(w) ==
  /\ pc[w] = "read"
  /\ LET r == task[w] IN
       \/ status[r] # "SCHEDULED" /\ Goto(w, "finish")
       \/ /\ status[r] = "SCHEDULED"
          /\ sendAt[r] - readAt[w] > Lead
          /\ Goto(w, "reschedule")
       \/ /\ status[r] = "SCHEDULED"
          /\ sendAt[r] - readAt[w] <= Lead
          /\ Goto(w, "claim")
  /\ UNCHANGED <<queueVars, rowVars, outVars, apiVars, sweepVars, task, readAt,
                 envVars, faults>>

\* The row is read and its wall time re-resolved.  A row that is gone or not
\* SCHEDULED ends the run; one whose time is still ahead is rescheduled.
Read(w) ==
  /\ pc[w] = "read"
  /\ LET r == task[w] IN
       \/ status[r] # "SCHEDULED" /\ Goto(w, "finish")
       \/ /\ status[r] = "SCHEDULED"
          /\ Resolved(r) - readAt[w] > Lead
          /\ Goto(w, "reschedule")
       \/ /\ status[r] = "SCHEDULED"
          /\ Resolved(r) - readAt[w] <= Lead
          /\ Goto(w, "claim")
  /\ UNCHANGED <<queueVars, rowVars, outVars, apiVars, sweepVars, task, readAt,
                 envVars, faults>>

\* The update of sendAt, conditional on the status.
Correct(r) ==
  sendAt' = [sendAt EXCEPT ![r] = IF status[r] = "SCHEDULED" THEN Resolved(r) ELSE @]

\* sendAt is corrected ...
Reschedule(w) ==
  /\ pc[w] = "reschedule"
  /\ Correct(task[w])
  /\ Goto(w, "requeue")
  /\ UNCHANGED <<queueVars, status, wall, expecting, attempts, outVars, apiVars,
                 sweepVars, task, readAt, envVars, faults>>

\* ... and the trigger queued again, from inside the job with the same id; a
\* failure of that is swallowed.
Requeue(w) ==
  /\ pc[w] = "requeue"
  /\ \/ /\ Enqueue(task[w], Delay(Resolved(task[w]), readAt[w]))
        /\ UNCHANGED faults
     \/ Fault /\ UNCHANGED queueVars
  /\ Goto(w, "finish")
  /\ UNCHANGED <<rowVars, outVars, apiVars, sweepVars, task, readAt, envVars>>

\* Mutant of Claim: the update names the row by id, not by status.
ClaimById(w) ==
  /\ pc[w] = "claim"
  /\ status[task[w]] # "DELETED"
  /\ status' = [status EXCEPT ![task[w]] = "SENDING"]
  /\ attempts' = [attempts EXCEPT ![task[w]] = @ + 1]
  /\ Goto(w, "prepare")
  /\ UNCHANGED <<queueVars, sendAt, wall, expecting, outVars, apiVars, sweepVars,
                 task, readAt, envVars, faults>>

\* The conditional update that takes the row.
Seize(r) ==
  /\ FromScheduled(r, "SENDING")
  /\ attempts' = [attempts EXCEPT ![r] = @ + 1]

\* The claim.  Zero rows updated ends the run quietly; unparseable recipients
\* end it in FAILED.
Claim(w) ==
  /\ pc[w] = "claim"
  /\ LET r == task[w] IN
       \/ /\ Seize(r)
          /\ \E step \in {"prepare", "fail"} : Goto(w, step)
       \/ /\ status[r] # "SCHEDULED"
          /\ Goto(w, "finish")
          /\ UNCHANGED <<status, attempts>>
  /\ UNCHANGED <<queueVars, sendAt, wall, expecting, outVars, apiVars, sweepVars,
                 task, readAt, envVars, faults>>

\* Mutant of Prepare: the reminder is created before the send.
PrepareReminderFirst(w) ==
  /\ pc[w] = "prepare"
  /\ mailbox = "ACTIVE"
  /\ Goto(w, "send")
  /\ reminded' = reminded \cup ({task[w]} \cap expecting)
  /\ UNCHANGED <<queueVars, rowVars, delivered, apiVars, sweepVars, task, readAt,
                 envVars, faults>>

\* The provider's access token and the threading headers: a mailbox revoked or
\* gone since has no token, and either read may fail.
Prepare(w) ==
  /\ pc[w] = "prepare"
  /\ \/ /\ mailbox = "ACTIVE"
        /\ status[task[w]] # "DELETED"
        /\ Goto(w, "send")
     \/ Goto(w, "fail")
  /\ UNCHANGED <<queueVars, rowVars, outVars, apiVars, sweepVars, task, readAt,
                 envVars, faults>>

\* The one provider call.  An error says nothing about acceptance: the answer
\* may be lost, or the call aborted, after the message went out.
Send(w) ==
  /\ pc[w] = "send"
  /\ \/ /\ delivered' = [delivered EXCEPT ![task[w]] = @ + 1]
        /\ \E step \in {"record", "fail"} : Goto(w, step)
     \/ /\ Goto(w, "fail")
        /\ UNCHANGED delivered
  /\ UNCHANGED <<queueVars, rowVars, reminded, apiVars, sweepVars, task, readAt,
                 envVars, faults>>

\* Mutant of Record: an upsert, which brings a deleted row back.
RecordUpsert(w) ==
  /\ pc[w] = "record"
  /\ status' = [status EXCEPT ![task[w]] = "SENT"]
  /\ Goto(w, IF task[w] \in expecting THEN "remind" ELSE "finish")
  /\ UNCHANGED <<queueVars, sendAt, wall, expecting, attempts, outVars, apiVars,
                 sweepVars, task, readAt, envVars, faults>>

\* SENT.  The update names the row by id only: it throws when the row has been
\* deleted meanwhile, as it does when the database fails, before the update took
\* effect or after it.
Record(w) ==
  /\ pc[w] = "record"
  /\ LET r == task[w] IN
       \/ /\ status[r] # "DELETED"
          /\ status' = [status EXCEPT ![r] = "SENT"]
          /\ \/ /\ Goto(w, IF r \in expecting THEN "remind" ELSE "finish")
                /\ UNCHANGED faults
             \/ Fault /\ Goto(w, "fail")
       \/ /\ status[r] = "DELETED"
          /\ Goto(w, "fail")
          /\ UNCHANGED <<status, faults>>
       \/ Fault /\ Goto(w, "fail") /\ UNCHANGED status
  /\ UNCHANGED <<queueVars, sendAt, wall, expecting, attempts, outVars, apiVars,
                 sweepVars, task, readAt, envVars>>

\* tryCreateReminder: a failure is logged and swallowed.
Remind(w) ==
  /\ pc[w] = "remind"
  /\ \/ reminded' = reminded \cup {task[w]} /\ UNCHANGED faults
     \/ Fault /\ UNCHANGED reminded
  /\ Goto(w, "finish")
  /\ UNCHANGED <<queueVars, rowVars, delivered, apiVars, sweepVars, task, readAt,
                 envVars>>

\* markFailed: by id, whatever the status, even one that just became SENT; best
\* effort.
MarkFailed(w) ==
  /\ pc[w] = "fail"
  /\ LET r == task[w] IN
       \/ /\ status' = [status EXCEPT ![r] = IF @ = "DELETED" THEN @ ELSE "FAILED"]
          /\ UNCHANGED faults
       \/ Fault /\ UNCHANGED status
  /\ Goto(w, "finish")
  /\ UNCHANGED <<queueVars, sendAt, wall, expecting, attempts, outVars, apiVars,
                 sweepVars, task, readAt, envVars>>

GoIdle(w) ==
  /\ Goto(w, "idle")
  /\ task' = [task EXCEPT ![w] = NoRow]
  /\ readAt' = [readAt EXCEPT ![w] = 0]

\* The processor returns and BullMQ records a completed job.
Finish(w) ==
  /\ pc[w] = "finish"
  /\ Release(task[w], w, "completed")
  /\ GoIdle(w)
  /\ UNCHANGED <<rowVars, outVars, apiVars, sweepVars, envVars, faults>>

\* A database call outside the try block throws: the job fails, attempts 1.  An
\* update may have taken effect, only its answer being lost.
Throw(w) ==
  /\ pc[w] \in {"read", "reschedule", "claim"}
  /\ Fault
  /\ Release(task[w], w, "failed")
  /\ GoIdle(w)
  /\ \/ UNCHANGED <<status, sendAt, attempts>>
     \/ /\ pc[w] = "reschedule"
        /\ Correct(task[w])
        /\ UNCHANGED <<status, attempts>>
     \/ /\ pc[w] = "claim"
        /\ Seize(task[w])
        /\ UNCHANGED sendAt
  /\ UNCHANGED <<wall, expecting, outVars, apiVars, sweepVars, envVars>>

\* The worker's process dies, wherever it is.
Crash(w) ==
  /\ pc[w] # "idle"
  /\ Fault
  /\ Abandon(task[w], w)
  /\ GoIdle(w)
  /\ UNCHANGED <<rowVars, outVars, apiVars, sweepVars, envVars>>

(***************************************************************************)
(* The sweeper, one at a time, every minute.                               *)
(***************************************************************************)

\* SCHEDULED rows due within the lead; never a SENDING one.
Due == {r \in Row : status[r] = "SCHEDULED" /\ sendAt[r] <= now + Lead}

\* The query: the Batch earliest of the due rows, with their instants.
SweepRead ==
  /\ sweep = {} /\ Due # {}
  /\ \E S \in SUBSET Due :
       /\ Cardinality(S) <= Batch
       /\ Cardinality(S) = Batch \/ S = Due
       /\ \A r \in S, q \in Due \ S : sendAt[r] <= sendAt[q]
       /\ sweep' = {<<r, sendAt[r]>> : r \in S}
  /\ sweepAsOf' = now
  /\ UNCHANGED <<queueVars, rowVars, outVars, apiVars, workerVars, envVars,
                 faults>>

\* The loop over them, earliest first; an enqueue that fails is swallowed.
SweepEnqueue ==
  /\ \E p \in sweep :
       /\ \A q \in sweep : p[2] <= q[2]
       /\ sweep' = sweep \ {p}
       /\ \/ Enqueue(p[1], Delay(p[2], sweepAsOf)) /\ UNCHANGED faults
          \/ Fault /\ UNCHANGED queueVars
  /\ sweepAsOf' = IF sweep' = {} THEN 0 ELSE sweepAsOf
  /\ UNCHANGED <<rowVars, outVars, apiVars, workerVars, envVars>>

\* The process that sweeps dies; the next tick starts over.
SweepCrash ==
  /\ sweep # {}
  /\ Fault
  /\ sweep' = {} /\ sweepAsOf' = 0
  /\ UNCHANGED <<queueVars, rowVars, outVars, apiVars, workerVars, envVars>>

(***************************************************************************)
(* The queue's own steps.                                                  *)
(***************************************************************************)

PromoteJob(r) ==
  /\ Promote(r, now)
  /\ UNCHANGED <<rowVars, outVars, apiVars, sweepVars, workerVars, envVars, faults>>

\* An active job whose worker died is found stalled; a worker that is merely
\* slow to renew its lock is found stalled too, and goes on running.
StallJob(r) ==
  /\ Stall(r)
  /\ \/ lock[r] = NoWorker /\ UNCHANGED faults
     \/ lock[r] # NoWorker /\ Fault
  /\ UNCHANGED <<rowVars, outVars, apiVars, sweepVars, workerVars, envVars>>

\* removeOnComplete and removeOnFail eventually free a finished job's id.
ExpireJob(r) ==
  /\ job[r] \in {"completed", "failed"}
  /\ Clear(r)
  /\ UNCHANGED <<rowVars, outVars, apiVars, sweepVars, workerVars, envVars, faults>>

\* An eviction, a flush, a restart without persistence.
LoseJob(r) ==
  /\ job[r] \in {"delayed", "waiting", "active"}
  /\ Fault
  /\ Clear(r)
  /\ UNCHANGED <<rowVars, outVars, apiVars, sweepVars, workerVars, envVars>>

(***************************************************************************)
(* The environment.                                                        *)
(***************************************************************************)

Tick ==
  /\ now < Horizon
  /\ now' = now + 1
  /\ UNCHANGED <<queueVars, rowVars, outVars, apiVars, sweepVars, workerVars,
                 shift, mailbox, faults>>

\* A revision of the zone's rules comes with the runtime, so with a restart of
\* the processes: no run straddles it.
NewRules ==
  /\ \A w \in Worker : pc[w] = "idle"
  /\ \E s \in Shift \ {shift} : shift' = s
  /\ UNCHANGED <<queueVars, rowVars, outVars, apiVars, sweepVars, workerVars,
                 now, mailbox, faults>>

\* The grant is withdrawn, or the mailbox connected again (afresh, if gone).
Regrant ==
  /\ mailbox' = IF mailbox = "ACTIVE" THEN "REVOKED" ELSE "ACTIVE"
  /\ UNCHANGED <<queueVars, rowVars, outVars, apiVars, sweepVars, workerVars,
                 now, shift, faults>>

\* Disconnecting deletes the mailbox and, by cascade, every row of it.
Disconnect ==
  /\ mailbox # "GONE"
  /\ mailbox' = "GONE"
  /\ status' = [r \in Row |-> IF status[r] = "NONE" THEN "NONE" ELSE "DELETED"]
  /\ UNCHANGED <<queueVars, sendAt, wall, expecting, attempts, outVars, apiVars,
                 sweepVars, workerVars, now, shift, faults>>

(***************************************************************************)
(* The specification.                                                      *)
(***************************************************************************)

Request(r) ==
  \/ \E t \in Wall, e \in BOOLEAN : ScheduleReply(r, t, e)
  \/ \E t \in Wall : ScheduleNewMessage(r, t)
  \/ QueueTrigger(r)
  \/ CancelRead(r)
  \/ CancelWrite(r)
  \/ CancelRemove(r)

RunSend(w) ==
  \/ Read(w)
  \/ Reschedule(w)
  \/ Requeue(w)
  \/ Claim(w)
  \/ Prepare(w)
  \/ Send(w)
  \/ Record(w)
  \/ Remind(w)
  \/ MarkFailed(w)
  \/ Finish(w)

QueueStep(r) ==
  \/ PromoteJob(r)
  \/ StallJob(r)
  \/ ExpireJob(r)
  \/ LoseJob(r)

Next ==
  \/ \E r \in Row : Request(r)
  \/ \E w \in Worker, r \in Row : Take(w, r)
  \/ \E w \in Worker : RunSend(w)
  \/ \E w \in Worker : Throw(w)
  \/ \E w \in Worker : Crash(w)
  \/ SweepRead
  \/ SweepEnqueue
  \/ SweepCrash
  \/ \E r \in Row : QueueStep(r)
  \/ Tick
  \/ NewRules
  \/ Regrant
  \/ Disconnect

Spec == Init /\ [][Next]_vars

(***************************************************************************)
(* Fairness: BullMQ keeps promoting, handing out and checking jobs, a      *)
(* running job keeps running, the repeatable sweep keeps firing, the       *)
(* request that wrote a row reaches its enqueue, and the clock advances.   *)
(* Users, deploys and faults are not fair.                                 *)
(***************************************************************************)
Fairness ==
  /\ WF_vars(Tick)
  /\ WF_vars(SweepRead)
  /\ WF_vars(SweepEnqueue)
  /\ \A r \in Row :
       /\ WF_vars(QueueTrigger(r))
       /\ WF_vars(PromoteJob(r))
       /\ WF_vars(StallJob(r))
       /\ WF_vars(\E w \in Worker : Take(w, r))
  /\ \A w \in Worker : WF_vars(RunSend(w))

FairSpec == Spec /\ Fairness

(***************************************************************************)
(* Properties.                                                             *)
(***************************************************************************)

\* A scheduled mail reaches the provider at most once, whatever combination
\* of redelivered jobs, sweeps, crashes and lost answers triggers it
\* (schedule.ts, "Two triggers for one row cannot send twice").
AtMostOnce == \A r \in Row : delivered[r] <= 1

\* What the row says is true: SENT only of an accepted mail, and CANCELLED
\* only of a mail that was never accepted and that no worker can still send.
HonestStatus ==
  \A r \in Row :
    /\ status[r] = "SENT" => delivered[r] = 1
    /\ status[r] = "CANCELLED" =>
         /\ delivered[r] = 0
         /\ \A w \in Worker : task[w] = r => pc[w] \notin {"prepare", "send", "record"}

\* The steps between a claim and the record of its outcome.
Claimed == {"prepare", "send", "record", "fail"}

\* A claimed row belongs to exactly one run: no two workers are ever between
\* the claim and the record of the same mail, even after a lock lapsed.
OneRunPerClaim ==
  \A v, w \in Worker :
    pc[v] \in Claimed /\ pc[w] \in Claimed /\ task[v] = task[w] => v = w

\* A follow-up reminder is only ever set for a mail that went out and whose
\* row said it expected a reply.
ReminderFollowsSend ==
  \A r \in reminded : delivered[r] = 1 /\ r \in expecting

\* Mail never leaves more than the sweep's lead before the wall time the user
\* chose, as the zone's rules stand when it leaves (schedule.ts, step 2).
NeverEarly ==
  [][\A r \in Row : delivered'[r] > delivered[r] => Resolved(r) - now <= Lead]_vars

\* The component keeps the promise of Outbox.
Promise == INSTANCE Outbox WITH
  Mail <- Row,
  phase <- status,
  committed <- {r \in Row : attempts[r] > 0}

KeepsPromise == Promise!Spec

\* The inductive invariant behind the safety properties above: what each step
\* of a run knows about its row, and what each status implies.
RunOf(w) ==
  /\ pc[w] # "idle" => task[w] \in Row
  /\ pc[w] \notin {"idle", "read", "finish"} => status[task[w]] # "NONE"
  /\ pc[w] \in Claimed =>
       /\ attempts[task[w]] = 1
       /\ \/ status[task[w]] \in {"SENDING", "DELETED"}
          \/ pc[w] = "fail" /\ status[task[w]] = "SENT"
  /\ pc[w] \in {"prepare", "send"} => delivered[task[w]] = 0
  /\ pc[w] \in {"record", "remind"} => delivered[task[w]] = 1
  /\ pc[w] = "remind" => task[w] \in expecting
  /\ readAt[w] <= now
  /\ pc[w] \in {"claim", "prepare", "send"} => Resolved(task[w]) - now <= Lead

RunKnows == \A w \in Worker : RunOf(w)

RowKnows ==
  \A r \in Row :
    /\ status[r] # "NONE" => wall[r] \in Wall
    /\ status[r] \in {"NONE", "SCHEDULED", "CANCELLED"} => attempts[r] = 0
    /\ delivered[r] <= attempts[r]
    /\ status[r] = "SENT" => delivered[r] = 1

SafetyInv ==
  /\ TypeOK
  /\ RunKnows
  /\ RowKnows
  /\ OneRunPerClaim
  /\ ReminderFollowsSend

\* A scheduled mail does not stay scheduled for ever: however many triggers
\* are lost, crash or throw (finitely often), the sweeper gets it claimed.
EventuallyClaimed ==
  \A r \in Row : status[r] = "SCHEDULED" ~> status[r] # "SCHEDULED"

\* After a correction of sendAt the trigger is queued again (schedule.ts:507
\* and :596): a row that is waiting for its time has a job that will run it,
\* unless a request, a run or the sweeper is about to see to it.
AlwaysTriggered ==
  \A r \in Row :
    \/ status[r] # "SCHEDULED"
    \/ job[r] \in {"delayed", "waiting", "active"}
    \/ adding[r] # NotAdding
    \/ faults > 0
=============================================================================
