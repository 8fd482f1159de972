------------------------ MODULE ScheduledSendProofs ------------------------
(***************************************************************************)
(* What ScheduledSend guarantees for every number of rows, workers,        *)
(* faults and instants.  The inductive invariant is SafetyInv; each lemma  *)
(* below takes one group of steps through it.                              *)
(***************************************************************************)
EXTENDS ScheduledSend, WallTime, JobQueueProofs, TLAPS

\* The variables SafetyInv speaks of beyond the types of the rest.
coreVars == <<status, wall, expecting, attempts, delivered, reminded, pc, task,
              readAt, shift>>

\* A step that may queue a job keeps the queue well typed.
LEMMA EnqueueType ==
  ASSUME QueueTypeOK, now \in Time, NEW r \in Row, NEW delay \in Int,
         Enqueue(r, delay)
  PROVE  QueueTypeOK'
<1>1. CASE Insert(r, delay, now)
  BY <1>1, InsertType DEF Row, Time
<1>2. CASE UNCHANGED queueVars
  BY <1>2 DEF queueVars, QueueTypeOK
<1> QED BY <1>1, <1>2 DEF Enqueue

\* Request steps keep the types.
LEMMA RequestType ==
  ASSUME SafetyInv, NEW r \in Row, Request(r)
  PROVE  TypeOK'
<1> USE QueueAssumption, SendAssumption DEF Row
<1>t. TypeOK BY DEF SafetyInv
<1>1. ASSUME NEW t \in Wall, NEW e \in BOOLEAN, Create(r, t, e)
      PROVE  TypeOK'
  <2>1. t + shift \in Time /\ Delay(t + shift, now) \in Time
    BY <1>t DEF TypeOK, Time, Delay
  <2>2. QueueTypeOK'
    BY <1>t, <1>1 DEF TypeOK, Create, QueueTypeOK, queueVars
  <2>3. expecting' \subseteq Row
    BY <1>t, <1>1 DEF TypeOK, Create
  <2> QED
    BY <1>t, <1>1, <2>1, <2>2, <2>3
    DEF TypeOK, Create, Status, envVars, workerVars, sweepVars, outVars
<1>2. CASE QueueTrigger(r)
  <2>1. adding[r] \in Int /\ now \in Time /\ QueueTypeOK
    BY <1>t DEF TypeOK, Time, NotAdding
  <2>2. QueueTypeOK'
    BY <2>1, <1>2, EnqueueType DEF QueueTrigger, QueueTypeOK, queueVars
  <2> QED
    BY <1>t, <1>2, <2>2
    DEF TypeOK, QueueTrigger, rowVars, outVars, sweepVars, workerVars, envVars, Fault
<1>3. CASE CancelRead(r)
  BY <1>t, <1>3
  DEF TypeOK, CancelRead, QueueTypeOK, queueVars, rowVars, outVars, sweepVars,
      workerVars, envVars
<1>4. CASE CancelWrite(r)
  BY <1>t, <1>4
  DEF TypeOK, CancelWrite, FromScheduled, Status, QueueTypeOK, queueVars, outVars,
      sweepVars, workerVars, envVars
<1>5. CASE CancelRemove(r)
  <2>1. QueueTypeOK'
    BY <1>t, <1>5, ClearType DEF TypeOK, CancelRemove, QueueTypeOK, queueVars
  <2> QED
    BY <1>t, <1>5, <2>1
    DEF TypeOK, CancelRemove, rowVars, outVars, sweepVars, workerVars, envVars, Fault
<1> QED
  BY <1>1, <1>2, <1>3, <1>4, <1>5 DEF Request, ScheduleReply, ScheduleNewMessage

\* So do the steps of a run.
LEMMA RunType ==
  ASSUME SafetyInv, NEW w \in Worker, RunSend(w)
  PROVE  TypeOK'
<1> USE QueueAssumption, SendAssumption DEF Row
<1>t. TypeOK BY DEF SafetyInv
<1>r. pc[w] # "idle" => task[w] \in Row
  BY DEF SafetyInv, RunKnows, RunOf
<1> DEFINE Quiet == UNCHANGED <<queueVars, apiVars, sweepVars, envVars>>
<1>q. Quiet => /\ QueueTypeOK'
              /\ now' = now /\ shift' = shift /\ mailbox' = mailbox
              /\ adding' = adding /\ cancel' = cancel
              /\ sweep' = sweep /\ sweepAsOf' = sweepAsOf
  BY <1>t DEF TypeOK, QueueTypeOK, queueVars, apiVars, sweepVars, envVars
<1>1. CASE Read(w)
  BY <1>t, <1>1, <1>q DEF TypeOK, Read, Goto, Step, rowVars, outVars
<1>2. CASE Reschedule(w)
  <2>1. Resolved(task[w]) \in Time
    BY <1>t, <1>2 DEF TypeOK, Reschedule, SafetyInv, RunKnows, RunOf, RowKnows, Resolved, Time
  <2>2. sendAt' \in [Row -> Time]
    BY <1>t, <1>2, <2>1 DEF TypeOK, Reschedule, Correct
  <2> QED BY <1>t, <1>2, <1>q, <2>2 DEF TypeOK, Reschedule, Goto, Step, outVars
<1>3. CASE Requeue(w)
  <2>a. Resolved(task[w]) \in Time /\ readAt[w] \in Time
    BY <1>t, <1>3 DEF TypeOK, Requeue, SafetyInv, RunKnows, RunOf, RowKnows, Resolved, Time
  <2>1. Delay(Resolved(task[w]), readAt[w]) \in Int /\ task[w] \in Row
    BY <1>3, <1>r, <2>a DEF Requeue, Time, Delay
  <2>2. QueueTypeOK'
    BY <1>t, <1>3, <2>1, EnqueueType DEF TypeOK, Requeue, QueueTypeOK, queueVars
  <2> QED
    BY <1>t, <1>3, <2>2
    DEF TypeOK, Requeue, Goto, Step, rowVars, outVars, apiVars, sweepVars, envVars, Fault
<1>4. CASE Claim(w)
  <2>1. status' \in [Row -> Status]
    BY <1>t, <1>4 DEF TypeOK, Claim, Seize, FromScheduled, Status
  <2>2. attempts' \in [Row -> 0..1]
    BY <1>t, <1>4, <1>r DEF TypeOK, Claim, Seize, FromScheduled, SafetyInv, RowKnows
  <2>3. pc' \in [Worker -> Step]
    BY <1>t, <1>4 DEF TypeOK, Claim, Goto, Step
  <2> QED BY <1>t, <1>4, <1>q, <2>1, <2>2, <2>3 DEF TypeOK, Claim, outVars
<1>5. CASE Prepare(w)
  BY <1>t, <1>5, <1>q DEF TypeOK, Prepare, Goto, Step, rowVars, outVars
<1>6. CASE Send(w)
  BY <1>t, <1>6, <1>q DEF TypeOK, Send, Goto, Step, rowVars
<1>7. CASE Record(w)
  <2>1. pc' \in [Worker -> Step]
    BY <1>t, <1>7 DEF TypeOK, Record, Goto, Step
  <2>2. status' \in [Row -> Status] /\ faults' \in 0..MaxFaults
    BY <1>t, <1>7 DEF TypeOK, Record, Status, Fault
  <2> QED BY <1>t, <1>7, <1>q, <2>1, <2>2 DEF TypeOK, Record, outVars
<1>8. CASE Remind(w)
  BY <1>t, <1>8, <1>q, <1>r DEF TypeOK, Remind, Goto, Step, rowVars, Fault
<1>9. CASE MarkFailed(w)
  <2>1. status' \in [Row -> Status] /\ faults' \in 0..MaxFaults
    BY <1>t, <1>9 DEF TypeOK, MarkFailed, Status, Fault
  <2> QED BY <1>t, <1>9, <1>q, <2>1 DEF TypeOK, MarkFailed, Goto, Step, outVars
<1>10. CASE Finish(w)
  <2>1. QueueTypeOK'
    BY <1>t, <1>r, <1>10, ReleaseType DEF TypeOK, Finish
  <2> QED
    BY <1>t, <1>10, <2>1
    DEF TypeOK, Finish, GoIdle, Goto, Step, Time, rowVars, outVars, apiVars, sweepVars,
        envVars
<1> QED
  BY <1>1, <1>2, <1>3, <1>4, <1>5, <1>6, <1>7, <1>8, <1>9, <1>10 DEF RunSend

\* ... and everything else.
LEMMA TypeStep ==
  ASSUME SafetyInv, [Next]_vars
  PROVE  TypeOK'
<1> USE QueueAssumption, SendAssumption DEF Row
<1>t. TypeOK BY DEF SafetyInv
<1> DEFINE Rest == UNCHANGED <<rowVars, outVars, apiVars, envVars>>
<1>q. Rest => /\ now' \in Time /\ shift' \in Shift
             /\ mailbox' \in {"ACTIVE", "REVOKED", "GONE"}
             /\ status' \in [Row -> Status]
             /\ sendAt' \in [Row -> Time] /\ wall' \in [Row -> Wall \cup {0}]
             /\ expecting' \subseteq Row
             /\ attempts' \in [Row -> 0..1]
             /\ delivered' \in [Row -> Nat] /\ reminded' \subseteq Row
             /\ adding' \in [Row -> Time \cup {NotAdding}]
             /\ cancel' \in [Row -> {"idle", "write", "remove"}]
  BY <1>t DEF TypeOK, rowVars, outVars, apiVars, envVars
<1>w. UNCHANGED workerVars =>
        /\ pc' \in [Worker -> Step]
        /\ task' \in [Worker -> Row \cup {NoRow}]
        /\ readAt' \in [Worker -> Time]
  BY <1>t DEF TypeOK, workerVars
<1>s. UNCHANGED sweepVars => sweep' \subseteq Row \X Time /\ sweepAsOf' \in Time
  BY <1>t DEF TypeOK, sweepVars
<1>f. Fault \/ UNCHANGED faults => faults' \in 0..MaxFaults
  BY <1>t DEF TypeOK, Fault
<1>j. UNCHANGED queueVars => QueueTypeOK'
  BY <1>t DEF TypeOK, QueueTypeOK, queueVars
<1>1. ASSUME NEW w \in Worker, NEW r \in Row, Take(w, r) PROVE TypeOK'
  <2>1. QueueTypeOK'
    BY <1>t, <1>1, AcquireType DEF TypeOK, Take
  <2>2. /\ pc' \in [Worker -> Step]
        /\ task' \in [Worker -> Row \cup {NoRow}]
        /\ readAt' \in [Worker -> Time]
    BY <1>t, <1>1 DEF TypeOK, Take, Goto, Step
  <2> QED BY <1>1, <1>q, <1>s, <1>f, <2>1, <2>2 DEF TypeOK, Take
<1>2. ASSUME NEW w \in Worker, Throw(w) \/ Crash(w) PROVE TypeOK'
  <2>1. task[w] \in Row
    BY <1>2 DEF Throw, Crash, SafetyInv, RunKnows, RunOf
  <2>2. QueueTypeOK'
    BY <1>t, <1>2, <2>1, ReleaseType, AbandonType DEF TypeOK, Throw, Crash
  <2>3. /\ pc' \in [Worker -> Step]
        /\ task' \in [Worker -> Row \cup {NoRow}]
        /\ readAt' \in [Worker -> Time]
    BY <1>t, <1>2 DEF TypeOK, Throw, Crash, GoIdle, Goto, Step, Time
  <2>4. CASE Crash(w)
    BY <2>4, <1>q, <1>s, <1>f, <2>2, <2>3 DEF TypeOK, Crash
  <2>5. CASE Throw(w)
    <3>1. status' \in [Row -> Status]
      BY <1>t, <2>5 DEF TypeOK, Throw, Seize, FromScheduled, Status
    <3>2. attempts' \in [Row -> 0..1]
      BY <1>t, <2>1, <2>5 DEF TypeOK, Throw, Seize, FromScheduled, SafetyInv, RowKnows
    <3>3. status[task[w]] # "NONE" => Resolved(task[w]) \in Time
      BY <1>t, <2>1 DEF TypeOK, SafetyInv, RowKnows, Resolved, Time
    <3>4. sendAt' \in [Row -> Time]
      BY <1>t, <2>1, <2>5, <3>3 DEF TypeOK, Throw, Correct
    <3> QED
      BY <1>t, <2>5, <1>s, <1>f, <2>2, <2>3, <3>1, <3>2, <3>4
      DEF TypeOK, Throw, outVars, apiVars, envVars
  <2> QED BY <1>2, <2>4, <2>5
<1>3. CASE SweepRead
  <2>1. sweep' \subseteq Row \X Time
    BY <1>t, <1>3 DEF TypeOK, SweepRead, Due
  <2>2. sweepAsOf' \in Time
    BY <1>t, <1>3 DEF TypeOK, SweepRead
  <2> QED BY <1>3, <1>q, <1>w, <1>f, <1>j, <2>1, <2>2 DEF TypeOK, SweepRead
<1>4. CASE SweepEnqueue
  <2>1. PICK p \in sweep :
          /\ sweep' = sweep \ {p}
          /\ \/ Enqueue(p[1], Delay(p[2], sweepAsOf)) /\ UNCHANGED faults
             \/ Fault /\ UNCHANGED queueVars
    BY <1>4 DEF SweepEnqueue
  <2>2. p[1] \in Row /\ p[2] \in Time /\ sweepAsOf \in Time
    BY <1>t DEF TypeOK
  <2>3. Delay(p[2], sweepAsOf) \in Int
    BY <2>2 DEF Time, Delay
  <2>4. QueueTypeOK'
    BY <1>t, <1>j, <2>1, <2>2, <2>3, EnqueueType DEF TypeOK
  <2>5. sweep' \subseteq Row \X Time /\ sweepAsOf' \in Time
    BY <1>t, <1>4, <2>1 DEF TypeOK, SweepEnqueue, Time
  <2> QED BY <1>4, <1>q, <1>w, <1>f, <2>1, <2>4, <2>5 DEF TypeOK, SweepEnqueue
<1>5. CASE SweepCrash
  BY <1>5, <1>q, <1>w, <1>f, <1>j DEF TypeOK, SweepCrash, Time
<1>6. ASSUME NEW r \in Row, QueueStep(r) PROVE TypeOK'
  <2>1. QueueTypeOK'
    BY <1>t, <1>6, PromoteType, StallType, ClearType
    DEF TypeOK, QueueStep, PromoteJob, StallJob, ExpireJob, LoseJob, Time
  <2> QED
    BY <1>6, <1>q, <1>w, <1>s, <1>f, <2>1
    DEF TypeOK, QueueStep, PromoteJob, StallJob, ExpireJob, LoseJob
<1>7. CASE Tick \/ NewRules \/ Regrant
  <2>1. now' \in Time /\ shift' \in Shift /\ mailbox' \in {"ACTIVE", "REVOKED", "GONE"}
    BY <1>t, <1>7 DEF TypeOK, Tick, NewRules, Regrant, Time
  <2> QED
    BY <1>t, <1>7, <1>w, <1>s, <1>f, <1>j, <2>1
    DEF TypeOK, Tick, NewRules, Regrant, rowVars, outVars, apiVars
<1>8. CASE Disconnect
  <2>1. status' \in [Row -> Status]
    BY <1>t, <1>8 DEF TypeOK, Disconnect, Status
  <2> QED
    BY <1>t, <1>8, <1>w, <1>s, <1>f, <1>j, <2>1
    DEF TypeOK, Disconnect, outVars, apiVars
<1>9. CASE UNCHANGED vars
  BY <1>t, <1>9, <1>q, <1>w, <1>s, <1>f, <1>j DEF TypeOK, vars
<1> QED
  BY <1>1, <1>2, <1>3, <1>4, <1>5, <1>6, <1>7, <1>8, <1>9, RequestType, RunType
  DEF Next

LEMMA ResolvedInt ==
  ASSUME TypeOK, NEW r \in Row
  PROVE  Resolved(r) \in Int
<1>1. wall[r] \in Int /\ shift \in Int
  BY SendAssumption DEF TypeOK
<1> QED BY <1>1 DEF Resolved

\* A step that leaves the rows, the provider and the runs alone, and does not
\* turn the clock back, keeps everything else.
LEMMA FrameStep ==
  ASSUME SafetyInv, TypeOK', UNCHANGED coreVars, now' \in Int, now <= now'
  PROVE  SafetyInv'
<1> USE SendAssumption DEF Row
<1>t. TypeOK BY DEF SafetyInv
<1>c. /\ status' = status /\ wall' = wall /\ expecting' = expecting
      /\ attempts' = attempts /\ delivered' = delivered /\ reminded' = reminded
      /\ pc' = pc /\ task' = task /\ readAt' = readAt /\ shift' = shift
  BY DEF coreVars
<1>1. RunKnows'
  <2> SUFFICES ASSUME NEW w \in Worker
      PROVE  /\ readAt[w] <= now'
             /\ pc[w] \in {"claim", "prepare", "send"} => Resolved(task[w])' - now' <= Lead
    BY <1>c DEF SafetyInv, RunKnows, RunOf
  <2>1. readAt[w] \in Int /\ now \in Int /\ readAt[w] <= now
    BY <1>t DEF TypeOK, Time, SafetyInv, RunKnows, RunOf
  <2>2. ASSUME pc[w] \in {"claim", "prepare", "send"}
        PROVE  Resolved(task[w])' - now' <= Lead
    <3>1. task[w] \in Row /\ Resolved(task[w]) - now <= Lead
      BY <2>2 DEF SafetyInv, RunKnows, RunOf
    <3>2. Resolved(task[w])' = Resolved(task[w])
      BY <1>c DEF Resolved
    <3>3. Resolved(task[w]) \in Int
      BY <1>t, <3>1, ResolvedInt
    <3> QED BY <2>1, <3>1, <3>2, <3>3
  <2> QED BY <2>1, <2>2
<1>2. RowKnows' /\ OneRunPerClaim' /\ ReminderFollowsSend'
  BY <1>c DEF SafetyInv, RowKnows, OneRunPerClaim, ReminderFollowsSend
<1> QED BY <1>1, <1>2 DEF SafetyInv

\* A request changes a row only before any run could have claimed it.
LEMMA RequestStep ==
  ASSUME SafetyInv, TypeOK', NEW r \in Row, Request(r)
  PROVE  SafetyInv'
<1> USE SendAssumption DEF Row
<1>t. TypeOK BY DEF SafetyInv
<1>n. now \in Int BY <1>t DEF TypeOK, Time
<1>1. ASSUME NEW t \in Wall, NEW e \in BOOLEAN, Create(r, t, e)
      PROVE  SafetyInv'
  <2>1. \A w \in Worker : pc[w] \notin {"idle", "read", "finish"} => task[w] # r
    BY <1>1 DEF Create, SafetyInv, RunKnows, RunOf
  <2>2. RunKnows'
    BY <1>t, <1>1, <2>1
    DEF Create, TypeOK, SafetyInv, RunKnows, RunOf, Claimed, Resolved, workerVars, envVars,
        outVars
  <2>3. RowKnows'
    BY <1>t, <1>1 DEF Create, TypeOK, SafetyInv, RowKnows, outVars
  <2>4. OneRunPerClaim' /\ ReminderFollowsSend'
    BY <1>1 DEF Create, SafetyInv, OneRunPerClaim, ReminderFollowsSend, workerVars,
                outVars
  <2> QED BY <2>2, <2>3, <2>4 DEF SafetyInv
<1>2. CASE CancelWrite(r)
  <2>1. RunKnows'
    BY <1>t, <1>2
    DEF CancelWrite, FromScheduled, TypeOK, SafetyInv, RunKnows, RunOf, Claimed, Resolved,
        workerVars, envVars, outVars
  <2>2. RowKnows'
    BY <1>t, <1>2 DEF CancelWrite, FromScheduled, TypeOK, SafetyInv, RowKnows, outVars
  <2>3. OneRunPerClaim' /\ ReminderFollowsSend'
    BY <1>2 DEF CancelWrite, SafetyInv, OneRunPerClaim, ReminderFollowsSend, workerVars,
                outVars
  <2> QED BY <2>1, <2>2, <2>3 DEF SafetyInv
<1>3. CASE QueueTrigger(r) \/ CancelRead(r) \/ CancelRemove(r)
  <2>1. UNCHANGED coreVars /\ now' = now
    BY <1>3
    DEF QueueTrigger, CancelRead, CancelRemove, coreVars, rowVars, outVars, workerVars,
        envVars
  <2> QED BY <1>n, <2>1, FrameStep
<1> QED BY <1>1, <1>2, <1>3 DEF Request, ScheduleReply, ScheduleNewMessage

\* A worker that returns, throws or dies forgets its row.
LEMMA IdleStep ==
  ASSUME SafetyInv, TypeOK', NEW w \in Worker, GoIdle(w),
         UNCHANGED <<status, wall, expecting, attempts, outVars, envVars>>
  PROVE  SafetyInv'
<1>1. TypeOK BY DEF SafetyInv
<1>2. /\ pc' \in [Worker -> Step] /\ pc'[w] = "idle" /\ readAt'[w] = 0
      /\ \A v \in Worker \ {w} :
           pc'[v] = pc[v] /\ task'[v] = task[v] /\ readAt'[v] = readAt[v]
      /\ UNCHANGED <<status, wall, expecting, attempts, outVars, shift, now>>
  BY <1>1 DEF TypeOK, GoIdle, Goto, Step, envVars
<1>3. 0 <= now
  BY <1>1, QueueAssumption DEF TypeOK, Time
<1>4. ASSUME NEW v \in Worker PROVE RunOf(v)'
  <2>1. CASE v = w
    BY <1>2, <1>3, <2>1 DEF RunOf, Claimed
  <2>2. CASE v # w
    BY <1>2, <2>2 DEF SafetyInv, RunKnows, RunOf, Claimed, Resolved, outVars
  <2> QED BY <2>1, <2>2
<1>5. RunKnows'
  BY <1>4 DEF RunKnows
<1>6. OneRunPerClaim'
  BY <1>2 DEF SafetyInv, OneRunPerClaim, Claimed
<1>7. RowKnows' /\ ReminderFollowsSend'
  BY <1>2 DEF SafetyInv, RowKnows, ReminderFollowsSend, outVars
<1> QED BY <1>5, <1>6, <1>7 DEF SafetyInv

\* An update whose answer was lost leaves its effect, and nobody to follow it up.
LEMMA ThrowStep ==
  ASSUME SafetyInv, TypeOK', NEW w \in Worker, Throw(w)
  PROVE  SafetyInv'
<1> USE SendAssumption DEF Row
<1>t. TypeOK BY DEF SafetyInv
<1> DEFINE r == task[w]
<1>k. r \in Row
  BY DEF Throw, SafetyInv, RunKnows, RunOf
<1>1. CASE UNCHANGED <<status, attempts>>
  BY <1>1, IdleStep DEF Throw
<1>2. CASE pc[w] = "claim" /\ Seize(r)
  <2>1. /\ pc' \in [Worker -> Step] /\ pc'[w] = "idle" /\ readAt'[w] = 0
        /\ \A v \in Worker \ {w} :
             pc'[v] = pc[v] /\ task'[v] = task[v] /\ readAt'[v] = readAt[v]
        /\ UNCHANGED <<wall, expecting, outVars, shift, now>>
    BY <1>t DEF TypeOK, Throw, GoIdle, Goto, Step, envVars
  <2>a. status[r] = "SCHEDULED" /\ attempts[r] = 0 /\ delivered[r] = 0
    BY <1>t, <1>k, <1>2 DEF TypeOK, Seize, FromScheduled, SafetyInv, RowKnows
  <2>2. /\ status[r] = "SCHEDULED" /\ status' = [status EXCEPT ![r] = "SENDING"]
        /\ attempts' = [attempts EXCEPT ![r] = 1]
        /\ attempts[r] = 0 /\ delivered[r] = 0
    BY <1>2, <2>a DEF Seize, FromScheduled
  <2>3. \A v \in Worker : pc[v] \in Claimed => task[v] # r
    BY <2>2 DEF SafetyInv, RunKnows, RunOf, Claimed
  <2>4. ASSUME NEW v \in Worker PROVE RunOf(v)'
    <3>1. CASE v = w
      <4>1. 0 <= now
        BY <1>t, QueueAssumption DEF TypeOK, Time
      <4> QED BY <2>1, <3>1, <4>1 DEF RunOf, Claimed
    <3>2. CASE v # w
      BY <1>t, <1>k, <2>1, <2>2, <2>3, <3>2
      DEF TypeOK, SafetyInv, RunKnows, RunOf, Claimed, Resolved, outVars
    <3> QED BY <3>1, <3>2
  <2>5. RunKnows'
    BY <2>4 DEF RunKnows
  <2>6. RowKnows'
    BY <1>t, <1>k, <2>1, <2>2 DEF TypeOK, SafetyInv, RowKnows, outVars
  <2>7. OneRunPerClaim' /\ ReminderFollowsSend'
    BY <2>1 DEF SafetyInv, OneRunPerClaim, Claimed, ReminderFollowsSend, outVars
  <2> QED BY <2>5, <2>6, <2>7 DEF SafetyInv
<1> QED BY <1>1, <1>2 DEF Throw

\* A step of a run: by itself, or on a row that the run holds.
LEMMA RunStep ==
  ASSUME SafetyInv, TypeOK', NEW w \in Worker, RunSend(w)
  PROVE  SafetyInv'
<1> USE SendAssumption DEF Row
<1>t. TypeOK BY DEF SafetyInv
<1>k. pc[w] # "idle" => task[w] \in Row
  BY DEF SafetyInv, RunKnows, RunOf
<1> DEFINE r == task[w]
<1>n. now \in Int BY <1>t DEF TypeOK, Time
<1>1. CASE Read(w)
  <2>1. /\ pc' \in [Worker -> Step] /\ pc[w] = "read"
        /\ \A v \in Worker \ {w} : pc'[v] = pc[v]
        /\ pc'[w] \in {"finish", "reschedule", "claim"}
        /\ pc'[w] # "finish" => status[r] = "SCHEDULED"
        /\ pc'[w] = "claim" => Resolved(r) - readAt[w] <= Lead
        /\ UNCHANGED <<rowVars, outVars, task, readAt, shift, now>>
    BY <1>t, <1>1 DEF TypeOK, Read, Goto, Step, envVars
  <2>2. pc'[w] = "claim" => Resolved(r) - now <= Lead
    <3>1. Resolved(r) \in Int
      BY <1>t, <1>k, <2>1, ResolvedInt
    <3>2. readAt[w] \in Int /\ readAt[w] <= now
      BY <1>t DEF TypeOK, Time, SafetyInv, RunKnows, RunOf
    <3> QED BY <1>n, <2>1, <3>1, <3>2
  <2>3. RunKnows'
    BY <2>1, <2>2 DEF SafetyInv, RunKnows, RunOf, Claimed, Resolved, rowVars, outVars
  <2>4. RowKnows' /\ ReminderFollowsSend'
    BY <2>1 DEF SafetyInv, RowKnows, ReminderFollowsSend, rowVars, outVars
  <2>5. OneRunPerClaim'
    BY <2>1 DEF SafetyInv, OneRunPerClaim, Claimed
  <2> QED BY <2>3, <2>4, <2>5 DEF SafetyInv
<1>2. CASE Reschedule(w) \/ Requeue(w)
  <2>1. /\ pc' \in [Worker -> Step] /\ pc[w] \in {"reschedule", "requeue"}
        /\ \A v \in Worker \ {w} : pc'[v] = pc[v]
        /\ pc'[w] \in {"requeue", "finish"}
        /\ UNCHANGED <<status, wall, expecting, attempts, outVars, task, readAt,
                       shift, now>>
    BY <1>t, <1>2 DEF TypeOK, Reschedule, Requeue, Goto, Step, rowVars, envVars
  <2>2. RunKnows'
    BY <2>1 DEF SafetyInv, RunKnows, RunOf, Claimed, Resolved, outVars
  <2>3. RowKnows' /\ ReminderFollowsSend'
    BY <2>1 DEF SafetyInv, RowKnows, ReminderFollowsSend, outVars
  <2>4. OneRunPerClaim'
    BY <2>1 DEF SafetyInv, OneRunPerClaim, Claimed
  <2> QED BY <2>2, <2>3, <2>4 DEF SafetyInv
<1>3. CASE Claim(w)
  <2>1. /\ pc' \in [Worker -> Step] /\ pc[w] = "claim"
        /\ \A v \in Worker \ {w} : pc'[v] = pc[v]
        /\ UNCHANGED <<wall, expecting, outVars, task, readAt, shift, now>>
    BY <1>t, <1>3 DEF TypeOK, Claim, Goto, Step, envVars
  <2>2. CASE status[r] = "SCHEDULED"
    <3>1. /\ status' = [status EXCEPT ![r] = "SENDING"]
          /\ attempts' = [attempts EXCEPT ![r] = 1]
          /\ pc'[w] \in {"prepare", "fail"}
          /\ attempts[r] = 0 /\ delivered[r] = 0
      BY <1>t, <1>k, <1>3, <2>1, <2>2
      DEF TypeOK, Claim, Seize, FromScheduled, Goto, SafetyInv, RowKnows
    <3>2. \A v \in Worker : pc[v] \in Claimed => task[v] # r
      BY <1>k, <2>1, <2>2 DEF SafetyInv, RunKnows, RunOf
    <3>3. RunKnows'
      BY <1>t, <1>k, <2>1, <2>2, <3>1, <3>2
      DEF TypeOK, SafetyInv, RunKnows, RunOf, Claimed, Resolved, outVars
    <3>4. RowKnows'
      BY <1>t, <1>k, <2>1, <2>2, <3>1 DEF TypeOK, SafetyInv, RowKnows, outVars
    <3>5. OneRunPerClaim'
      BY <2>1, <3>2 DEF SafetyInv, OneRunPerClaim
    <3>6. ReminderFollowsSend'
      BY <2>1 DEF SafetyInv, ReminderFollowsSend, outVars
    <3> QED BY <3>3, <3>4, <3>5, <3>6 DEF SafetyInv
  <2>3. CASE status[r] # "SCHEDULED"
    <3>1. UNCHANGED <<status, attempts>> /\ pc'[w] = "finish"
      BY <1>t, <1>3, <2>1, <2>3 DEF TypeOK, Claim, Seize, FromScheduled, Goto
    <3>2. RunKnows'
      BY <2>1, <3>1 DEF SafetyInv, RunKnows, RunOf, Claimed, Resolved, outVars
    <3>3. RowKnows' /\ ReminderFollowsSend'
      BY <2>1, <3>1 DEF SafetyInv, RowKnows, ReminderFollowsSend, outVars
    <3>4. OneRunPerClaim'
      BY <2>1, <3>1 DEF SafetyInv, OneRunPerClaim, Claimed
    <3> QED BY <3>2, <3>3, <3>4 DEF SafetyInv
  <2> QED BY <2>2, <2>3
<1>4. CASE Prepare(w)
  <2>1. /\ pc' \in [Worker -> Step] /\ pc[w] = "prepare"
        /\ \A v \in Worker \ {w} : pc'[v] = pc[v]
        /\ pc'[w] \in {"send", "fail"}
        /\ UNCHANGED <<rowVars, outVars, task, readAt, shift, now>>
    BY <1>t, <1>4 DEF TypeOK, Prepare, Goto, Step, envVars
  <2>2. RunKnows'
    BY <2>1 DEF SafetyInv, RunKnows, RunOf, Claimed, Resolved, rowVars, outVars
  <2>3. RowKnows' /\ ReminderFollowsSend'
    BY <2>1 DEF SafetyInv, RowKnows, ReminderFollowsSend, rowVars, outVars
  <2>4. OneRunPerClaim'
    BY <2>1 DEF SafetyInv, OneRunPerClaim, Claimed
  <2> QED BY <2>2, <2>3, <2>4 DEF SafetyInv
<1>5. CASE Send(w)
  <2>1. /\ pc' \in [Worker -> Step] /\ pc[w] = "send"
        /\ \A v \in Worker \ {w} : pc'[v] = pc[v]
        /\ \/ /\ delivered' = [delivered EXCEPT ![r] = delivered[r] + 1]
              /\ pc'[w] \in {"record", "fail"}
           \/ delivered' = delivered /\ pc'[w] = "fail"
        /\ UNCHANGED <<rowVars, reminded, task, readAt, shift, now>>
    BY <1>t, <1>5 DEF TypeOK, Send, Goto, Step, envVars
  <2>2. /\ status[r] \in {"SENDING", "DELETED"} /\ attempts[r] = 1
        /\ delivered[r] = 0 /\ r \in Row
    BY <1>k, <2>1 DEF SafetyInv, RunKnows, RunOf, Claimed
  <2>3. \A v \in Worker \ {w} : pc[v] \in Claimed => task[v] # r
    BY <2>1 DEF SafetyInv, OneRunPerClaim, Claimed
  <2>4. delivered' \in [Row -> Nat] /\ delivered'[r] \in {0, 1}
        /\ \A q \in Row \ {r} : delivered'[q] = delivered[q]
    BY <1>t, <2>1, <2>2 DEF TypeOK
  <2>5. pc'[w] = "record" => delivered'[r] = 1
    BY <1>t, <2>1, <2>2 DEF TypeOK
  <2>6. ASSUME NEW v \in Worker PROVE RunOf(v)'
    <3>1. CASE v = w
      BY <2>1, <2>2, <2>5, <3>1 DEF SafetyInv, RunKnows, RunOf, Claimed, rowVars
    <3>2. CASE v # w
      <4>1. pc'[v] = pc[v] /\ task'[v] = task[v]
        BY <2>1, <3>2
      <4>2. pc[v] = "remind" => delivered'[task[v]] = 1
        BY <2>2, <2>4, <4>1 DEF SafetyInv, RunKnows, RunOf
      <4>3. pc[v] \in {"prepare", "send", "record"} => task[v] # r
        BY <2>3, <3>2 DEF Claimed
      <4> QED
        BY <2>1, <2>4, <4>1, <4>2, <4>3 DEF SafetyInv, RunKnows, RunOf, Claimed, Resolved, rowVars
    <3> QED BY <3>1, <3>2
  <2>7. RunKnows'
    BY <2>6 DEF RunKnows
  <2>8. RowKnows'
    BY <1>t, <2>1, <2>2, <2>4 DEF TypeOK, SafetyInv, RowKnows, rowVars
  <2>9. OneRunPerClaim'
    BY <2>1 DEF SafetyInv, OneRunPerClaim, Claimed
  <2>10. ReminderFollowsSend'
    BY <1>t, <2>1, <2>2, <2>4 DEF TypeOK, SafetyInv, ReminderFollowsSend, rowVars
  <2> QED BY <2>7, <2>8, <2>9, <2>10 DEF SafetyInv
<1>6. CASE Record(w)
  <2>1. /\ pc' \in [Worker -> Step] /\ pc[w] = "record"
        /\ \A v \in Worker \ {w} : pc'[v] = pc[v]
        /\ pc'[w] \in {"remind", "finish", "fail"}
        /\ pc'[w] = "remind" => r \in expecting
        /\ \/ status[r] # "DELETED" /\ status' = [status EXCEPT ![r] = "SENT"]
           \/ status' = status /\ pc'[w] = "fail"
        /\ UNCHANGED <<wall, expecting, attempts, outVars, task, readAt, shift, now>>
    BY <1>t, <1>6 DEF TypeOK, Record, Goto, Step, envVars
  <2>2. /\ status[r] \in {"SENDING", "DELETED"} /\ attempts[r] = 1
        /\ delivered[r] = 1 /\ r \in Row
    BY <1>k, <2>1 DEF SafetyInv, RunKnows, RunOf, Claimed
  <2>3. \A v \in Worker \ {w} : pc[v] \in Claimed => task[v] # r
    BY <2>1 DEF SafetyInv, OneRunPerClaim, Claimed
  <2>4. /\ \A q \in Row : status'[q] = status[q] \/ (q = r /\ status'[q] = "SENT")
        /\ pc'[w] # "fail" => status'[r] = "SENT"
    BY <1>t, <2>1, <2>2 DEF TypeOK
  <2>5. ASSUME NEW v \in Worker PROVE RunOf(v)'
    <3>1. CASE v = w
      BY <2>1, <2>2, <2>4, <3>1 DEF SafetyInv, RunKnows, RunOf, Claimed, outVars
    <3>2. CASE v # w
      <4>1. pc[v] \in Claimed => status'[task[v]] = status[task[v]]
        BY <2>3, <2>4, <3>2 DEF SafetyInv, RunKnows, RunOf, Claimed
      <4>2. pc[v] \notin {"idle", "read", "finish"} => status'[task[v]] # "NONE"
        BY <2>4 DEF SafetyInv, RunKnows, RunOf
      <4> QED
        BY <2>1, <3>2, <4>1, <4>2 DEF SafetyInv, RunKnows, RunOf, Claimed, Resolved, outVars
    <3> QED BY <3>1, <3>2
  <2>6. RunKnows'
    BY <2>5 DEF RunKnows
  <2>7. RowKnows'
    BY <2>1, <2>2, <2>4 DEF SafetyInv, RowKnows, outVars
  <2>8. OneRunPerClaim' /\ ReminderFollowsSend'
    BY <2>1 DEF SafetyInv, OneRunPerClaim, Claimed, ReminderFollowsSend, outVars
  <2> QED BY <2>6, <2>7, <2>8 DEF SafetyInv
<1>7. CASE Remind(w)
  <2>1. /\ pc' \in [Worker -> Step] /\ pc[w] = "remind"
        /\ \A v \in Worker \ {w} : pc'[v] = pc[v]
        /\ pc'[w] = "finish"
        /\ reminded' \subseteq reminded \cup {r}
        /\ UNCHANGED <<rowVars, delivered, task, readAt, shift, now>>
    BY <1>t, <1>7 DEF TypeOK, Remind, Goto, Step, envVars
  <2>2. delivered[r] = 1 /\ r \in expecting
    BY <2>1 DEF SafetyInv, RunKnows, RunOf
  <2>3. RunKnows'
    BY <2>1 DEF SafetyInv, RunKnows, RunOf, Claimed, Resolved, rowVars
  <2>4. RowKnows' /\ ReminderFollowsSend'
    BY <2>1, <2>2 DEF SafetyInv, RowKnows, ReminderFollowsSend, rowVars
  <2>5. OneRunPerClaim'
    BY <2>1 DEF SafetyInv, OneRunPerClaim, Claimed
  <2> QED BY <2>3, <2>4, <2>5 DEF SafetyInv
<1>8. CASE MarkFailed(w)
  <2>1. /\ pc' \in [Worker -> Step] /\ pc[w] = "fail"
        /\ \A v \in Worker \ {w} : pc'[v] = pc[v]
        /\ pc'[w] = "finish"
        /\ \/ status' = [status EXCEPT ![r] = IF status[r] = "DELETED" THEN "DELETED"
                                             ELSE "FAILED"]
           \/ status' = status
        /\ UNCHANGED <<wall, expecting, attempts, outVars, task, readAt, shift, now>>
    BY <1>t, <1>8 DEF TypeOK, MarkFailed, Goto, Step, envVars
  <2>2. /\ status[r] \in {"SENDING", "SENT", "DELETED"} /\ attempts[r] = 1 /\ r \in Row
    BY <1>k, <2>1 DEF SafetyInv, RunKnows, RunOf, Claimed
  <2>3. \A v \in Worker \ {w} : pc[v] \in Claimed => task[v] # r
    BY <2>1 DEF SafetyInv, OneRunPerClaim, Claimed
  <2>4. \A q \in Row : \/ status'[q] = status[q]
                       \/ q = r /\ status'[q] = "FAILED"
    BY <1>t, <2>1, <2>2 DEF TypeOK
  <2>5. ASSUME NEW v \in Worker PROVE RunOf(v)'
    <3>1. CASE v = w
      BY <2>1, <3>1 DEF SafetyInv, RunKnows, RunOf, Claimed, outVars
    <3>2. CASE v # w
      <4>1. pc[v] \in Claimed => status'[task[v]] = status[task[v]]
        BY <2>3, <2>4, <3>2 DEF SafetyInv, RunKnows, RunOf, Claimed
      <4>2. pc[v] \notin {"idle", "read", "finish"} => status'[task[v]] # "NONE"
        BY <2>4 DEF SafetyInv, RunKnows, RunOf
      <4> QED
        BY <2>1, <3>2, <4>1, <4>2 DEF SafetyInv, RunKnows, RunOf, Claimed, Resolved, outVars
    <3> QED BY <3>1, <3>2
  <2>6. RunKnows'
    BY <2>5 DEF RunKnows
  <2>7. RowKnows'
    BY <2>1, <2>2, <2>4 DEF SafetyInv, RowKnows, outVars
  <2>8. OneRunPerClaim' /\ ReminderFollowsSend'
    BY <2>1 DEF SafetyInv, OneRunPerClaim, Claimed, ReminderFollowsSend, outVars
  <2> QED BY <2>6, <2>7, <2>8 DEF SafetyInv
<1>9. CASE Finish(w)
  BY <1>9, IdleStep DEF Finish, rowVars
<1> QED
  BY <1>1, <1>2, <1>3, <1>4, <1>5, <1>6, <1>7, <1>8, <1>9 DEF RunSend

\* A worker picks up a job: it knows nothing of the row yet.
LEMMA TakeStep ==
  ASSUME SafetyInv, TypeOK', NEW w \in Worker, NEW r \in Row, Take(w, r)
  PROVE  SafetyInv'
<1>1. TypeOK BY DEF SafetyInv
<1>2. /\ pc' \in [Worker -> Step] /\ pc'[w] = "read" /\ task'[w] = r
      /\ readAt'[w] = now
      /\ \A v \in Worker \ {w} :
           pc'[v] = pc[v] /\ task'[v] = task[v] /\ readAt'[v] = readAt[v]
      /\ UNCHANGED <<rowVars, outVars, shift, now>>
  BY <1>1 DEF TypeOK, Take, Goto, Step, envVars
<1>3. now <= now
  BY <1>1 DEF TypeOK, Time
<1>4. ASSUME NEW v \in Worker PROVE RunOf(v)'
  <2>1. CASE v = w
    BY <1>2, <1>3, <2>1 DEF RunOf, Claimed
  <2>2. CASE v # w
    BY <1>2, <2>2 DEF SafetyInv, RunKnows, RunOf, Claimed, Resolved, rowVars, outVars
  <2> QED BY <2>1, <2>2
<1>5. RunKnows'
  BY <1>4 DEF RunKnows
<1>6. OneRunPerClaim'
  BY <1>2 DEF SafetyInv, OneRunPerClaim, Claimed
<1>7. RowKnows' /\ ReminderFollowsSend'
  BY <1>2 DEF SafetyInv, RowKnows, ReminderFollowsSend, rowVars, outVars
<1> QED BY <1>5, <1>6, <1>7 DEF SafetyInv

\* The cascade of a deleted mailbox touches every row and no run.
LEMMA DisconnectStep ==
  ASSUME SafetyInv, TypeOK', Disconnect
  PROVE  SafetyInv'
<1>1. TypeOK BY DEF SafetyInv
<1>2. /\ \A r \in Row : status'[r] = IF status[r] = "NONE" THEN "NONE" ELSE "DELETED"
      /\ UNCHANGED <<wall, expecting, attempts, outVars, workerVars, shift, now>>
  BY DEF Disconnect
<1>3. RunKnows'
  BY <1>2 DEF SafetyInv, RunKnows, RunOf, Claimed, Resolved, outVars, workerVars
<1>4. RowKnows'
  BY <1>2 DEF SafetyInv, RowKnows, outVars
<1>5. OneRunPerClaim' /\ ReminderFollowsSend'
  BY <1>2 DEF SafetyInv, OneRunPerClaim, ReminderFollowsSend, outVars, workerVars
<1> QED BY <1>3, <1>4, <1>5 DEF SafetyInv

\* New zone rules arrive when no run is under way, so no run relied on the old.
LEMMA NewRulesStep ==
  ASSUME SafetyInv, TypeOK', NewRules
  PROVE  SafetyInv'
<1>1. /\ \A w \in Worker : pc[w] = "idle"
      /\ UNCHANGED <<rowVars, outVars, workerVars, now>>
  BY DEF NewRules
<1>2. RunKnows'
  BY <1>1 DEF SafetyInv, RunKnows, RunOf, Claimed, rowVars, outVars, workerVars
<1>3. RowKnows' /\ OneRunPerClaim' /\ ReminderFollowsSend'
  BY <1>1
  DEF SafetyInv, RowKnows, OneRunPerClaim, ReminderFollowsSend, rowVars, outVars,
      workerVars
<1> QED BY <1>2, <1>3 DEF SafetyInv

LEMMA SafetyStep ==
  ASSUME SafetyInv, [Next]_vars
  PROVE  SafetyInv'
<1>1. TypeOK /\ TypeOK'
  BY TypeStep DEF SafetyInv
<1>2. now \in Int /\ now' \in Int /\ now <= now
  BY <1>1 DEF TypeOK, Time
<1>3. CASE \/ SweepRead \/ SweepEnqueue \/ SweepCrash
           \/ \E r \in Row : QueueStep(r)
           \/ Tick \/ Regrant \/ UNCHANGED vars
  <2>1. UNCHANGED coreVars
    BY <1>3
    DEF SweepRead, SweepEnqueue, SweepCrash, QueueStep, PromoteJob, StallJob, ExpireJob,
        LoseJob, Tick, Regrant, vars, coreVars, rowVars, outVars, workerVars, envVars
  <2>2. now' = now \/ now' = now + 1
    BY <1>3
    DEF SweepRead, SweepEnqueue, SweepCrash, QueueStep, PromoteJob, StallJob, ExpireJob,
        LoseJob, Tick, Regrant, vars, envVars
  <2> QED BY <1>1, <1>2, <2>1, <2>2, FrameStep
<1>4. ASSUME NEW w \in Worker, Throw(w) \/ Crash(w)
      PROVE  SafetyInv'
  <2>1. CASE Crash(w)
    BY <1>1, <2>1, IdleStep DEF Crash, rowVars
  <2> QED BY <1>1, <1>4, <2>1, ThrowStep
<1> QED
  BY <1>1, <1>3, <1>4, RequestStep, RunStep, TakeStep, DisconnectStep, NewRulesStep
  DEF Next

LEMMA SafetyInit == Init => SafetyInv
<1> SUFFICES ASSUME Init PROVE SafetyInv
  OBVIOUS
<1> USE QueueAssumption, SendAssumption DEF Init
<1>1. QueueTypeOK
  BY DEF QueueInit, QueueTypeOK, JobState
<1>2. TypeOK
  BY <1>1 DEF TypeOK, Time, Status, Step, NotAdding
<1>3. RunKnows
  BY DEF RunKnows, RunOf, Claimed
<1>4. RowKnows /\ OneRunPerClaim /\ ReminderFollowsSend
  BY DEF RowKnows, OneRunPerClaim, Claimed, ReminderFollowsSend
<1> QED BY <1>2, <1>3, <1>4 DEF SafetyInv

\* SafetyInv holds in every state of every behaviour.
THEOREM Safety == Spec => []SafetyInv
<1>1. SafetyInv /\ [Next]_vars => SafetyInv'
  BY SafetyStep
<1> QED BY <1>1, SafetyInit, PTL DEF Spec

\* Every variable keeps its type: services/schedule.ts writes only statuses,
\* instants and attempt counts the schema allows.
THEOREM TypeCorrect == Spec => []TypeOK
<1>1. SafetyInv => TypeOK
  BY DEF SafetyInv
<1> QED BY <1>1, Safety, PTL

\* However many triggers a row gets, from however many workers, its message is
\* accepted at most once: the conditional claim in runScheduledSend.
THEOREM SentAtMostOnce == Spec => []AtMostOnce
<1>1. SafetyInv => AtMostOnce
  BY DEF SafetyInv, TypeOK, RowKnows, AtMostOnce
<1> QED BY <1>1, Safety, PTL

\* SENT is told only of a mail that was delivered, CANCELLED only of one that
\* never was and that no run can still send.
THEOREM StatusIsHonest == Spec => []HonestStatus
<1>1. SafetyInv => HonestStatus
  <2>1. ASSUME SafetyInv, NEW r \in Row, status[r] = "CANCELLED"
        PROVE  delivered[r] = 0
    BY <2>1 DEF SafetyInv, TypeOK, RowKnows
  <2> QED
    BY <2>1 DEF SafetyInv, RowKnows, RunKnows, RunOf, Claimed, HonestStatus
<1> QED BY <1>1, Safety, PTL

\* No two runs are ever between the claim and the record of one row.
THEOREM ClaimIsExclusive == Spec => []OneRunPerClaim
<1>1. SafetyInv => OneRunPerClaim
  BY DEF SafetyInv
<1> QED BY <1>1, Safety, PTL

\* A reminder is only set for a mail that went out and expected a reply.
THEOREM RemindedAfterSend == Spec => []ReminderFollowsSend
<1>1. SafetyInv => ReminderFollowsSend
  BY DEF SafetyInv
<1> QED BY <1>1, Safety, PTL

\* Only a run in its send step makes the provider accept anything.
LEMMA OnlySendDelivers ==
  ASSUME SafetyInv, [Next]_vars
  PROVE  \/ delivered' = delivered
         \/ \E w \in Worker : Send(w)
<1>1. ASSUME NEW r \in Row, Request(r) PROVE delivered' = delivered
  BY <1>1
  DEF Request, ScheduleReply, ScheduleNewMessage, Create, QueueTrigger, CancelRead,
      CancelWrite, CancelRemove, outVars
<1>2. ASSUME NEW w \in Worker, RunSend(w) PROVE delivered' = delivered \/ Send(w)
  BY <1>2
  DEF RunSend, Read, Reschedule, Requeue, Claim, Prepare, Record, Remind, MarkFailed,
      Finish, outVars
<1>3. ASSUME NEW r \in Row, QueueStep(r) PROVE delivered' = delivered
  BY <1>3 DEF QueueStep, PromoteJob, StallJob, ExpireJob, LoseJob, outVars
<1>4. ASSUME NEW w \in Worker, Throw(w) \/ Crash(w) \/ \E r \in Row : Take(w, r)
      PROVE  delivered' = delivered
  BY <1>4 DEF Throw, Crash, Take, outVars
<1>5. CASE SweepRead \/ SweepEnqueue \/ SweepCrash
  BY <1>5 DEF SweepRead, SweepEnqueue, SweepCrash, outVars
<1>6. CASE Tick \/ NewRules \/ Regrant \/ Disconnect \/ UNCHANGED vars
  BY <1>6 DEF Tick, NewRules, Regrant, Disconnect, vars, outVars
<1> QED BY <1>1, <1>2, <1>3, <1>4, <1>5, <1>6 DEF Next

\* Mail is never accepted more than the lead before the user's wall time.
THEOREM SentNeverEarly == Spec => NeverEarly
<1>1. ASSUME SafetyInv, [Next]_vars
      PROVE  [\A r \in Row : delivered'[r] > delivered[r] => Resolved(r) - now <= Lead]_vars
  <2>1. ASSUME NEW w \in Worker, Send(w), NEW r \in Row, delivered'[r] > delivered[r]
        PROVE  Resolved(r) - now <= Lead
    <3>1. task[w] \in Row /\ pc[w] = "send"
      BY <1>1, <2>1 DEF Send, SafetyInv, RunKnows, RunOf
    <3>2. delivered \in [Row -> Nat]
      BY <1>1 DEF SafetyInv, TypeOK
    <3>3. task[w] = r
      BY <2>1, <3>1, <3>2 DEF Send
    <3> QED BY <1>1, <3>1, <3>3 DEF SafetyInv, RunKnows, RunOf
  <2>2. ASSUME delivered' = delivered, NEW r \in Row
        PROVE  ~(delivered'[r] > delivered[r])
    <3>1. delivered[r] \in Nat
      BY <1>1 DEF SafetyInv, TypeOK
    <3> QED BY <2>2, <3>1
  <2> QED BY <1>1, <2>1, <2>2, OnlySendDelivers
<1> QED BY <1>1, Safety, PTL DEF Spec, NeverEarly

\* What a step does to Outbox's variables: the statuses, who is committed (a
\* row with an attempt), and what was delivered.
Committed == {r \in Row : attempts[r] > 0}
promiseVars == <<status, attempts, delivered>>

LEMMA PromiseFrame ==
  ASSUME UNCHANGED promiseVars
  PROVE  UNCHANGED Promise!vars
<1>1. status' = status /\ attempts' = attempts /\ delivered' = delivered
  BY DEF promiseVars
<1>2. Committed' = Committed
  BY <1>1 DEF Committed, Row
<1> QED BY <1>1, <1>2 DEF Promise!vars, Committed

\* The steps of requests: accepting and withdrawing.
LEMMA RequestPromise ==
  ASSUME SafetyInv, NEW r \in Row, Request(r)
  PROVE  Promise!Next \/ UNCHANGED promiseVars
<1>t. TypeOK BY DEF SafetyInv
<1>1. ASSUME NEW t \in Wall, NEW e \in BOOLEAN, Create(r, t, e)
      PROVE  Promise!Next
  <2>1. Promise!Accept(r)
    BY <1>1 DEF Create, outVars, Promise!Accept, Promise!Become, Row
  <2> QED BY <2>1 DEF Promise!Next
<1>2. CASE CancelWrite(r)
  <2>1. CASE status[r] = "SCHEDULED"
    <3>1. Promise!Withdraw(r)
      BY <1>2, <2>1
      DEF CancelWrite, FromScheduled, outVars, Promise!Withdraw, Promise!Become, Row
    <3> QED BY <3>1 DEF Promise!Next
  <2>2. CASE status[r] # "SCHEDULED"
    BY <1>2, <2>2 DEF CancelWrite, FromScheduled, outVars, promiseVars
  <2> QED BY <2>1, <2>2
<1>3. CASE QueueTrigger(r) \/ CancelRead(r) \/ CancelRemove(r)
  BY <1>3 DEF QueueTrigger, CancelRead, CancelRemove, rowVars, outVars, promiseVars
<1> QED BY <1>1, <1>2, <1>3 DEF Request, ScheduleReply, ScheduleNewMessage

\* Taking the row is the point of no return, whether the answer arrives or not.
LEMMA SeizePromise ==
  ASSUME SafetyInv, NEW r \in Row, Seize(r), delivered' = delivered
  PROVE  Promise!Next
<1>1. status[r] = "SCHEDULED" /\ attempts[r] = 0
  BY DEF Seize, FromScheduled, SafetyInv, RowKnows
<1>2. attempts' = [attempts EXCEPT ![r] = 1]
  BY <1>1 DEF Seize
<1>3. Committed' = Committed \cup {r}
  BY <1>1, <1>2 DEF SafetyInv, TypeOK, Committed, Row
<1>4. Promise!Commit(r)
  BY <1>3 DEF Seize, FromScheduled, Promise!Commit, Promise!Become, Committed
<1> QED BY <1>4 DEF Promise!Next

\* The steps of a run: committing, delivering, reporting.
LEMMA RunPromise ==
  ASSUME SafetyInv, NEW w \in Worker, RunSend(w)
  PROVE  Promise!Next \/ UNCHANGED promiseVars
<1>t. TypeOK BY DEF SafetyInv
<1> DEFINE r == task[w]
<1>k. pc[w] # "idle" => r \in Row
  BY DEF SafetyInv, RunKnows, RunOf
<1>1. CASE Claim(w)
  <2>1. CASE status[r] = "SCHEDULED"
    <3>1. r \in Row /\ Seize(r) /\ delivered' = delivered
      BY <1>k, <1>1, <2>1 DEF Claim, outVars
    <3> QED BY <3>1, SeizePromise
  <2>2. CASE status[r] # "SCHEDULED"
    BY <1>1, <2>2 DEF Claim, Seize, FromScheduled, outVars, promiseVars
  <2> QED BY <2>1, <2>2
<1>2. CASE Send(w)
  <2>1. CASE delivered' = delivered
    BY <1>2, <2>1 DEF Send, rowVars, promiseVars
  <2>2. CASE delivered' # delivered
    <3>1. /\ r \in Row /\ attempts[r] = 1 /\ delivered[r] = 0
          /\ status[r] \in {"SENDING", "DELETED"}
      BY <1>k, <1>2 DEF Send, SafetyInv, RunKnows, RunOf, Claimed
    <3>2. delivered' = [delivered EXCEPT ![r] = 1]
      BY <1>2, <2>2, <3>1 DEF Send
    <3>3. status' = status /\ attempts' = attempts
      BY <1>2 DEF Send, rowVars
    <3>4. r \in Committed /\ Committed' = Committed
      BY <3>1, <3>3 DEF Committed, Row
    <3>5. Promise!Deliver(r)
      BY <3>1, <3>2, <3>3, <3>4 DEF Promise!Deliver, Committed
    <3> QED BY <3>1, <3>5 DEF Promise!Next
  <2> QED BY <2>1, <2>2
<1>3. CASE Record(w)
  <2>1. /\ r \in Row /\ delivered[r] = 1
        /\ status[r] \in {"SENDING", "DELETED"}
    BY <1>k, <1>3 DEF Record, SafetyInv, RunKnows, RunOf, Claimed
  <2>2. attempts' = attempts /\ delivered' = delivered
    BY <1>3 DEF Record, outVars
  <2>3. Committed' = Committed
    BY <2>2 DEF Committed, Row
  <2>4. CASE status[r] # "DELETED" /\ status' = [status EXCEPT ![r] = "SENT"]
    <3>1. Promise!Report(r)
      BY <2>1, <2>2, <2>3, <2>4 DEF Promise!Report, Promise!Become, Committed
    <3> QED BY <2>1, <3>1 DEF Promise!Next
  <2>5. CASE status' = status
    BY <2>2, <2>5 DEF promiseVars
  <2> QED BY <1>3, <2>4, <2>5 DEF Record
<1>4. CASE MarkFailed(w)
  <2>1. /\ r \in Row
        /\ status[r] \in {"SENDING", "SENT", "DELETED"}
    BY <1>k, <1>4 DEF MarkFailed, SafetyInv, RunKnows, RunOf, Claimed
  <2>2. attempts' = attempts /\ delivered' = delivered
    BY <1>4 DEF MarkFailed, outVars
  <2>3. Committed' = Committed
    BY <2>2 DEF Committed, Row
  <2>4. CASE status[r] # "DELETED" /\ status' = [status EXCEPT ![r] = "FAILED"]
    <3>1. Promise!Report(r)
      BY <2>1, <2>2, <2>3, <2>4 DEF Promise!Report, Promise!Become, Committed
    <3> QED BY <2>1, <3>1 DEF Promise!Next
  <2>5. CASE status' = status
    BY <2>2, <2>5 DEF promiseVars
  <2>6. status' = status \/ status' = [status EXCEPT ![r] = IF status[r] = "DELETED"
                                                            THEN "DELETED" ELSE "FAILED"]
    BY <1>4 DEF MarkFailed
  <2>7. status[r] = "DELETED" => [status EXCEPT ![r] = "DELETED"] = status
    BY <1>t DEF TypeOK
  <2> QED BY <2>1, <2>4, <2>5, <2>6, <2>7
<1>5. CASE \/ Read(w) \/ Reschedule(w) \/ Requeue(w) \/ Prepare(w) \/ Remind(w)
           \/ Finish(w)
  BY <1>5
  DEF Read, Reschedule, Requeue, Prepare, Remind, Finish, rowVars, outVars, promiseVars
<1> QED BY <1>1, <1>2, <1>3, <1>4, <1>5 DEF RunSend

LEMMA PromiseStep ==
  ASSUME SafetyInv, [Next]_vars
  PROVE  [Promise!Next]_(Promise!vars)
<1>1. CASE Disconnect
  <2>1. attempts' = attempts /\ delivered' = delivered
    BY <1>1 DEF Disconnect, outVars
  <2>2. Committed' = Committed
    BY <2>1 DEF Committed, Row
  <2>3. Promise!Forget
    BY <1>1, <2>1, <2>2 DEF Disconnect, Promise!Forget, Committed
  <2> QED BY <2>3 DEF Promise!Next
<1>2. ASSUME NEW w \in Worker, Throw(w) \/ Crash(w) \/ \E r \in Row : Take(w, r)
      PROVE  Promise!Next \/ UNCHANGED promiseVars
  <2>1. CASE Throw(w)
    <3>1. task[w] \in Row /\ delivered' = delivered
      BY <2>1 DEF Throw, SafetyInv, RunKnows, RunOf, outVars
    <3>2. CASE Seize(task[w])
      BY <3>1, <3>2, SeizePromise
    <3> QED BY <2>1, <3>1, <3>2 DEF Throw, promiseVars
  <2> QED BY <1>2, <2>1 DEF Crash, Take, rowVars, outVars, promiseVars
<1>3. ASSUME NEW r \in Row, QueueStep(r)
      PROVE  UNCHANGED promiseVars
  BY <1>3
  DEF QueueStep, PromoteJob, StallJob, ExpireJob, LoseJob, rowVars, outVars, promiseVars
<1>4. CASE SweepRead \/ SweepEnqueue \/ SweepCrash
  <2>1. UNCHANGED promiseVars
    BY <1>4 DEF SweepRead, SweepEnqueue, SweepCrash, rowVars, outVars, promiseVars
  <2> QED BY <2>1, PromiseFrame
<1>5. CASE Tick \/ NewRules \/ Regrant \/ UNCHANGED vars
  <2>1. UNCHANGED promiseVars
    BY <1>5 DEF Tick, NewRules, Regrant, vars, rowVars, outVars, promiseVars
  <2> QED BY <2>1, PromiseFrame
<1> QED
  BY <1>1, <1>2, <1>3, <1>4, <1>5, RequestPromise, RunPromise, PromiseFrame DEF Next

\* The whole component implements Outbox: every behaviour of rows, queue,
\* workers and sweeper is, seen from outside, one the user was promised.
THEOREM Implements == Spec => KeepsPromise
<1>1. Init => Promise!Init
  <2> SUFFICES ASSUME Init PROVE Promise!Init
    OBVIOUS
  <2>1. Committed = {}
    BY DEF Init, Committed, Row
  <2> QED BY <2>1 DEF Init, Promise!Init, Committed
<1>2. SafetyInv /\ [Next]_vars => [Promise!Next]_(Promise!vars)
  BY PromiseStep
<1> QED BY <1>1, <1>2, Safety, PTL DEF Spec, KeepsPromise, Promise!Spec

(************************* The user's wall time ***************************)

\* No wall time is read at that instant or any other: the clocks skip it.
Skipped(asked, zone) == \A t \in Int : utcToZonedWallTime(t, zone) # asked

\* The clock at an instant, by the side of the change on which it falls.
LEMMA Clock ==
  ASSUME NEW zone \in Zone, NEW t \in Int
  PROVE  /\ zone.at \in Int /\ zone.before \in Int /\ zone.after \in Int
         /\ utcToZonedWallTime(t, zone) \in Int
         /\ t < zone.at => utcToZonedWallTime(t, zone) = t + zone.before
         /\ t >= zone.at => utcToZonedWallTime(t, zone) = t + zone.after
<1>1. zone.at \in Int /\ zone.before \in Int /\ zone.after \in Int
  BY DEF Zone
<1> QED
  BY <1>1 DEF utcToZonedWallTime

\* The two passes, by the side of the change on which each looks.
LEMMA Passes ==
  ASSUME NEW zone \in Zone, NEW asked \in Int
  PROVE  /\ FirstGuess(asked, zone) \in Int /\ Corrected(asked, zone) \in Int
         /\ asked < zone.at => FirstGuess(asked, zone) = asked - zone.before
         /\ asked >= zone.at => FirstGuess(asked, zone) = asked - zone.after
         /\ FirstGuess(asked, zone) < zone.at => Corrected(asked, zone) = asked - zone.before
         /\ FirstGuess(asked, zone) >= zone.at => Corrected(asked, zone) = asked - zone.after
<1>1. zone.at \in Int /\ zone.before \in Int /\ zone.after \in Int
  BY Clock
<1>2. ASSUME NEW t \in Int
      PROVE  /\ t < zone.at => offsetMinutesAt(t, zone) = zone.before
             /\ t >= zone.at => offsetMinutesAt(t, zone) = zone.after
  BY <1>1, Clock DEF offsetMinutesAt
<1>3. /\ FirstGuess(asked, zone) \in Int
      /\ asked < zone.at => FirstGuess(asked, zone) = asked - zone.before
      /\ asked >= zone.at => FirstGuess(asked, zone) = asked - zone.after
  BY <1>1, <1>2 DEF FirstGuess
<1> QED
  BY <1>1, <1>2, <1>3 DEF Corrected

\* A time that the clocks show is kept: the instant computed for it is one at
\* which they show it, wherever the change of the clocks falls.
THEOREM WallTimeKept ==
  ASSUME NEW zone \in Zone, NEW asked \in Int, ~Skipped(asked, zone)
  PROVE  utcToZonedWallTime(Instant(asked, zone), zone) = asked
<1>1. PICK t \in Int : utcToZonedWallTime(t, zone) = asked
  BY DEF Skipped
<1>2. PICK g \in Int, c \in Int : g = FirstGuess(asked, zone) /\ c = Corrected(asked, zone)
  BY Passes
<1>3. utcToZonedWallTime(c, zone) = asked \/ utcToZonedWallTime(g, zone) = asked
  BY <1>1, <1>2, Passes, Clock
<1> QED
  BY <1>2, <1>3 DEF Instant

\* A time that the clocks skip lies within the jump.
LEMMA SkippedWithin ==
  ASSUME NEW zone \in Zone, NEW asked \in Int, Skipped(asked, zone)
  PROVE  zone.at + zone.before <= asked /\ asked < zone.at + zone.after
<1>1. zone.at \in Int /\ zone.before \in Int /\ zone.after \in Int
  BY DEF Zone
<1>2. zone.at + zone.before <= asked
  <2>1. asked - zone.before \in Int
    BY <1>1
  <2>2. utcToZonedWallTime(asked - zone.before, zone) # asked
    BY <2>1 DEF Skipped
  <2> QED
    BY <1>1, <2>2 DEF utcToZonedWallTime
<1>3. asked < zone.at + zone.after
  <2>1. asked - zone.after \in Int
    BY <1>1
  <2>2. utcToZonedWallTime(asked - zone.after, zone) # asked
    BY <2>1 DEF Skipped
  <2> QED
    BY <1>1, <2>2 DEF utcToZonedWallTime
<1> QED
  BY <1>2, <1>3

\* West of Greenwich a time that the clocks skip becomes the one as long after
\* the jump as it is into it.
THEOREM SkippedWestIsLater ==
  ASSUME NEW zone \in Zone, zone.before <= 0, zone.after <= 0,
         NEW asked \in Int, Skipped(asked, zone)
  PROVE  utcToZonedWallTime(Instant(asked, zone), zone) = asked + (zone.after - zone.before)
<1>1. utcToZonedWallTime(Corrected(asked, zone), zone) # asked
  BY Passes DEF Skipped
<1>2. Instant(asked, zone) = FirstGuess(asked, zone)
  BY <1>1 DEF Instant
<1> QED
  BY <1>2, SkippedWithin, Passes, Clock

\* East of Greenwich it becomes an earlier one than was asked for.
THEOREM SkippedEastIsEarlier ==
  ASSUME NEW zone \in Zone, zone.before >= 0, zone.after >= 0,
         NEW asked \in Int, Skipped(asked, zone)
  PROVE  utcToZonedWallTime(Instant(asked, zone), zone) = asked - (zone.after - zone.before)
<1>1. utcToZonedWallTime(Corrected(asked, zone), zone) # asked
  BY Passes DEF Skipped
<1>2. Instant(asked, zone) = FirstGuess(asked, zone)
  BY <1>1 DEF Instant
<1> QED
  BY <1>2, SkippedWithin, Passes, Clock

\* A time that the clocks show twice is the first of the two west of Greenwich,
\* and the second east of it.
THEOREM ShownTwice ==
  ASSUME NEW zone \in Zone, NEW first \in Int, NEW second \in Int, first < second,
         utcToZonedWallTime(first, zone) = utcToZonedWallTime(second, zone)
  PROVE  LET chosen == Instant(utcToZonedWallTime(first, zone), zone)
         IN  /\ zone.before <= 0 /\ zone.after <= 0 => chosen = first
             /\ zone.before >= 0 /\ zone.after >= 0 => chosen = second
<1> DEFINE asked == utcToZonedWallTime(first, zone)
<1>1. asked \in Int
  BY Clock
<1>2. first < zone.at /\ second >= zone.at
  BY Clock
<1>3. first = asked - zone.before /\ second = asked - zone.after
  BY <1>2, Clock
<1>4. ASSUME zone.before <= 0, zone.after <= 0
      PROVE  Instant(asked, zone) = first
  BY <1>1, <1>2, <1>3, <1>4, Passes, Clock DEF Instant
<1>5. ASSUME zone.before >= 0, zone.after >= 0
      PROVE  Instant(asked, zone) = second
  BY <1>1, <1>2, <1>3, <1>5, Passes, Clock DEF Instant
<1> QED
  BY <1>4, <1>5
=============================================================================
