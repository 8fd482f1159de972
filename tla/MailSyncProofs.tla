--------------------------- MODULE MailSyncProofs ---------------------------
(***************************************************************************)
(* What MailSync guarantees for any number of threads, workers, changes    *)
(* and faults, any ceiling of a delta and any size of a page: the types;   *)
(* that the cursor never passes a message that is not stored, but on a     *)
(* thread an aborted delta has left, as long as no checkpoint is replaced  *)
(* under a worker that lists for it; and that the locks of the jobs see to *)
(* that.  Then of Inbox: the pages of a list that changes while it is      *)
(* read.                                                                   *)
(***************************************************************************)
EXTENDS MailSync, Inbox, JobQueueProofs, SequenceTheorems, FiniteSetTheorems,
        TLAPS

(***************************************************************************)
(* Types.                                                                  *)
(***************************************************************************)

\* The values runs are made of.
LEMMA Values ==
  /\ Worker \subseteq Proc /\ User \subseteq Proc /\ Keeper \subseteq Proc
  /\ None \in Cursor /\ 0 \in Cursor
  /\ Nothing \in [Thread -> SUBSET Message]
  /\ Rest \in Run
  /\ "delta" \in Id /\ "backfill" \in Id
<1>1. Nothing \in [Thread -> SUBSET Message]
  BY DEF Nothing
<1>2. None \in Cursor /\ 0 \in Cursor
  BY SyncAssumption DEF None, Cursor
<1>3. Rest \in Run
  BY <1>1, <1>2 DEF Rest, Run, Step
<1> QED
  BY <1>1, <1>2, <1>3, SyncAssumption DEF Proc

\* The length of the history is an instant, and what is on a thread are messages.
LEMMA NowType ==
  ASSUME TypeOK
  PROVE  /\ Now \in 0..MaxHistory /\ Now \in Cursor
         /\ \A h \in 1..Now : history[h] \in [thread: Thread, gone: 0..MaxHistory]
         /\ \A t \in Thread : There(t) \in SUBSET Message
<1>1. Now \in 0..MaxHistory /\ MaxHistory \in Nat
  BY SyncAssumption DEF TypeOK, Now
<1>2. \A h \in 1..Now : history[h] \in [thread: Thread, gone: 0..MaxHistory]
  <2> DEFINE E == [thread: Thread, gone: 0..MaxHistory]
  <2>1. history \in Seq(E)
    BY DEF TypeOK
  <2> HIDE DEF E
  <2>2. \A h \in 1..Len(history) : history[h] \in E
    BY <2>1
  <2> QED BY <2>2 DEF Now, E
<1>3. \A t \in Thread : There(t) \in SUBSET Message
  BY <1>1 DEF There, Message
<1> QED
  BY <1>1, <1>2, <1>3 DEF Cursor

\* What changed after an instant are threads.
LEMMA TouchedType ==
  ASSUME TypeOK, NEW c \in 0..MaxHistory
  PROVE  Touched(c) \subseteq Thread /\ Taken(c) \subseteq Touched(c)
<1>1. \A h \in (c + 1)..Now : h \in 1..Now
  BY NowType
<1>2. Touched(c) \subseteq Thread
  BY <1>1, NowType DEF Touched
<1> QED
  BY <1>2 DEF Taken

\* A field of a run takes a value of its type.
LEMMA RunField ==
  ASSUME NEW r \in Run
  PROVE  /\ \A s \in Step : [r EXCEPT !.pc = s] \in Run
         /\ \A c \in Cursor : [r EXCEPT !.upto = c] \in Run /\ [r EXCEPT !.from = c] \in Run
         /\ \A T \in SUBSET Thread : [r EXCEPT !.todo = T] \in Run /\ [r EXCEPT !.page = T] \in Run
         /\ \A b \in BOOLEAN : [r EXCEPT !.late = b] \in Run /\ [r EXCEPT !.failing = b] \in Run
                                 /\ [r EXCEPT !.aborted = b] \in Run
         /\ \A f \in [Thread -> SUBSET Message] : [r EXCEPT !.copy = f] \in Run
         /\ \A i \in Id : [r EXCEPT !.job = i] \in Run
BY DEF Run

LEMMA GotoType ==
  ASSUME TypeOK, NEW p \in Proc, NEW r \in Run, Goto(p, r)
  PROVE  run' \in [Proc -> Run]
BY DEF TypeOK, Goto

\* An add, and the end of a job, leave the queue and the attempts well typed.
LEMMA EnqueueTypes ==
  ASSUME TypeOK, NEW i \in Id, NEW delay \in {0, 1}, Enqueue(i, delay)
  PROVE  QueueTypeOK' /\ tries' \in [Id -> 0..(Attempts - 1)]
<1>1. 0 \in 0..Horizon /\ 0 \in 0..(Attempts - 1)
  BY QueueAssumption, SyncAssumption
<1>2. CASE Vacant(i)
  <2>1. Insert(i, delay, 0) /\ tries' = [tries EXCEPT ![i] = 0]
    BY <1>2 DEF Enqueue
  <2> QED
    BY <1>1, <2>1, InsertType DEF TypeOK
<1>3. CASE ~Vacant(i)
  BY <1>3, IdleQueueType DEF Enqueue, TypeOK, queueVars
<1> QED BY <1>2, <1>3

LEMMA RefuseTypes ==
  ASSUME TypeOK, NEW p \in Proc, Refuse(p)
  PROVE  /\ QueueTypeOK' /\ tries' \in [Id -> 0..(Attempts - 1)]
         /\ run' \in [Proc -> Run]
<1>1. run' \in [Proc -> Run]
  BY GotoType, Values DEF Refuse
<1>2. QueueTypeOK'
  BY ReleaseType, IdleQueueType DEF Refuse, TypeOK
<1> QED
  BY <1>1, <1>2 DEF Refuse, TypeOK

LEMMA FailTypes ==
  ASSUME TypeOK, NEW i, NEW w \in Worker, Fail(i, w)
  PROVE  QueueTypeOK' /\ tries' \in [Id -> 0..(Attempts - 1)]
<1>1. CASE LastAttempt(i) /\ Release(i, w, "failed") /\ UNCHANGED tries
  BY <1>1, ReleaseType DEF TypeOK
<1>2. CASE /\ ~LastAttempt(i) /\ Retry(i, w)
           /\ tries' = IF lock[i] = w THEN [tries EXCEPT ![i] = @ + 1] ELSE tries
  <2>1. QueueTypeOK'
    BY <1>2, RetryType DEF TypeOK
  <2>2. ASSUME i \in Id PROVE tries[i] + 1 \in 0..(Attempts - 1)
    <3>1. tries[i] \in 0..(Attempts - 1) /\ Attempts \in Nat
      BY <2>2, SyncAssumption DEF TypeOK
    <3> QED BY <1>2, <3>1 DEF LastAttempt
  <2>3. tries' \in [Id -> 0..(Attempts - 1)]
    BY <1>2, <2>2 DEF TypeOK
  <2> QED BY <2>1, <2>3
<1> QED BY <1>1, <1>2 DEF Fail

LEMMA FaultType ==
  ASSUME TypeOK, NEW kind, Fault(kind)
  PROVE  faults' \in 0..MaxFaults
BY SyncAssumption DEF Fault, TypeOK

LEMMA InitTypes == Init => TypeOK
<1> SUFFICES ASSUME Init PROVE TypeOK
  OBVIOUS
<1>1. QueueTypeOK
  BY QueueAssumption DEF Init, QueueInit, QueueTypeOK, JobState
<1>2. run \in [Proc -> Run] /\ stored \in [Thread -> SUBSET Message]
  BY Values DEF Init
<1>3. history \in Seq([thread: Thread, gone: 0..MaxHistory]) /\ Len(history) \in 0..MaxHistory
  BY SyncAssumption DEF Init
<1>4. tries \in [Id -> 0..(Attempts - 1)]
  BY SyncAssumption DEF Init
<1>5. status \in Status /\ cursor \in Cursor /\ mark \in Cursor /\ token \in SUBSET Thread
  BY Values DEF Init, Status
<1>6. served \in 0..MaxHistory /\ faults \in 0..MaxFaults
  BY SyncAssumption DEF Init
<1>7. grant \in BOOLEAN /\ due \in BOOLEAN
  BY Zenon DEF Init
<1>8. stalled \in SUBSET Id /\ cut \in SUBSET Thread
  BY DEF Init
<1> QED
  BY <1>1, <1>2, <1>3, <1>4, <1>5, <1>6, <1>7, <1>8 DEF TypeOK

\* Steps of the provider, of notifications and of the queue.
LEMMA EnvironmentTypes ==
  ASSUME TypeOK,
         \/ Provider \/ Push
         \/ \E i \in Id : PromoteJob(i) \/ StallJob(i) \/ LoseJob(i)
  PROVE  TypeOK'
<1>1. ASSUME NEW t \in Thread, NEW m \in 0..MaxHistory, Change(t, m) PROVE TypeOK'
  <2>1. [thread |-> t, gone |-> m] \in [thread: Thread, gone: 0..MaxHistory]
    BY <1>1
  <2>2. history' \in Seq([thread: Thread, gone: 0..MaxHistory]) /\ Len(history') = Len(history) + 1
    BY <1>1, <2>1, AppendProperties DEF Change, TypeOK
  <2>3. Len(history') \in 0..MaxHistory
    BY <1>1, <2>2, NowType, SyncAssumption DEF Change, Now
  <2>4. QueueTypeOK'
    BY <1>1, IdleQueueType DEF Change, TypeOK
  <2> QED
    BY <1>1, <2>2, <2>3, <2>4 DEF Change, TypeOK, rowVars
<1>2. CASE \E t \in Thread : Arrive(t)
  BY <1>1, <1>2, SyncAssumption DEF Arrive
<1>3. CASE \E t \in Thread : Remove(t)
  <2>1. PICK t \in Thread : \E m \in There(t) : Change(t, m)
    BY <1>3 DEF Remove
  <2>2. There(t) \subseteq 0..MaxHistory
    BY NowType, SyncAssumption DEF Message
  <2> QED BY <1>1, <2>1, <2>2
<1>4. CASE ExpireHistory \/ Revoke \/ Reconnect \/ Refresh
  <2>1. QueueTypeOK'
    BY <1>4, IdleQueueType DEF ExpireHistory, Revoke, Reconnect, Refresh, TypeOK
  <2>2. served' \in 0..MaxHistory
    <3>1. CASE ExpireHistory
      <4>1. PICK h \in (served + 1)..Now : served' = h
        BY <3>1 DEF ExpireHistory
      <4> QED BY <4>1, NowType, SyncAssumption DEF TypeOK
    <3> QED BY <1>4, <3>1 DEF Revoke, Reconnect, Refresh, TypeOK, envVars
  <2>3. faults' \in 0..MaxFaults
    BY <1>4, FaultType DEF ExpireHistory, Revoke, Reconnect, Refresh, TypeOK
  <2>4. grant' \in BOOLEAN
    <3>1. CASE ExpireHistory
      BY Zenon, <3>1 DEF ExpireHistory, TypeOK
    <3>2. CASE Revoke
      BY Zenon, <3>2 DEF Revoke
    <3>3. CASE Reconnect
      BY Zenon, <3>3 DEF Reconnect
    <3>4. CASE Refresh
      BY Zenon, <3>4 DEF Refresh, TypeOK, envVars
    <3> QED BY <1>4, <3>1, <3>2, <3>3, <3>4
  <2>5. status' \in Status
    BY <1>4 DEF ExpireHistory, Revoke, Reconnect, Refresh, TypeOK, rowVars, Status
  <2> QED
    BY <1>4, <2>1, <2>2, <2>3, <2>4, <2>5
    DEF ExpireHistory, Revoke, Reconnect, Refresh, TypeOK, envVars, rowVars
<1>5. CASE Push
  <2>1. QueueTypeOK' /\ tries' \in [Id -> 0..(Attempts - 1)]
    BY <1>5, EnqueueTypes, IdleQueueType, Values DEF Push, TypeOK
  <2> QED
    BY <1>5, <2>1 DEF Push, TypeOK, rowVars
<1>6. ASSUME NEW i \in Id, PromoteJob(i) \/ StallJob(i) \/ LoseJob(i) PROVE TypeOK'
  <2>1. QueueTypeOK'
    BY <1>6, PromoteType, StallType, ClearType, QueueAssumption
    DEF PromoteJob, StallJob, LoseJob, TypeOK
  <2>2. faults' \in 0..MaxFaults
    BY <1>6, FaultType DEF PromoteJob, StallJob, LoseJob, TypeOK, syncVars
  <2>3. stalled' \in SUBSET Id
    BY <1>6 DEF PromoteJob, StallJob, LoseJob, TypeOK, envVars, syncVars
  <2> QED
    BY <1>6, <2>1, <2>2, <2>3
    DEF PromoteJob, StallJob, LoseJob, TypeOK, envVars, rowVars, syncVars
<1> QED
  BY <1>2, <1>3, <1>4, <1>5, <1>6 DEF Provider

\* Steps of a process keep what belongs to the provider, and the faults.
LEMMA KeptTypes ==
  ASSUME TypeOK, UNCHANGED <<history, served, grant>>, due' \in BOOLEAN,
         stalled' \in SUBSET Id, cut' \in SUBSET Thread,
         QueueTypeOK', tries' \in [Id -> 0..(Attempts - 1)], faults' \in 0..MaxFaults,
         run' \in [Proc -> Run], stored' \in [Thread -> SUBSET Message],
         status' \in Status, cursor' \in Cursor, mark' \in Cursor, token' \in SUBSET Thread
  PROVE  TypeOK'
BY DEF TypeOK

\* Steps of a job, of a request and of the keeper that are the same for all of them.
LEMMA CommonTypes ==
  ASSUME TypeOK, NEW p \in Proc,
         \/ StartBackfill(p) \/ Denied(p) \/ Watch(p) \/ Watching(p) \/ Throw(p) \/ Crash(p)
  PROVE  TypeOK'
<1> run[p] \in Run
  BY DEF TypeOK
<1>1. CASE AskLoad(p)
  <2>1. QueueTypeOK' /\ tries' \in [Id -> 0..(Attempts - 1)] /\ run' \in [Proc -> Run]
    BY <1>1, RefuseTypes, IdleQueueType, GotoType, RunField DEF AskLoad, Step, TypeOK
  <2> QED BY <1>1, <2>1 DEF AskLoad, TypeOK, envVars, rowVars
<1>2. CASE AddBackfill(p)
  <2>1. QueueTypeOK' /\ tries' \in [Id -> 0..(Attempts - 1)]
    BY <1>2, EnqueueTypes, Values DEF AddBackfill
  <2>2. run' \in [Proc -> Run]
    BY <1>2, GotoType, RunField DEF AddBackfill, Step
  <2> QED BY <1>2, <2>1, <2>2 DEF AddBackfill, TypeOK, envVars, rowVars
<1>3. CASE MarkPending(p) \/ Watch(p)
  <2>1. QueueTypeOK' /\ run' \in [Proc -> Run]
    BY <1>3, IdleQueueType, GotoType, RunField DEF MarkPending, Watch, Step, TypeOK
  <2>2. status' \in Status
    BY <1>3 DEF MarkPending, Watch, TypeOK, Status, rowVars
  <2> QED BY <1>3, <2>1, <2>2 DEF MarkPending, Watch, TypeOK, envVars, rowVars
<1>4. CASE Watching(p)
  <2>1. QueueTypeOK' /\ run' \in [Proc -> Run]
    BY <1>4, IdleQueueType, GotoType, RunField DEF Watching, Step, TypeOK
  <2>2. status' \in Status
    BY <1>4 DEF Watching, TypeOK, Status
  <2> QED BY <1>4, <2>1, <2>2 DEF Watching, TypeOK, envVars
<1>5. CASE End(p)
  <2>1. QueueTypeOK'
    BY <1>5, ReleaseType, IdleQueueType DEF End, TypeOK
  <2>2. run' \in [Proc -> Run]
    BY <1>5, GotoType, Values DEF End
  <2> QED BY <1>5, <2>1, <2>2 DEF End, TypeOK, envVars, rowVars
<1>6. CASE Denied(p)
  <2>1. QueueTypeOK' /\ tries' \in [Id -> 0..(Attempts - 1)] /\ run' \in [Proc -> Run]
    BY <1>6, RefuseTypes DEF Denied
  <2>2. status' \in Status
    BY <1>6 DEF Denied, TypeOK, Status
  <2> QED BY <1>6, <2>1, <2>2 DEF Denied, TypeOK, envVars
<1>7. CASE Throw(p)
  <2>1. QueueTypeOK' /\ tries' \in [Id -> 0..(Attempts - 1)]
    BY <1>7, FailTypes, IdleQueueType DEF Throw, TypeOK
  <2>2. run' \in [Proc -> Run] /\ faults' \in 0..MaxFaults
    BY <1>7, GotoType, Values, FaultType DEF Throw
  <2>3. status' \in Status
    BY <1>7 DEF Throw, TypeOK, Status
  <2> QED BY <1>7, <2>1, <2>2, <2>3 DEF Throw, TypeOK, envVars
<1>8. CASE Crash(p)
  <2>1. QueueTypeOK'
    BY <1>8, AbandonType, IdleQueueType DEF Crash, TypeOK
  <2>2. run' \in [Proc -> Run] /\ faults' \in 0..MaxFaults
    BY <1>8, GotoType, Values, FaultType DEF Crash
  <2> QED BY <1>8, <2>1, <2>2 DEF Crash, TypeOK, envVars, rowVars
<1> QED
  BY <1>1, <1>2, <1>3, <1>4, <1>5, <1>6, <1>7, <1>8 DEF StartBackfill

\* A run is aborted, and finds that it is.
LEMMA AbortTypes ==
  ASSUME TypeOK,
         \/ \E i \in Id : AbortStalled(i)
         \/ \E w \in Worker : Shutdown(w) \/ Cancelled(w)
  PROVE  TypeOK'
<1>1. ASSUME NEW i \in Id, AbortStalled(i) PROVE TypeOK'
  <2>1. QueueTypeOK' /\ stalled' \in SUBSET Id
    BY <1>1, IdleQueueType DEF AbortStalled, TypeOK
  <2>2. run' \in [Proc -> Run]
    <3>1. CASE UNCHANGED run
      BY <3>1 DEF TypeOK
    <3>2. CASE \E w \in Worker : Goto(w, [run[w] EXCEPT !.aborted = TRUE])
      <4>1. PICK w \in Worker : Goto(w, [run[w] EXCEPT !.aborted = TRUE])
        BY <3>2
      <4>2. w \in Proc /\ run[w] \in Run
        BY Values DEF TypeOK
      <4> QED BY <4>1, <4>2, GotoType, RunField
    <3> QED BY <1>1, <3>1, <3>2 DEF AbortStalled
  <2> QED BY <1>1, <2>1, <2>2 DEF AbortStalled, TypeOK, rowVars
<1>2. ASSUME NEW w \in Worker, Shutdown(w) PROVE TypeOK'
  <2>1. w \in Proc /\ run[w] \in Run
    BY Values DEF TypeOK
  <2>2. QueueTypeOK' /\ run' \in [Proc -> Run] /\ faults' \in 0..MaxFaults
    BY <1>2, <2>1, IdleQueueType, GotoType, RunField, FaultType DEF Shutdown, TypeOK
  <2> QED BY <1>2, <2>2 DEF Shutdown, TypeOK, envVars, rowVars
<1>3. ASSUME NEW w \in Worker, Cancelled(w) PROVE TypeOK'
  <2>1. QueueTypeOK' /\ tries' \in [Id -> 0..(Attempts - 1)]
    BY <1>3, FailTypes DEF Cancelled
  <2>2. run' \in [Proc -> Run]
    BY <1>3, GotoType, Values DEF Cancelled
  <2>3. status' \in Status
    BY <1>3 DEF Cancelled, TypeOK, Status
  <2> QED BY <1>3, <2>1, <2>2, <2>3 DEF Cancelled, TypeOK, envVars
<1> QED BY <1>1, <1>2, <1>3

\* Steps of a delta.
LEMMA DeltaTypes ==
  ASSUME TypeOK, NEW w \in Worker, RunDelta(w)
  PROVE  TypeOK'
<1> w \in Proc /\ run[w] \in Run
  BY Values DEF TypeOK
<1>1. CASE Load(w)
  <2>1. QueueTypeOK' /\ tries' \in [Id -> 0..(Attempts - 1)]
    BY <1>1, RefuseTypes, IdleQueueType DEF Load, TypeOK
  <2>2. [run[w] EXCEPT !.pc = "history", !.from = cursor, !.failing = (status = "ERROR")] \in Run
    BY DEF Run, Step, TypeOK
  <2>3. [run[w] EXCEPT !.pc = "ask"] \in Run
    BY RunField DEF Step
  <2>4. run' \in [Proc -> Run]
    BY <1>1, <2>2, <2>3, RefuseTypes, GotoType DEF Load
  <2> QED BY <1>1, <2>1, <2>4 DEF Load, TypeOK, envVars, rowVars
<1>2. CASE History(w)
  <2> DEFINE c == run[w].from
  <2>1. c \in Cursor
    BY DEF Run
  <2>2. CASE c < served
    <3>1. [Rest EXCEPT !.job = "delta", !.pc = "ask"] \in Run
      BY Values DEF Run, Step
    <3>2. run' \in [Proc -> Run] /\ cursor' \in Cursor /\ UNCHANGED stored
      BY <1>2, <2>1, <2>2, <3>1, GotoType, Values DEF History, TypeOK, Cursor, None
    <3> QED BY <1>2, <3>2, IdleQueueType DEF History, TypeOK, envVars
  <2>3. CASE ~(c < served)
    <3>1. /\ stored' = [t \in Thread |-> stored[t] \ Gone(c)]
          /\ Goto(w, [run[w] EXCEPT !.pc = "loop", !.from = None, !.upto = Now,
                        !.todo = Taken(c), !.failing = @ /\ Touched(c) # {},
                        !.late = (Taken(c) # Touched(c))])
          /\ UNCHANGED cursor
      BY <1>2, <2>3 DEF History
    <3>2. c \in 0..MaxHistory
      BY <1>2, <2>1, <2>3, <3>1 DEF History, TypeOK, Cursor, None
    <3>3. [run[w] EXCEPT !.pc = "loop", !.from = None, !.upto = Now,
                        !.todo = Taken(c), !.failing = @ /\ Touched(c) # {},
                        !.late = (Taken(c) # Touched(c))] \in Run
      BY <3>2, TouchedType, NowType, Values DEF Run, Step
    <3>4. stored' \in [Thread -> SUBSET Message]
      BY <3>1 DEF TypeOK
    <3>5. run' \in [Proc -> Run]
      BY <3>1, <3>3, GotoType
    <3> QED BY <1>2, <3>1, <3>4, <3>5, IdleQueueType DEF History, TypeOK, envVars
  <2> QED BY <2>2, <2>3
<1>3. CASE Fetch(w)
  <2>1. PICK t \in run[w].todo :
       \/ /\ There(t) # {}
          /\ Goto(w, [run[w] EXCEPT !.pc = "persist", !.todo = @ \ {t}, !.page = {t},
                        !.copy = [Nothing EXCEPT ![t] = There(t)]])
          /\ UNCHANGED stored
       \/ /\ There(t) = {}
          /\ Goto(w, [run[w] EXCEPT !.todo = @ \ {t}])
          /\ stored' = [stored EXCEPT ![t] = {}] \/ UNCHANGED stored
    BY <1>3 DEF Fetch
  <2>2. t \in Thread
    BY <2>1 DEF Run
  <2>3. [Nothing EXCEPT ![t] = There(t)] \in [Thread -> SUBSET Message]
    BY <2>2, NowType, Values
  <2>4. [run[w] EXCEPT !.pc = "persist", !.todo = @ \ {t}, !.page = {t},
                        !.copy = [Nothing EXCEPT ![t] = There(t)]] \in Run
    BY <2>2, <2>3 DEF Run, Step
  <2>5. [run[w] EXCEPT !.todo = @ \ {t}] \in Run
    BY DEF Run
  <2>6. run' \in [Proc -> Run]
    BY <2>1, <2>4, <2>5, GotoType
  <2>7. stored' \in [Thread -> SUBSET Message]
    BY <2>1 DEF TypeOK
  <2> QED BY <1>3, <2>6, <2>7, IdleQueueType DEF Fetch, TypeOK, envVars, rowVars
<1>4. CASE Persist(w)
  <2>1. PICK t \in run[w].page :
       /\ stored' = [stored EXCEPT ![t] = @ \cup run[w].copy[t]]
       /\ Goto(w, [run[w] EXCEPT
                     !.page = @ \ {t}, !.copy[t] = {},
                     !.pc = IF run[w].page # {t} THEN @
                            ELSE IF run[w].job = "delta" THEN "loop" ELSE "page"])
    BY <1>4 DEF Persist
  <2>2. t \in Thread /\ run[w].copy[t] \in SUBSET Message
    BY <2>1 DEF Run
  <2>3. [run[w] EXCEPT
                     !.page = @ \ {t}, !.copy[t] = {},
                     !.pc = IF run[w].page # {t} THEN @
                            ELSE IF run[w].job = "delta" THEN "loop" ELSE "page"] \in Run
    BY DEF Run, Step
  <2>4. run' \in [Proc -> Run]
    BY <2>1, <2>3, GotoType
  <2>5. stored' \in [Thread -> SUBSET Message]
    BY <2>1, <2>2 DEF TypeOK
  <2> QED BY <1>4, <2>4, <2>5, IdleQueueType DEF Persist, TypeOK, envVars, rowVars
<1>5. CASE Advance(w)
  <2>1. QueueTypeOK' /\ tries' \in [Id -> 0..(Attempts - 1)]
    BY <1>5, EnqueueTypes, IdleQueueType, Values DEF Advance, TypeOK
  <2>2. cursor' \in Cursor /\ status' \in Status
    BY <1>5 DEF Advance, TypeOK, Run, Status
  <2>3. [Rest EXCEPT !.job = "delta", !.pc = "end"] \in Run
    BY Values DEF Run, Step
  <2>4. run' \in [Proc -> Run]
    BY <1>5, <2>3, GotoType DEF Advance
  <2> QED BY <1>5, <2>1, <2>2, <2>4 DEF Advance, TypeOK, envVars
<1>6. CASE Break(w)
  <2>1. run' \in [Proc -> Run]
    BY <1>6, GotoType, RunField DEF Break
  <2>2. cut' \in SUBSET Thread
    BY <1>6 DEF Break, TypeOK, Run
  <2> QED BY <1>6, <2>1, <2>2, IdleQueueType DEF Break, TypeOK, rowVars
<1> QED
  BY <1>1, <1>2, <1>3, <1>4, <1>5, <1>6 DEF RunDelta

\* Steps of a backfill.
LEMMA BackfillTypes ==
  ASSUME TypeOK, NEW w \in Worker, RunBackfill(w)
  PROVE  TypeOK'
<1> w \in Proc /\ run[w] \in Run
  BY Values DEF TypeOK
<1>1. CASE Open(w)
  <2>1. QueueTypeOK' /\ tries' \in [Id -> 0..(Attempts - 1)]
    BY <1>1, RefuseTypes, IdleQueueType DEF Open, TypeOK
  <2>2. [run[w] EXCEPT !.pc = "begin", !.upto = mark, !.todo = token] \in Run
    BY DEF Run, Step, TypeOK
  <2>3. run' \in [Proc -> Run]
    BY <1>1, <2>2, RefuseTypes, GotoType DEF Open
  <2> QED BY <1>1, <2>1, <2>3 DEF Open, TypeOK, envVars, rowVars
<1>2. CASE Begin(w)
  <2>1. run' \in [Proc -> Run]
    BY <1>2, GotoType, RunField DEF Begin, Step
  <2> QED BY <1>2, <2>1, IdleQueueType DEF Begin, TypeOK, envVars, Status
<1>3. CASE Profile(w)
  <2>1. [run[w] EXCEPT !.pc = "list", !.upto = Now, !.todo = Thread] \in Run
    BY NowType DEF Run, Step
  <2>2. run' \in [Proc -> Run] /\ mark' \in Cursor /\ token' \in SUBSET Thread
    BY <1>3, <2>1, GotoType, NowType DEF Profile
  <2> QED BY <1>3, <2>2, IdleQueueType DEF Profile, TypeOK, envVars
<1>4. CASE List(w)
  <2>1. PICK moved \in SUBSET (run[w].todo \cap Touched(run[w].upto)) :
       \E P \in SUBSET {t \in run[w].todo \ moved : There(t) # {}} :
         Goto(w, [run[w] EXCEPT !.pc = IF P = {} THEN "page" ELSE "persist",
                       !.todo = {t \in run[w].todo \ moved : There(t) # {}} \ P, !.page = P,
                       !.copy = [t \in Thread |-> IF t \in P THEN There(t) ELSE {}]])
    BY <1>4 DEF List
  <2> DEFINE behind == {t \in run[w].todo \ moved : There(t) # {}}
  <2>2. PICK P \in SUBSET behind :
         Goto(w, [run[w] EXCEPT !.pc = IF P = {} THEN "page" ELSE "persist",
                       !.todo = behind \ P, !.page = P,
                       !.copy = [t \in Thread |-> IF t \in P THEN There(t) ELSE {}]])
    BY <2>1
  <2>3. behind \subseteq Thread
    BY DEF Run
  <2>4. [t \in Thread |-> IF t \in P THEN There(t) ELSE {}] \in [Thread -> SUBSET Message]
    BY NowType
  <2> HIDE DEF behind
  <2>5. [run[w] EXCEPT !.pc = IF P = {} THEN "page" ELSE "persist",
                       !.todo = behind \ P, !.page = P,
                       !.copy = [t \in Thread |-> IF t \in P THEN There(t) ELSE {}]] \in Run
    BY <2>3, <2>4 DEF Run, Step
  <2>6. run' \in [Proc -> Run]
    BY <2>2, <2>5, GotoType
  <2> QED BY <1>4, <2>6, IdleQueueType DEF List, TypeOK, envVars, rowVars
<1>5. CASE Checkpoint(w)
  <2>1. run' \in [Proc -> Run]
    BY <1>5, GotoType, RunField DEF Checkpoint, Step
  <2>2. token' \in SUBSET Thread
    BY <1>5 DEF Checkpoint, Run
  <2> QED BY <1>5, <2>1, <2>2, IdleQueueType DEF Checkpoint, TypeOK, envVars
<1>6. CASE Done(w)
  <2>1. [Rest EXCEPT !.job = "backfill", !.pc = "watch"] \in Run
    BY Values DEF Run, Step
  <2>2. run' \in [Proc -> Run]
    BY <1>6, <2>1, GotoType DEF Done
  <2>3. cursor' \in Cursor /\ mark' \in Cursor /\ token' \in SUBSET Thread /\ status' \in Status
    BY <1>6, Values DEF Done, Run, Status
  <2> QED BY <1>6, <2>2, <2>3, IdleQueueType DEF Done, TypeOK, envVars
<1> QED
  BY <1>1, <1>2, <1>3, <1>4, <1>5, <1>6 DEF RunBackfill

\* A job is taken, a request made, the keeper comes round.
LEMMA StartTypes ==
  ASSUME TypeOK,
         \/ \E w \in Worker, i \in Id : Take(w, i)
         \/ \E u \in User : Ask(u)
         \/ \E k \in Keeper : (\E quiet \in BOOLEAN : Keep(k, quiet)) \/ CatchUp(k)
  PROVE  TypeOK'
<1>1. ASSUME NEW w \in Worker, NEW i \in Id, Take(w, i) PROVE TypeOK'
  <2>1. [Rest EXCEPT !.job = i, !.pc = IF i = "delta" THEN "load" ELSE "open"] \in Run
    BY Values DEF Run, Step
  <2>2. run' \in [Proc -> Run]
    BY <1>1, <2>1, GotoType, Values DEF Take
  <2>3. QueueTypeOK'
    BY <1>1, AcquireType DEF Take, TypeOK
  <2> QED BY <1>1, <2>2, <2>3 DEF Take, TypeOK, envVars, rowVars
<1>2. ASSUME NEW u \in User, Ask(u) PROVE TypeOK'
  <2>1. [Rest EXCEPT !.pc = "ask"] \in Run
    BY Values, RunField DEF Step
  <2>2. run' \in [Proc -> Run]
    BY <1>2, <2>1, GotoType, Values DEF Ask
  <2> QED BY <1>2, <2>2, IdleQueueType DEF Ask, TypeOK, envVars, rowVars
<1>3. ASSUME NEW k \in Keeper, NEW quiet \in BOOLEAN, Keep(k, quiet) PROVE TypeOK'
  <2>1. [Rest EXCEPT !.pc = "watching", !.from = cursor, !.late = quiet,
                !.failing = (status = "ERROR")] \in Run
    BY Values DEF Run, Step, TypeOK
  <2>2. run' \in [Proc -> Run]
    BY <1>3, <2>1, GotoType, Values DEF Keep
  <2> QED BY <1>3, <2>2, IdleQueueType DEF Keep, TypeOK, envVars, rowVars
<1>4. ASSUME NEW k \in Keeper, CatchUp(k) PROVE TypeOK'
  <2>1. QueueTypeOK' /\ tries' \in [Id -> 0..(Attempts - 1)]
    BY <1>4, EnqueueTypes, IdleQueueType, Values DEF CatchUp, TypeOK
  <2>2. run' \in [Proc -> Run]
    BY <1>4, GotoType, Values DEF CatchUp
  <2> QED BY <1>4, <2>1, <2>2 DEF CatchUp, TypeOK, envVars, rowVars
<1> QED
  BY <1>1, <1>2, <1>3, <1>4

LEMMA StepTypes == TypeOK /\ [Next]_vars => TypeOK'
<1> SUFFICES ASSUME TypeOK, [Next]_vars PROVE TypeOK'
  OBVIOUS
<1>1. CASE UNCHANGED vars
  <2>1. QueueTypeOK' /\ UNCHANGED syncVars
    BY <1>1, IdleQueueType DEF TypeOK, vars
  <2> QED BY <2>1 DEF TypeOK, syncVars, envVars, rowVars
<1>2. CASE Provider \/ Push \/ \E i \in Id : PromoteJob(i) \/ StallJob(i) \/ LoseJob(i)
  BY <1>2, EnvironmentTypes
<1>3. CASE \/ \E w \in Worker, i \in Id : Take(w, i)
           \/ \E u \in User : Ask(u)
           \/ \E k \in Keeper : (\E quiet \in BOOLEAN : Keep(k, quiet)) \/ CatchUp(k)
  BY <1>3, StartTypes
<1>4. CASE \E w \in Worker : RunDelta(w) \/ RunBackfill(w)
  BY <1>4, DeltaTypes, BackfillTypes
<1>5. CASE \E p \in Proc : StartBackfill(p) \/ Denied(p) \/ Watch(p) \/ Watching(p)
                           \/ Throw(p) \/ Crash(p)
  BY <1>5, CommonTypes
<1>6. CASE \/ \E i \in Id : AbortStalled(i)
           \/ \E w \in Worker : Shutdown(w) \/ Cancelled(w)
  BY <1>6, AbortTypes
<1> QED
  BY <1>1, <1>2, <1>3, <1>4, <1>5, <1>6, Values DEF Next, Work

\* The variables keep their types.
THEOREM SyncTypes == Spec => []TypeOK
<1> QED
  BY InitTypes, StepTypes, PTL DEF Spec

(***************************************************************************)
(* The cursor.  The invariant relates what a run has in hand, what is      *)
(* stored and what changed: it is stated worker by worker.                 *)
(***************************************************************************)

Instant == 0..Now \cup {None}

DeltaSteps == {"load", "history", "loop", "ask", "add", "mark"}
ListSteps == {"begin", "list", "persist", "page", "done"}

Listing(w) == run[w].job = "backfill" /\ run[w].pc \in ListSteps

\* No other worker is at the list of the same backfill.
ListsAlone(w) == \A v \in Worker : v # w => ~Listing(v)

\* What the steps of a run say of it.
Placed(w) ==
  /\ ~At(w, "idle") => run[w].job \in Id
  /\ run[w].pc \in DeltaSteps => run[w].job = "delta"
  /\ run[w].pc \in {"open", "begin", "profile", "list", "page", "done"} => run[w].job = "backfill"
  /\ ~At(w, "persist") => run[w].page = {}
  /\ At(w, "done") => run[w].todo = {}
  /\ At(w, "history") => run[w].from # None
  /\ run[w].job = "delta" /\ run[w].pc \in {"loop", "persist"} => run[w].upto # None

\* A backfill lists for the history id of the checkpoint.
Marked(w) == Listing(w) => run[w].upto = mark /\ (~At(w, "begin") => mark # None)

\* The run has yet to fetch the thread, or has it, whole, and is to store it.
InHand(t, r) == t \in r.todo \/ (t \in r.page /\ There(t) \subseteq r.copy[t])

\* The cursor is to move to the end of the run's window.
Vouches(w) ==
  \/ run[w].job = "delta" /\ run[w].pc \in {"loop", "persist"} /\ ~run[w].late
  \/ Listing(w) /\ run[w].upto # None

\* What did not change since the end of the window is stored or in hand.
Progress(w) ==
  Vouches(w) => \A t \in Thread \ Touched(run[w].upto) : InHand(t, run[w]) \/ Whole(t)

\* A cursor that was read is still one our copy is complete up to.
Read(w) == At(w, "history") => Complete(run[w].from)

\* What did not change since the checkpoint is stored or yet to be listed.
Checkpointed == mark # None => \A t \in Thread \ Touched(mark) : t \in token \/ Whole(t)

Instants ==
  /\ cursor \in Instant /\ mark \in Instant
  /\ \A p \in Proc : run[p].from \in Instant /\ run[p].upto \in Instant

Sound(w) == Placed(w) /\ Marked(w) /\ Progress(w) /\ Read(w)

CursorInv ==
  /\ TypeOK /\ Instants /\ Checkpointed /\ NothingSkipped
  /\ \A w \in Worker : Sound(w)

\* The provider's view does not move, and what was cut short stays so.
Still == history' = history /\ cut \subseteq cut'

\* No message that is at the provider is taken from our copy.
Keeps == \A t \in Thread : stored[t] \cap There(t) \subseteq stored'[t]

LEMMA StillViews ==
  ASSUME Still
  PROVE  /\ Now' = Now /\ Instant' = Instant
         /\ \A t : There(t)' = There(t)
         /\ \A c : Touched(c)' = Touched(c)
BY DEF Still, Now, Instant, There, Touched

LEMMA WholeStays ==
  ASSUME Still, Keeps, NEW t \in Thread, Whole(t)
  PROVE  Whole(t)'
BY StillViews DEF Still, Keeps, Whole

LEMMA CompleteStays ==
  ASSUME Still, Keeps, NEW c, Complete(c)
  PROVE  \A t \in Thread \ Touched(c) : Whole(t)'
BY WholeStays DEF Complete

\* What holds of a worker goes on holding while another process takes a step.
LEMMA OthersStay ==
  ASSUME CursorInv, Still, Keeps, NEW v \in Worker, run'[v] = run[v],
         mark' = mark \/ ~Listing(v)
  PROVE  Placed(v)' /\ Marked(v)' /\ Progress(v)' /\ Read(v)'
<1>1. Placed(v)' /\ Marked(v)'
  BY DEF CursorInv, Sound, Placed, Marked, Listing, At
<1>2. Read(v)'
  <2>1. At(v, "history")' => Complete(run[v].from)
    BY DEF CursorInv, Sound, Read, At
  <2> QED BY <2>1, CompleteStays, StillViews DEF Read, Complete
<1>3. Progress(v)'
  <2>1. Vouches(v)' => Vouches(v)
    BY DEF Vouches, Listing, At
  <2>2. \A t \in Thread : InHand(t, run[v]) => InHand(t, run[v])'
    BY StillViews DEF InHand
  <2>3. Vouches(v) => \A t \in Thread \ Touched(run[v].upto) : InHand(t, run[v]) \/ Whole(t)
    BY DEF CursorInv, Sound, Progress
  <2> QED BY <2>1, <2>2, <2>3, WholeStays, StillViews DEF Progress
<1> QED BY <1>1, <1>2, <1>3

LEMMA RowStays ==
  ASSUME CursorInv, Still, Keeps
  PROVE  /\ cursor' = cursor => NothingSkipped'
         /\ UNCHANGED <<mark, token>> => Checkpointed'
<1>1. cursor' = cursor => NothingSkipped'
  BY CompleteStays, StillViews DEF CursorInv, NothingSkipped, Complete
<1>2. UNCHANGED <<mark, token>> => Checkpointed'
  BY WholeStays, StillViews DEF CursorInv, Checkpointed
<1> QED BY <1>1, <1>2

LEMMA GotoRuns ==
  ASSUME TypeOK, NEW p \in Proc, NEW r, Goto(p, r)
  PROVE  run'[p] = r /\ \A q \in Proc : q # p => run'[q] = run[q]
BY DEF TypeOK, Goto

\* Away from the steps of a delta's and a backfill's loops nothing is claimed.
Elsewhere == {"idle", "load", "ask", "add", "mark", "open", "profile",
              "end", "watch", "watching", "catchup"}

LEMMA NoClaim ==
  ASSUME NEW w, run[w].pc \in Elsewhere
  PROVE  Marked(w) /\ Progress(w) /\ Read(w)
BY DEF Elsewhere, Marked, Progress, Read, Vouches, Listing, ListSteps, At

LEMMA NoClaimNext ==
  ASSUME NEW w, run'[w].pc \in Elsewhere
  PROVE  Marked(w)' /\ Progress(w)' /\ Read(w)'
BY DEF Elsewhere, Marked, Progress, Read, Vouches, Listing, ListSteps, At

\* A process has stopped.
LEMMA RestPlaced ==
  ASSUME NEW w, run'[w] = Rest
  PROVE  Sound(w)'
<1>1. run'[w].pc = "idle" /\ run'[w].page = {} /\ run'[w].job = "none"
  BY DEF Rest
<1>2. Placed(w)'
  BY <1>1 DEF Placed, DeltaSteps, At
<1> QED BY <1>1, <1>2, NoClaimNext DEF Elsewhere, Sound

\* A step of one process: what is to be shown of it, and no more.
LEMMA OneStep ==
  ASSUME CursorInv, TypeOK', Still, Keeps, NEW p \in Proc, NEW r, Goto(p, r),
         cursor' \in Instant, mark' \in Instant, r.from \in Instant, r.upto \in Instant,
         Checkpointed', NothingSkipped',
         \A v \in Worker : v # p => mark' = mark \/ ~Listing(v),
         p \in Worker => Sound(p)'
  PROVE  CursorInv'
<1>1. run'[p] = r /\ \A q \in Proc : q # p => run'[q] = run[q]
  BY GotoRuns DEF CursorInv
<1>2. \A v \in Worker : v # p => Sound(v)'
  BY <1>1, OthersStay, Values DEF Sound
<1>3. \A v \in Worker : Sound(v)'
  BY <1>2
<1>4. Instants'
  BY <1>1, StillViews DEF Instants, CursorInv
<1> QED BY <1>3, <1>4 DEF CursorInv

\* A step that leaves the rows alone.
LEMMA QuietStep ==
  ASSUME CursorInv, TypeOK', Still, UNCHANGED <<stored, cursor, mark, token>>,
         NEW p \in Proc, NEW r, Goto(p, r), r.from \in Instant, r.upto \in Instant,
         p \in Worker => Sound(p)'
  PROVE  CursorInv'
<1>1. Keeps
  BY DEF Keeps
<1>2. cursor' \in Instant /\ mark' \in Instant
  BY DEF CursorInv, Instants
<1>3. Checkpointed' /\ NothingSkipped'
  BY <1>1, RowStays
<1> QED BY <1>1, <1>2, <1>3, OneStep

LEMMA RestingStep ==
  ASSUME CursorInv, TypeOK', Still, UNCHANGED <<stored, cursor, mark, token>>,
         NEW p \in Proc, Goto(p, Rest)
  PROVE  CursorInv'
<1>1. Rest.from \in Instant /\ Rest.upto \in Instant
  BY DEF Rest, Instant
<1>2. run'[p] = Rest
  BY GotoRuns DEF CursorInv
<1>3. p \in Worker => Sound(p)'
  BY <1>2, RestPlaced
<1> QED BY <1>1, <1>3, QuietStep

LEMMA ProcInv ==
  ASSUME CursorInv, NEW p \in Proc
  PROVE  /\ TypeOK /\ run[p] \in Run
         /\ run[p].from \in Instant /\ run[p].upto \in Instant
         /\ cursor \in Instant /\ mark \in Instant /\ None \in Instant /\ Now \in Instant
         /\ Now \in Nat
         /\ p \in Worker => Sound(p)
BY NowType, SyncAssumption DEF CursorInv, Instants, TypeOK, Instant

\* The processor throws for good, or stops.
LEMMA RefuseKeeps ==
  ASSUME CursorInv, TypeOK', Still, UNCHANGED <<stored, cursor, mark, token>>,
         NEW p \in Proc, Refuse(p)
  PROVE  CursorInv'
<1>1. Goto(p, Rest)
  BY DEF Refuse
<1> QED BY <1>1, RestingStep

LEMMA StopKeeps ==
  ASSUME CursorInv, TypeOK', NEW p \in Proc, Denied(p) \/ End(p) \/ Throw(p) \/ Crash(p)
  PROVE  CursorInv'
<1>1. Still /\ UNCHANGED <<stored, cursor, mark, token>>
  BY DEF Denied, End, Throw, Crash, Still, envVars, rowVars
<1>2. CASE Denied(p)
  BY <1>1, <1>2, RefuseKeeps DEF Denied
<1>3. CASE End(p) \/ Throw(p) \/ Crash(p)
  <2>1. Goto(p, Rest)
    BY <1>3 DEF End, Throw, Crash
  <2> QED BY <1>1, <2>1, RestingStep
<1> QED BY <1>2, <1>3

\* A process moves to a step where it claims nothing.
LEMMA Elsewhen ==
  ASSUME NEW w, NEW r, run'[w] = r, r.pc \in Elsewhere, r.page = {},
         r.pc \in {"load", "ask", "add", "mark"} => r.job = "delta",
         r.pc \in {"open", "profile"} => r.job = "backfill",
         r.pc # "idle" => r.job \in Id
  PROVE  Sound(w)'
<1>1. Placed(w)'
  BY DEF Elsewhere, Placed, DeltaSteps, At
<1> QED BY <1>1, NoClaimNext DEF Sound

LEMMA StartBackfillKeeps ==
  ASSUME CursorInv, TypeOK', NEW p \in Proc, StartBackfill(p)
  PROVE  CursorInv'
<1>1. CASE End(p)
  BY <1>1, StopKeeps
<1>2. CASE AskLoad(p) /\ Refuse(p)
  BY <1>2, RefuseKeeps DEF AskLoad, Still, envVars, rowVars
<1>3. ASSUME NEW pc \in {"add", "mark", "end"}, Goto(p, [run[p] EXCEPT !.pc = pc]),
             run[p].pc \in {"ask", "add", "mark"},
             Still, UNCHANGED <<stored, cursor, mark, token>>
      PROVE  CursorInv'
  <2> DEFINE r == [run[p] EXCEPT !.pc = pc]
  <2>1. r.pc = pc /\ r.job = run[p].job /\ r.page = run[p].page
        /\ r.from = run[p].from /\ r.upto = run[p].upto
    BY ProcInv DEF Run
  <2>2. Goto(p, r)
    BY <1>3
  <2> HIDE DEF r
  <2>3. ASSUME p \in Worker PROVE Sound(p)'
    <3>1. run[p].job = "delta" /\ run[p].page = {}
      BY <1>3, <2>3, ProcInv DEF Sound, Placed, DeltaSteps, At
    <3>2. run'[p] = r
      BY <2>2, ProcInv, GotoRuns
    <3> QED BY <2>1, <3>1, <3>2, Values, Elsewhen DEF Elsewhere
  <2> QED BY <1>3, <2>1, <2>2, <2>3, ProcInv, QuietStep
<1>4. CASE AskLoad(p) /\ ~Refuse(p)
  BY <1>3, <1>4 DEF AskLoad, Still, envVars, rowVars, At
<1>5. CASE AddBackfill(p)
  BY <1>3, <1>5 DEF AddBackfill, Still, envVars, rowVars, At
<1>6. CASE MarkPending(p)
  BY <1>3, <1>6 DEF MarkPending, Still, envVars, At
<1> QED BY <1>1, <1>2, <1>4, <1>5, <1>6 DEF StartBackfill

LEMMA WatchKeeps ==
  ASSUME CursorInv, TypeOK', NEW p \in Proc, (p \in Worker /\ Watch(p)) \/ Watching(p)
  PROVE  CursorInv'
<1>1. PICK pc \in {"end", "watching", "catchup"}, b \in BOOLEAN :
        Goto(p, [run[p] EXCEPT !.pc = pc, !.failing = b])
  BY DEF Watch, Watching
<1> DEFINE r == [run[p] EXCEPT !.pc = pc, !.failing = b]
<1>2. r.pc = pc /\ r.job = run[p].job /\ r.page = run[p].page
      /\ r.from = run[p].from /\ r.upto = run[p].upto
  BY ProcInv DEF Run
<1>3. Goto(p, r)
  BY <1>1
<1> HIDE DEF r
<1>4. Still /\ UNCHANGED <<stored, cursor, mark, token>>
      /\ run[p].pc \in {"watch", "watching"}
  BY DEF Watch, Watching, Still, envVars, rowVars, At
<1>5. ASSUME p \in Worker PROVE Sound(p)'
  <2>1. run[p].page = {} /\ run[p].job \in Id
    BY <1>4, <1>5, ProcInv DEF Sound, Placed, At
  <2>2. run'[p] = r
    BY <1>3, ProcInv, GotoRuns
  <2> QED BY <1>2, <2>1, <2>2, Elsewhen DEF Elsewhere
<1> QED BY <1>2, <1>3, <1>4, <1>5, ProcInv, QuietStep

\* A job is taken, a request made, the keeper comes round.
LEMMA StartKeeps ==
  ASSUME CursorInv, TypeOK',
         \/ \E w \in Worker, i \in Id : Take(w, i)
         \/ \E u \in User : Ask(u)
         \/ \E k \in Keeper : (\E quiet \in BOOLEAN : Keep(k, quiet)) \/ CatchUp(k)
  PROVE  CursorInv'
<1>1. ASSUME NEW w \in Worker, NEW i \in Id, Take(w, i) PROVE CursorInv'
  <2> w \in Proc
    BY Values
  <2> DEFINE r == [Rest EXCEPT !.job = i, !.pc = IF i = "delta" THEN "load" ELSE "open"]
  <2>1. r.pc = (IF i = "delta" THEN "load" ELSE "open") /\ r.job = i /\ r.page = {}
        /\ r.from = None /\ r.upto = None
    BY DEF Rest
  <2>2. Goto(w, r)
    BY <1>1 DEF Take
  <2> HIDE DEF r
  <2>3. Still /\ UNCHANGED <<stored, cursor, mark, token>>
    BY <1>1 DEF Take, Still, envVars, rowVars
  <2>4. run'[w] = r
    BY <2>2, ProcInv, GotoRuns
  <2>5. Sound(w)'
    BY <2>1, <2>4, SyncAssumption, Elsewhen DEF Elsewhere
  <2> QED BY <2>1, <2>2, <2>3, <2>5, ProcInv, QuietStep
<1>2. ASSUME NEW p \in User \cup Keeper, NEW r, Goto(p, r), r.from \in Instant, r.upto \in Instant,
             Still, UNCHANGED <<stored, cursor, mark, token>>
      PROVE  CursorInv'
  <2>1. p \in Proc /\ p \notin Worker
    BY SyncAssumption DEF Proc
  <2> QED BY <1>2, <2>1, QuietStep
<1>3. ASSUME NEW u \in User, Ask(u) PROVE CursorInv'
  <2>1. [Rest EXCEPT !.pc = "ask"].from = None /\ [Rest EXCEPT !.pc = "ask"].upto = None
    BY DEF Rest
  <2> QED BY <1>2, <1>3, <2>1, ProcInv, Values DEF Ask, Still, envVars, rowVars
<1>4. ASSUME NEW k \in Keeper, NEW quiet \in BOOLEAN, Keep(k, quiet) PROVE CursorInv'
  <2> DEFINE r == [Rest EXCEPT !.pc = "watching", !.from = cursor, !.late = quiet,
                     !.failing = (status = "ERROR")]
  <2>1. r.from = cursor /\ r.upto = None
    BY DEF Rest
  <2>2. Goto(k, r)
    BY <1>4 DEF Keep
  <2> HIDE DEF r
  <2> QED BY <1>2, <1>4, <2>1, <2>2, ProcInv, Values DEF Keep, Still, envVars, rowVars
<1>5. ASSUME NEW k \in Keeper, CatchUp(k) PROVE CursorInv'
  <2>1. Rest.from = None /\ Rest.upto = None
    BY DEF Rest
  <2> QED BY <1>2, <1>5, <2>1, ProcInv, Values DEF CatchUp, Still, envVars, rowVars
<1> QED BY <1>1, <1>3, <1>4, <1>5

\* A change at the provider adds a thread to what changed, and touches no other.
LEMMA ChangeViews ==
  ASSUME TypeOK, NEW t \in Thread, NEW m \in 0..MaxHistory, Change(t, m),
         m = 0 \/ m \in There(t)
  PROVE  /\ Now' = Now + 1 /\ Now \in Nat
         /\ \A c \in 0..Now : Touched(c)' = Touched(c) \cup {t}
         /\ \A u \in Thread \ {t} : There(u)' = There(u)
<1> DEFINE e == [thread |-> t, gone |-> m]
           E == [thread: Thread, gone: 0..MaxHistory]
<1>1. e \in E /\ e.thread = t /\ e.gone = m
  OBVIOUS
<1>2. history \in Seq(E) /\ history' = Append(history, e)
  BY DEF Change, TypeOK
<1> HIDE DEF e, E
<1>3. /\ Now' = Now + 1 /\ Now \in Nat
      /\ \A h \in 1..Now : history'[h] = history[h]
      /\ history'[Now + 1] = e
  BY <1>1, <1>2, AppendProperties, LenProperties DEF Now
<1>4. ASSUME NEW c \in 0..Now PROVE Touched(c)' = Touched(c) \cup {t}
  <2>1. \A h \in (c + 1)..Now' : h = Now + 1 \/ (h \in (c + 1)..Now /\ h \in 1..Now)
    BY <1>3
  <2>2. Now + 1 \in (c + 1)..Now' /\ \A h \in (c + 1)..Now : h \in (c + 1)..Now' /\ h \in 1..Now
    BY <1>3
  <2> QED BY <1>1, <1>3, <2>1, <2>2 DEF Touched
<1>5. ASSUME NEW u \in Thread \ {t} PROVE There(u)' = There(u)
  <2>1. \A h \in 1..Now' : h = Now + 1 \/ h \in 1..Now
    BY <1>3
  <2>2. \A h \in 1..Now : h \in 1..Now'
    BY <1>3
  <2>3. m \notin There(u)
    BY <1>3, <1>5 DEF There
  <2>4. ASSUME NEW h \in There(u)' PROVE h \in There(u)
    <3>1. h \in 1..Now' /\ history'[h].thread = u /\ history'[h].gone = 0
          /\ \A g \in 1..Now' : history'[g].gone # h
      BY <2>4 DEF There
    <3>2. h \in 1..Now
      BY <1>1, <1>3, <1>5, <2>1, <3>1
    <3> QED BY <1>3, <2>2, <3>1, <3>2 DEF There
  <2>5. ASSUME NEW h \in There(u) PROVE h \in There(u)'
    <3>1. h \in 1..Now /\ history[h].thread = u /\ history[h].gone = 0
          /\ \A g \in 1..Now : history[g].gone # h
      BY <2>5 DEF There
    <3>2. m # h
      BY <2>3, <2>5
    <3>3. \A g \in 1..Now' : history'[g].gone # h
      BY <1>1, <1>3, <2>1, <3>1, <3>2
    <3> QED BY <1>3, <2>2, <3>1, <3>3 DEF There
  <2> QED BY <2>4, <2>5
<1> QED BY <1>3, <1>4, <1>5

LEMMA ChangeKeeps ==
  ASSUME CursorInv, TypeOK', NEW t \in Thread, NEW m \in 0..MaxHistory, Change(t, m),
         m = 0 \/ m \in There(t)
  PROVE  CursorInv'
<1>1. /\ Now' = Now + 1 /\ Now \in Nat
      /\ \A c \in 0..Now : Touched(c)' = Touched(c) \cup {t}
      /\ \A u \in Thread \ {t} : There(u)' = There(u)
  BY ChangeViews DEF CursorInv
<1>2. UNCHANGED <<stored, cursor, mark, token, run, cut>>
  BY DEF Change, rowVars
<1>3. \A c \in Instant : c \in Instant' /\ (c # None => c \in 0..Now)
  BY <1>1 DEF Instant
<1>4. \A c \in Instant \ {None} : \A u \in Thread \ Touched(c)' :
        u \in Thread \ Touched(c) /\ There(u)' = There(u)
  BY <1>1, <1>3
<1>5. Instants'
  BY <1>2, <1>3 DEF CursorInv, Instants
<1>6. NothingSkipped'
  BY <1>2, <1>4 DEF CursorInv, Instants, NothingSkipped, Complete, Whole
<1>7. Checkpointed'
  BY <1>2, <1>4 DEF CursorInv, Instants, Checkpointed, Whole
<1>8. ASSUME NEW w \in Worker PROVE Sound(w)'
  <2>1. Sound(w) /\ run[w].from \in Instant /\ run[w].upto \in Instant
    BY Values DEF CursorInv, Instants
  <2>2. Placed(w)' /\ Marked(w)'
    BY <1>2, <2>1 DEF Sound, Placed, Marked, Listing, At
  <2>3. Read(w)'
    <3>1. At(w, "history") => run[w].from # None
      BY <2>1 DEF Sound, Placed
    <3> QED BY <1>2, <1>4, <2>1, <3>1 DEF Sound, Read, Complete, Whole, At
  <2>4. Progress(w)'
    <3>1. Vouches(w)' => Vouches(w) /\ run[w].upto # None
      BY <1>2, <2>1 DEF Vouches, Listing, At, Sound, Placed
    <3> QED BY <1>2, <1>4, <2>1, <3>1 DEF Sound, Progress, InHand, Whole
  <2> QED BY <2>2, <2>3, <2>4 DEF Sound
<1> QED BY <1>5, <1>6, <1>7, <1>8 DEF CursorInv

\* A step that takes no process with it.
LEMMA BackgroundStep ==
  ASSUME CursorInv, TypeOK', Still, UNCHANGED <<stored, cursor, mark, token, run>>
  PROVE  CursorInv'
<1>1. Keeps
  BY DEF Keeps
<1>2. Checkpointed' /\ NothingSkipped'
  BY <1>1, RowStays
<1>3. \A v \in Worker : Sound(v)'
  BY <1>1, OthersStay DEF Sound
<1>4. Instants'
  BY StillViews DEF CursorInv, Instants
<1> QED BY <1>2, <1>3, <1>4 DEF CursorInv

LEMMA EnvironmentKeeps ==
  ASSUME CursorInv, TypeOK',
         \/ Provider \/ Push
         \/ \E i \in Id : PromoteJob(i) \/ StallJob(i) \/ LoseJob(i)
  PROVE  CursorInv'
<1>1. CASE \E t \in Thread : Arrive(t) \/ Remove(t)
  <2>1. PICK t \in Thread : Change(t, 0) \/ \E m \in There(t) : Change(t, m)
    BY <1>1 DEF Arrive, Remove
  <2>2. There(t) \subseteq 0..MaxHistory /\ 0 \in 0..MaxHistory
    BY NowType, SyncAssumption DEF Message, CursorInv
  <2> QED BY <2>1, <2>2, ChangeKeeps
<1>2. CASE ExpireHistory \/ Revoke \/ Reconnect \/ Refresh
  BY <1>2, BackgroundStep
  DEF ExpireHistory, Revoke, Reconnect, Refresh, Still, rowVars, envVars
<1>3. CASE Push \/ \E i \in Id : PromoteJob(i) \/ StallJob(i) \/ LoseJob(i)
  BY <1>3, BackgroundStep
  DEF Push, PromoteJob, StallJob, LoseJob, Still, syncVars, rowVars, envVars
<1> QED BY <1>1, <1>2, <1>3 DEF Provider

\* What a worker that is at a step of a delta or a backfill brings along.
LEMMA WorkerInv ==
  ASSUME CursorInv, NEW w \in Worker
  PROVE  /\ w \in Proc /\ TypeOK /\ run[w] \in Run
         /\ run[w].from \in Instant /\ run[w].upto \in Instant
         /\ cursor \in Instant /\ mark \in Instant /\ None \in Instant /\ Now \in Instant
         /\ Now \in Nat
         /\ Placed(w) /\ Marked(w) /\ Progress(w) /\ Read(w)
         /\ ~At(w, "persist") => run[w].page = {}
BY ProcInv, Values DEF Sound, Placed

\* A step of a worker.
LEMMA WorkStep ==
  ASSUME CursorInv, TypeOK', Still, Keeps, NEW w \in Worker, NEW r, Goto(w, r),
         r.from \in Instant, r.upto \in Instant,
         cursor' \in Instant, mark' \in Instant, mark' = mark \/ ListsAlone(w),
         Checkpointed', NothingSkipped',
         Placed(w)', Marked(w)', Progress(w)', Read(w)'
  PROVE  CursorInv'
BY WorkerInv, OneStep DEF Sound, ListsAlone

LEMMA LoadKeeps ==
  ASSUME CursorInv, TypeOK', NEW w \in Worker, Load(w)
  PROVE  CursorInv'
<1>1. Still /\ UNCHANGED <<stored, cursor, mark, token>> /\ Keeps
  BY DEF Load, Still, envVars, rowVars, Keeps
<1>2. CASE Refuse(w)
  BY <1>1, <1>2, WorkerInv, RefuseKeeps
<1>3. CASE ~Refuse(w)
  <2>1. PICK r \in {[run[w] EXCEPT !.pc = "ask"],
                    [run[w] EXCEPT !.pc = "history", !.from = cursor,
                                   !.failing = (status = "ERROR")]} :
          Goto(w, r) /\ (r.pc = "history" => cursor # None)
    BY <1>3, WorkerInv DEF Load, Run
  <2>2. r.job = run[w].job /\ r.page = run[w].page /\ r.upto = run[w].upto
        /\ r.pc \in {"ask", "history"} /\ (r.pc = "history" => r.from = cursor)
        /\ r.from \in {run[w].from, cursor}
    BY WorkerInv DEF Run
  <2>3. run[w].job = "delta" /\ run[w].page = {} /\ ~At(w, "idle")
    BY WorkerInv DEF Load, Placed, DeltaSteps, At
  <2>4. run'[w] = r
    BY <2>1, WorkerInv, GotoRuns
  <2>5. Placed(w)' /\ Marked(w)' /\ Progress(w)'
    BY <2>1, <2>2, <2>3, <2>4, Values
    DEF Placed, Marked, Progress, Vouches, Listing, DeltaSteps, ListSteps, At
  <2>6. Read(w)'
    BY <1>1, <2>1, <2>2, <2>4, StillViews, CompleteStays
    DEF Read, At, CursorInv, NothingSkipped, Complete
  <2>7. Checkpointed' /\ NothingSkipped'
    BY <1>1, RowStays
  <2> QED BY <1>1, <2>1, <2>2, <2>3, <2>5, <2>6, <2>7, WorkerInv, WorkStep
<1> QED BY <1>2, <1>3

\* The messages that are gone after c are not at the provider.
LEMMA GoneIsGone ==
  ASSUME NEW c \in 0..Now, NEW t, Now \in Nat
  PROVE  There(t) \cap Gone(c) = {}
<1>1. \A h \in (c + 1)..Now : h \in 1..Now
  OBVIOUS
<1> QED BY <1>1 DEF There, Gone

LEMMA HistoryKeeps ==
  ASSUME CursorInv, TypeOK', NEW w \in Worker, History(w)
  PROVE  CursorInv'
<1> DEFINE c == run[w].from
<1>1. Still /\ UNCHANGED <<mark, token>> /\ ~At(w, "idle")
  BY DEF History, Still, envVars, At
<1>2. run[w].job = "delta" /\ run[w].page = {} /\ c # None /\ c \in 0..Now /\ Complete(c)
  BY WorkerInv DEF History, Placed, DeltaSteps, At, Instant, Read
<1>3. CASE c < served
  <2> DEFINE r == [Rest EXCEPT !.job = "delta", !.pc = "ask"]
  <2>1. r.job = "delta" /\ r.pc = "ask" /\ r.page = {} /\ r.from = None /\ r.upto = None
    BY DEF Rest
  <2>2. Goto(w, r) /\ cursor' = None /\ UNCHANGED stored
    BY <1>2, <1>3, WorkerInv DEF History, TypeOK
  <2> HIDE DEF r
  <2>3. run'[w] = r
    BY <2>2, WorkerInv, GotoRuns
  <2>4. Placed(w)' /\ Marked(w)' /\ Progress(w)' /\ Read(w)'
    BY <2>1, <2>3, Values
    DEF Placed, Marked, Progress, Read, Vouches, Listing, DeltaSteps, ListSteps, At
  <2>5. Keeps
    BY <2>2 DEF Keeps
  <2>6. Checkpointed' /\ NothingSkipped'
    BY <1>1, <2>2, <2>5, RowStays DEF NothingSkipped
  <2> QED BY <1>1, <1>2, <2>1, <2>2, <2>4, <2>5, <2>6, WorkerInv, WorkStep
<1>4. CASE ~(c < served)
  <2> DEFINE r == [run[w] EXCEPT !.pc = "loop", !.from = None, !.upto = Now,
                        !.todo = Taken(c), !.failing = @ /\ Touched(c) # {},
                        !.late = (Taken(c) # Touched(c))]
  <2>1. r.job = "delta" /\ r.pc = "loop" /\ r.page = {} /\ r.from = None /\ r.upto = Now
        /\ r.todo = Taken(c) /\ r.late = (Taken(c) # Touched(c))
    BY <1>2, WorkerInv DEF Run
  <2>2. Goto(w, r) /\ UNCHANGED cursor /\ stored' = [t \in Thread |-> stored[t] \ Gone(c)]
    BY <1>4 DEF History
  <2> HIDE DEF r
  <2>3. run'[w] = r
    BY <2>2, WorkerInv, GotoRuns
  <2>4. Keeps
    BY <1>2, <2>2, WorkerInv, GoneIsGone DEF Keeps
  <2>5. Placed(w)' /\ Marked(w)' /\ Read(w)'
    BY <2>1, <2>3, WorkerInv, Values
    DEF Placed, Marked, Read, Listing, DeltaSteps, ListSteps, At, None
  <2>6. Progress(w)'
    <3>1. Vouches(w)' => Taken(c) = Touched(c)
      BY <2>1, <2>3 DEF Vouches, Listing
    <3>2. \A t \in Thread \ Touched(c) : Whole(t)'
      BY <1>1, <1>2, <2>4, CompleteStays
    <3> QED BY <2>1, <2>3, <3>1, <3>2 DEF Progress, InHand, Whole
  <2>7. Checkpointed' /\ NothingSkipped'
    BY <1>1, <2>2, <2>4, RowStays
  <2>8. cursor' \in Instant /\ mark' \in Instant
    BY <1>1, <2>2, WorkerInv
  <2> QED BY <1>1, <1>2, <2>1, <2>2, <2>4, <2>5, <2>6, <2>7, <2>8, WorkerInv, WorkStep
<1> QED BY <1>3, <1>4

LEMMA FetchKeeps ==
  ASSUME CursorInv, TypeOK', NEW w \in Worker, Fetch(w)
  PROVE  CursorInv'
<1>1. Still /\ UNCHANGED <<cursor, mark, token>> /\ ~At(w, "idle")
  BY DEF Fetch, Still, envVars, rowVars, At
<1>2. run[w].job = "delta" /\ run[w].page = {} /\ run[w].upto # None
  BY WorkerInv DEF Fetch, Placed, DeltaSteps, At
<1>3. PICK t \in run[w].todo :
       \/ /\ There(t) # {}
          /\ Goto(w, [run[w] EXCEPT !.pc = "persist", !.todo = @ \ {t}, !.page = {t},
                        !.copy = [Nothing EXCEPT ![t] = There(t)]])
          /\ UNCHANGED stored
       \/ /\ There(t) = {}
          /\ Goto(w, [run[w] EXCEPT !.todo = @ \ {t}])
          /\ stored' = [stored EXCEPT ![t] = {}] \/ UNCHANGED stored
  BY DEF Fetch
<1>4. t \in Thread
  BY <1>3, WorkerInv DEF Run
<1>5. Keeps
  BY <1>3, <1>4, WorkerInv DEF Keeps, TypeOK
<1>6. PICK r : /\ Goto(w, r) /\ r.job = "delta" /\ r.from = run[w].from
               /\ r.upto = run[w].upto /\ r.late = run[w].late /\ r.todo = run[w].todo \ {t}
               /\ \/ r.pc = "persist" /\ r.page = {t} /\ r.copy[t] = There(t)
                  \/ r.pc = "loop" /\ r.page = {} /\ There(t) = {}
  <2>1. CASE There(t) # {}
    <3> DEFINE r == [run[w] EXCEPT !.pc = "persist", !.todo = @ \ {t}, !.page = {t},
                        !.copy = [Nothing EXCEPT ![t] = There(t)]]
    <3>1. r.job = "delta" /\ r.from = run[w].from /\ r.page = {t}
          /\ r.upto = run[w].upto /\ r.late = run[w].late /\ r.todo = run[w].todo \ {t}
          /\ r.pc = "persist" /\ r.copy[t] = There(t)
      BY <1>2, <1>4, WorkerInv DEF Run, Nothing
    <3>2. Goto(w, r)
      BY <1>3, <2>1
    <3> QED BY <3>1, <3>2
  <2>2. CASE There(t) = {}
    <3> DEFINE r == [run[w] EXCEPT !.todo = @ \ {t}]
    <3>1. r.job = "delta" /\ r.from = run[w].from /\ r.page = {}
          /\ r.upto = run[w].upto /\ r.late = run[w].late /\ r.todo = run[w].todo \ {t}
          /\ r.pc = "loop"
      BY <1>2, WorkerInv DEF Run, Fetch, At
    <3>2. Goto(w, r)
      BY <1>3, <2>2
    <3> QED BY <2>2, <3>1, <3>2
  <2> QED BY <2>1, <2>2
<1>7. run'[w] = r
  BY <1>6, WorkerInv, GotoRuns
<1>8. Placed(w)' /\ Marked(w)' /\ Read(w)'
  BY <1>2, <1>6, <1>7, Values DEF Placed, Marked, Read, Listing, DeltaSteps, ListSteps, At
<1>9. Progress(w)'
  <2>1. Vouches(w)' => Vouches(w)
    BY <1>2, <1>6, <1>7 DEF Vouches, Listing, Fetch, At
  <2>2. \A u \in Thread : InHand(u, run[w]) => InHand(u, r)' \/ Whole(u)'
    BY <1>1, <1>2, <1>6, StillViews DEF InHand, Whole
  <2>3. \A u \in Thread : Whole(u) => Whole(u)'
    BY <1>1, <1>5, WholeStays
  <2> QED BY <1>1, <1>6, <1>7, <2>1, <2>2, <2>3, WorkerInv, StillViews DEF Progress, InHand
<1>10. Checkpointed' /\ NothingSkipped'
  BY <1>1, <1>5, RowStays
<1>11. cursor' \in Instant /\ mark' \in Instant
  BY <1>1, WorkerInv
<1> QED BY <1>1, <1>2, <1>5, <1>6, <1>8, <1>9, <1>10, <1>11, WorkerInv, WorkStep

LEMMA PersistKeeps ==
  ASSUME CursorInv, TypeOK', NEW w \in Worker, Persist(w)
  PROVE  CursorInv'
<1>1. /\ Still /\ UNCHANGED <<cursor, mark, token>>
      /\ ~At(w, "idle") /\ At(w, "persist")
  BY DEF Persist, Still, envVars, rowVars, At
<1>2. PICK t \in run[w].page :
        /\ stored' = [stored EXCEPT ![t] = @ \cup run[w].copy[t]]
        /\ Goto(w, [run[w] EXCEPT
                     !.page = @ \ {t}, !.copy[t] = {},
                     !.pc = IF run[w].page # {t} THEN @
                            ELSE IF run[w].job = "delta" THEN "loop" ELSE "page"])
  BY DEF Persist
<1> DEFINE r == [run[w] EXCEPT
                     !.page = @ \ {t}, !.copy[t] = {},
                     !.pc = IF run[w].page # {t} THEN @
                            ELSE IF run[w].job = "delta" THEN "loop" ELSE "page"]
<1>3. t \in Thread
  BY <1>2, WorkerInv DEF Run
<1>4. /\ r.job = run[w].job /\ r.from = run[w].from /\ r.upto = run[w].upto
      /\ r.late = run[w].late /\ r.todo = run[w].todo /\ r.page = run[w].page \ {t}
      /\ \A u \in Thread : u # t => r.copy[u] = run[w].copy[u]
      /\ r.pc = IF run[w].page # {t} THEN "persist"
                ELSE IF run[w].job = "delta" THEN "loop" ELSE "page"
  BY <1>1, <1>3, WorkerInv DEF Run, At
<1>5. Goto(w, r)
  BY <1>2
<1> HIDE DEF r
<1>6. run'[w] = r
  BY <1>5, WorkerInv, GotoRuns
<1>7. Keeps
  BY <1>2, <1>3, WorkerInv DEF Keeps, TypeOK
<1>8. run[w].job = "delta" \/ run[w].job = "backfill"
  BY <1>1, WorkerInv, SyncAssumption DEF Placed
<1>9. Placed(w)' /\ Marked(w)' /\ Read(w)'
  <2>1. r.pc # "persist" => r.page = {}
    BY <1>2, <1>4
  <2>2. run[w].job = "delta" => run[w].upto # None
    BY <1>1, WorkerInv DEF Placed, At
  <2>3. run[w].job = "backfill" => run[w].upto = mark /\ mark # None
    BY <1>1, WorkerInv DEF Marked, Listing, ListSteps, At
  <2> QED
    BY <1>1, <1>4, <1>6, <1>8, <2>1, <2>2, <2>3, Values
    DEF Placed, Marked, Read, Listing, DeltaSteps, ListSteps, At
<1>10. Progress(w)'
  <2>1. Vouches(w)' => Vouches(w)
    BY <1>1, <1>4, <1>6 DEF Vouches, Listing, ListSteps, At
  <2>2. \A u \in Thread : u # t /\ InHand(u, run[w]) => InHand(u, run[w])'
    BY <1>1, <1>4, <1>6, StillViews DEF InHand
  <2>3. InHand(t, run[w]) => InHand(t, run[w])' \/ Whole(t)'
    <3>1. stored'[t] = stored[t] \cup run[w].copy[t]
      BY <1>2, <1>3, WorkerInv DEF TypeOK
    <3> QED BY <1>1, <1>4, <1>6, <3>1, StillViews DEF InHand, Whole
  <2>4. \A u \in Thread : Whole(u) => Whole(u)'
    BY <1>1, <1>7, WholeStays
  <2> QED
    BY <1>1, <1>4, <1>6, <2>1, <2>2, <2>3, <2>4, WorkerInv, StillViews DEF Progress, InHand
<1>11. Checkpointed' /\ NothingSkipped'
  BY <1>1, <1>7, RowStays
<1>12. cursor' \in Instant /\ mark' \in Instant
  BY <1>1, WorkerInv
<1> QED
  BY <1>1, <1>4, <1>5, <1>7, <1>9, <1>10, <1>11, <1>12, WorkerInv, WorkStep

\* What an aborted delta leaves is no longer vouched for.
LEMMA BreakKeeps ==
  ASSUME CursorInv, TypeOK', NEW w \in Worker, Break(w)
  PROVE  CursorInv'
<1>1. /\ Still /\ UNCHANGED <<stored, cursor, mark, token>> /\ Keeps
      /\ cut' = cut \cup run[w].todo /\ ~At(w, "idle")
  BY DEF Break, Still, rowVars, Keeps, At
<1>2. run[w].job = "delta" /\ run[w].page = {} /\ run[w].upto # None /\ At(w, "loop")
  BY WorkerInv DEF Break, Placed, DeltaSteps, At
<1> DEFINE r == [run[w] EXCEPT !.todo = {}]
<1>3. r.job = "delta" /\ r.pc = "loop" /\ r.page = {} /\ r.from = run[w].from
      /\ r.upto = run[w].upto /\ r.late = run[w].late
  BY <1>2, WorkerInv DEF Run, At
<1>4. Goto(w, r)
  BY DEF Break
<1> HIDE DEF r
<1>5. run'[w] = r
  BY <1>4, WorkerInv, GotoRuns
<1>6. Placed(w)' /\ Marked(w)' /\ Read(w)'
  BY <1>2, <1>3, <1>5, Values DEF Placed, Marked, Read, Listing, DeltaSteps, ListSteps, At
<1>7. Progress(w)'
  <2>1. Vouches(w)' => Vouches(w)
    BY <1>2, <1>3, <1>5 DEF Vouches, Listing, At
  <2>2. \A t \in Thread : InHand(t, run[w]) => Whole(t)'
    BY <1>1, <1>2 DEF InHand, Whole
  <2>3. \A t \in Thread : Whole(t) => Whole(t)'
    BY <1>1, WholeStays
  <2> QED BY <1>1, <1>3, <1>5, <2>1, <2>2, <2>3, WorkerInv, StillViews DEF Progress
<1>8. Checkpointed' /\ NothingSkipped'
  BY <1>1, RowStays
<1> QED BY <1>1, <1>2, <1>3, <1>4, <1>6, <1>7, <1>8, WorkerInv, WorkStep

\* A run that is aborted is where it was.
LEMMA MarkAbortedKeeps ==
  ASSUME CursorInv, TypeOK', Still, UNCHANGED <<stored, cursor, mark, token>>,
         NEW w \in Worker, Goto(w, [run[w] EXCEPT !.aborted = TRUE])
  PROVE  CursorInv'
<1> DEFINE r == [run[w] EXCEPT !.aborted = TRUE]
<1>1. /\ r.job = run[w].job /\ r.pc = run[w].pc /\ r.page = run[w].page
      /\ r.from = run[w].from /\ r.upto = run[w].upto /\ r.late = run[w].late
      /\ r.todo = run[w].todo /\ r.copy = run[w].copy
  BY WorkerInv DEF Run
<1>2. Goto(w, r)
  OBVIOUS
<1> HIDE DEF r
<1>3. run'[w] = r
  BY <1>2, WorkerInv, GotoRuns
<1>4. Keeps
  BY DEF Keeps
<1>5. Placed(w)' /\ Marked(w)'
  BY <1>1, <1>3, WorkerInv DEF Placed, Marked, Listing, At
<1>6. Read(w)'
  BY <1>1, <1>3, <1>4, WorkerInv, CompleteStays, StillViews DEF Read, Complete, At
<1>7. Progress(w)'
  <2>1. Vouches(w)' => Vouches(w)
    BY <1>1, <1>3 DEF Vouches, Listing, At
  <2>2. \A t \in Thread : InHand(t, run[w]) => InHand(t, run[w])'
    BY <1>1, <1>3, StillViews DEF InHand
  <2>3. \A t \in Thread : Whole(t) => Whole(t)'
    BY <1>4, WholeStays
  <2> QED BY <1>1, <1>3, <2>1, <2>2, <2>3, WorkerInv, StillViews DEF Progress
<1> QED BY <1>1, <1>2, <1>5, <1>6, <1>7, WorkerInv, QuietStep DEF Sound

LEMMA AbortKeeps ==
  ASSUME CursorInv, TypeOK',
         \/ \E i \in Id : AbortStalled(i)
         \/ \E w \in Worker : Shutdown(w) \/ Cancelled(w)
  PROVE  CursorInv'
<1>1. Still /\ UNCHANGED <<stored, cursor, mark, token>>
  BY DEF AbortStalled, Shutdown, Cancelled, Still, envVars, rowVars
<1>2. CASE UNCHANGED run
  BY <1>1, <1>2, BackgroundStep
<1>3. CASE \E w \in Worker : Goto(w, [run[w] EXCEPT !.aborted = TRUE])
  BY <1>1, <1>3, MarkAbortedKeeps
<1>4. CASE \E w \in Worker : Cancelled(w)
  BY <1>1, <1>4, RestingStep, Values DEF Cancelled
<1> QED BY <1>2, <1>3, <1>4 DEF AbortStalled, Shutdown

\* The list is done: our copy is complete up to the end of the run's window.
LEMMA WindowIsWhole ==
  ASSUME CursorInv, NEW w \in Worker, Vouches(w), run[w].todo = {}, ~At(w, "persist")
  PROVE  Complete(run[w].upto)
BY WorkerInv DEF Progress, InHand, Whole, Complete

LEMMA AdvanceKeeps ==
  ASSUME CursorInv, TypeOK', NEW w \in Worker, Advance(w)
  PROVE  CursorInv'
<1>1. Still /\ UNCHANGED <<stored, mark, token>> /\ ~At(w, "idle") /\ ~At(w, "persist")
  BY DEF Advance, Still, envVars, At
<1>2. run[w].job = "delta"
  BY WorkerInv DEF Advance, Placed, DeltaSteps, At
<1> DEFINE r == [Rest EXCEPT !.job = "delta", !.pc = "end"]
<1>3. r.job = "delta" /\ r.pc = "end" /\ r.page = {} /\ r.from = None /\ r.upto = None
  BY DEF Rest
<1>4. Goto(w, r)
  BY DEF Advance
<1> HIDE DEF r
<1>5. run'[w] = r
  BY <1>4, WorkerInv, GotoRuns
<1>6. Placed(w)' /\ Marked(w)' /\ Progress(w)' /\ Read(w)'
  BY <1>3, <1>5, Values
  DEF Placed, Marked, Progress, Read, Vouches, Listing, DeltaSteps, ListSteps, At
<1>7. Keeps
  BY <1>1 DEF Keeps
<1>8. CASE run[w].late
  <2>1. UNCHANGED cursor
    BY <1>8 DEF Advance
  <2> QED
    BY <1>1, <1>2, <1>3, <1>4, <1>6, <1>7, <2>1, RowStays, WorkerInv, WorkStep
<1>9. CASE ~run[w].late
  <2>1. cursor' = run[w].upto /\ run[w].todo = {} /\ Vouches(w)
    BY <1>2, <1>9 DEF Advance, Vouches, At
  <2>2. Complete(run[w].upto)
    BY <1>1, <2>1, WindowIsWhole
  <2>3. NothingSkipped'
    BY <1>1, <1>7, <2>1, <2>2, CompleteStays, StillViews DEF NothingSkipped, Complete
  <2>4. Checkpointed'
    BY <1>1, <1>7, RowStays
  <2> QED
    BY <1>1, <1>2, <1>3, <1>4, <1>6, <1>7, <2>1, <2>3, <2>4, WorkerInv, WorkStep
<1> QED BY <1>8, <1>9

LEMMA OpenKeeps ==
  ASSUME CursorInv, TypeOK', NEW w \in Worker, Open(w)
  PROVE  CursorInv'
<1>1. Still /\ UNCHANGED <<stored, cursor, mark, token>> /\ Keeps
  BY DEF Open, Still, envVars, rowVars, Keeps
<1>2. CASE Refuse(w)
  BY <1>1, <1>2, WorkerInv, RefuseKeeps
<1>3. CASE ~Refuse(w)
  <2> DEFINE r == [run[w] EXCEPT !.pc = "begin", !.upto = mark, !.todo = token]
  <2>1. run[w].job = "backfill" /\ run[w].page = {} /\ ~At(w, "idle")
    BY WorkerInv DEF Open, Placed, At
  <2>2. r.job = "backfill" /\ r.page = {} /\ r.upto = mark /\ r.from = run[w].from
        /\ r.pc = "begin" /\ r.todo = token
    BY <2>1, WorkerInv DEF Run
  <2>3. Goto(w, r)
    BY <1>3 DEF Open
  <2> HIDE DEF r
  <2>4. run'[w] = r
    BY <2>3, WorkerInv, GotoRuns
  <2>5. Checkpointed' /\ NothingSkipped'
    BY <1>1, RowStays
  <2>6. Placed(w)' /\ Marked(w)' /\ Read(w)'
    BY <1>1, <2>2, <2>4, Values DEF Placed, Marked, Read, Listing, DeltaSteps, ListSteps, At
  <2>7. Progress(w)'
    BY <1>1, <2>2, <2>4, <2>5 DEF Progress, Vouches, Checkpointed, InHand
  <2> QED BY <1>1, <2>1, <2>2, <2>3, <2>5, <2>6, <2>7, WorkerInv, WorkStep
<1> QED BY <1>2, <1>3

LEMMA BeginKeeps ==
  ASSUME CursorInv, TypeOK', NEW w \in Worker, Begin(w)
  PROVE  CursorInv'
<1>1. Still /\ UNCHANGED <<stored, cursor, mark, token>> /\ Keeps
      /\ ~At(w, "idle")
  BY DEF Begin, Still, envVars, Keeps, At
<1>2. run[w].job = "backfill" /\ run[w].page = {} /\ run[w].upto = mark
  BY WorkerInv DEF Begin, Placed, Marked, Listing, ListSteps, At
<1> DEFINE r == [run[w] EXCEPT !.pc = IF run[w].upto = None THEN "profile" ELSE "list"]
<1>3. /\ r.job = "backfill" /\ r.page = {} /\ r.upto = mark /\ r.from = run[w].from
      /\ r.todo = run[w].todo /\ r.copy = run[w].copy
      /\ r.pc = IF mark = None THEN "profile" ELSE "list"
  BY <1>2, WorkerInv DEF Run
<1>4. Goto(w, r)
  BY DEF Begin
<1> HIDE DEF r
<1>5. run'[w] = r
  BY <1>4, WorkerInv, GotoRuns
<1>6. Checkpointed' /\ NothingSkipped'
  BY <1>1, RowStays
<1>7. Placed(w)' /\ Marked(w)' /\ Read(w)'
  BY <1>1, <1>3, <1>5, Values DEF Placed, Marked, Read, Listing, DeltaSteps, ListSteps, At
<1>8. Progress(w)'
  <2>1. Vouches(w)' => Vouches(w)
    BY <1>2, <1>3, <1>5 DEF Vouches, Listing, ListSteps, Begin, At
  <2>2. \A t \in Thread : InHand(t, run[w]) => InHand(t, run[w])'
    BY <1>1, <1>2, <1>3, <1>5, StillViews DEF InHand
  <2>3. \A t \in Thread : Whole(t) => Whole(t)'
    BY <1>1, WholeStays
  <2> QED
    BY <1>1, <1>2, <1>3, <1>5, <2>1, <2>2, <2>3, WorkerInv, StillViews DEF Progress, InHand
<1> QED BY <1>1, <1>2, <1>3, <1>4, <1>6, <1>7, <1>8, WorkerInv, WorkStep

LEMMA ProfileKeeps ==
  ASSUME CursorInv, TypeOK', NEW w \in Worker, Profile(w), ListsAlone(w)
  PROVE  CursorInv'
<1>1. Still /\ UNCHANGED <<stored, cursor>> /\ Keeps /\ ~At(w, "idle")
  BY DEF Profile, Still, envVars, Keeps, At
<1>2. run[w].job = "backfill" /\ run[w].page = {}
  BY WorkerInv DEF Profile, Placed, At
<1> DEFINE r == [run[w] EXCEPT !.pc = "list", !.upto = Now, !.todo = Thread]
<1>3. r.job = "backfill" /\ r.page = {} /\ r.upto = Now /\ r.from = run[w].from
      /\ r.todo = Thread /\ r.pc = "list"
  BY <1>2, WorkerInv DEF Run
<1>4. Goto(w, r) /\ mark' = Now /\ token' = Thread
  BY DEF Profile
<1> HIDE DEF r
<1>5. run'[w] = r
  BY <1>4, WorkerInv, GotoRuns
<1>6. Checkpointed' /\ NothingSkipped'
  BY <1>1, <1>4, RowStays DEF Checkpointed
<1>7. Placed(w)' /\ Marked(w)' /\ Read(w)'
  BY <1>3, <1>4, <1>5, WorkerInv, Values
  DEF Placed, Marked, Read, Listing, DeltaSteps, ListSteps, At, None
<1>8. Progress(w)'
  BY <1>3, <1>5 DEF Progress, InHand
<1> QED BY <1>1, <1>2, <1>3, <1>4, <1>6, <1>7, <1>8, WorkerInv, WorkStep

LEMMA ListKeeps ==
  ASSUME CursorInv, TypeOK', NEW w \in Worker, List(w)
  PROVE  CursorInv'
<1>1. Still /\ UNCHANGED <<stored, cursor, mark, token>> /\ Keeps
      /\ ~At(w, "idle")
  BY DEF List, Still, envVars, rowVars, Keeps, At
<1>2. run[w].job = "backfill" /\ run[w].page = {} /\ run[w].upto = mark /\ mark # None
  BY WorkerInv DEF List, Placed, Marked, Listing, ListSteps, At
<1>3. PICK moved \in SUBSET (run[w].todo \cap Touched(run[w].upto)) :
       \E P \in SUBSET {t \in run[w].todo \ moved : There(t) # {}} :
         Goto(w, [run[w] EXCEPT !.pc = IF P = {} THEN "page" ELSE "persist",
                       !.todo = {t \in run[w].todo \ moved : There(t) # {}} \ P, !.page = P,
                       !.copy = [t \in Thread |-> IF t \in P THEN There(t) ELSE {}]])
  BY DEF List
<1> DEFINE behind == {t \in run[w].todo \ moved : There(t) # {}}
<1>4. PICK P \in SUBSET behind :
         Goto(w, [run[w] EXCEPT !.pc = IF P = {} THEN "page" ELSE "persist",
                       !.todo = behind \ P, !.page = P,
                       !.copy = [t \in Thread |-> IF t \in P THEN There(t) ELSE {}]])
  BY <1>3
<1>5. \A t \in Thread \ Touched(run[w].upto) : t \in run[w].todo => t \in behind \/ There(t) = {}
  BY <1>3
<1> HIDE DEF behind
<1> DEFINE r == [run[w] EXCEPT !.pc = IF P = {} THEN "page" ELSE "persist",
                       !.todo = behind \ P, !.page = P,
                       !.copy = [t \in Thread |-> IF t \in P THEN There(t) ELSE {}]]
<1>6. /\ r.job = "backfill" /\ r.upto = mark /\ r.from = run[w].from
      /\ r.todo = behind \ P /\ r.page = P
      /\ r.pc = (IF P = {} THEN "page" ELSE "persist")
      /\ \A t \in Thread : t \in P => r.copy[t] = There(t)
  BY <1>2, WorkerInv DEF Run
<1>7. Goto(w, r)
  BY <1>4
<1> HIDE DEF r
<1>8. run'[w] = r
  BY <1>7, WorkerInv, GotoRuns
<1>9. Checkpointed' /\ NothingSkipped'
  BY <1>1, RowStays
<1>10. Placed(w)' /\ Marked(w)' /\ Read(w)'
  BY <1>1, <1>2, <1>6, <1>8, Values DEF Placed, Marked, Read, Listing, DeltaSteps, ListSteps, At
<1>11. Progress(w)'
  <2>1. Vouches(w)
    BY <1>2 DEF Vouches, Listing, ListSteps, List, At
  <2>2. \A t \in Thread \ Touched(run[w].upto) : t \in run[w].todo \/ Whole(t)
    BY <1>2, <2>1, WorkerInv DEF Progress, InHand
  <2>3. \A t \in Thread : Whole(t) => Whole(t)'
    BY <1>1, WholeStays
  <2>4. \A t \in Thread \ Touched(run[w].upto) : InHand(t, run[w])' \/ Whole(t)'
    BY <1>1, <1>5, <1>6, <1>8, <2>2, <2>3, StillViews DEF InHand, Whole
  <2> QED BY <1>1, <1>2, <1>6, <1>8, <2>4, StillViews DEF Progress, InHand
<1> QED BY <1>1, <1>2, <1>6, <1>7, <1>9, <1>10, <1>11, WorkerInv, WorkStep

LEMMA CheckpointKeeps ==
  ASSUME CursorInv, TypeOK', NEW w \in Worker, Checkpoint(w)
  PROVE  CursorInv'
<1>1. Still /\ UNCHANGED <<stored, cursor, mark>> /\ Keeps
      /\ ~At(w, "idle")
  BY DEF Checkpoint, Still, envVars, Keeps, At
<1>2. run[w].job = "backfill" /\ run[w].page = {} /\ run[w].upto = mark /\ mark # None
  BY WorkerInv DEF Checkpoint, Placed, Marked, Listing, ListSteps, At
<1> DEFINE r == [run[w] EXCEPT !.pc = IF run[w].todo = {} THEN "done" ELSE "list"]
<1>3. /\ r.job = "backfill" /\ r.page = {} /\ r.upto = mark /\ r.from = run[w].from
      /\ r.todo = run[w].todo /\ r.pc = IF run[w].todo = {} THEN "done" ELSE "list"
  BY <1>2, WorkerInv DEF Run
<1>4. Goto(w, r) /\ token' = IF run[w].todo = {} THEN Thread ELSE run[w].todo
  BY DEF Checkpoint
<1> HIDE DEF r
<1>5. run'[w] = r
  BY <1>4, WorkerInv, GotoRuns
<1>6. \A t \in Thread \ Touched(mark) : t \in run[w].todo \/ Whole(t)
  BY <1>2, WorkerInv DEF Progress, Vouches, Listing, ListSteps, Checkpoint, At, InHand
<1>7. \A t \in Thread : Whole(t) => Whole(t)'
  BY <1>1, WholeStays
<1>8. Checkpointed' /\ NothingSkipped'
  BY <1>1, <1>4, <1>6, <1>7, StillViews, RowStays DEF Checkpointed
<1>9. Placed(w)' /\ Marked(w)' /\ Read(w)'
  BY <1>1, <1>2, <1>3, <1>5, Values DEF Placed, Marked, Read, Listing, DeltaSteps, ListSteps, At
<1>10. Progress(w)'
  BY <1>1, <1>3, <1>5, <1>6, <1>7, StillViews DEF Progress, InHand
<1> QED BY <1>1, <1>2, <1>3, <1>4, <1>8, <1>9, <1>10, WorkerInv, WorkStep

LEMMA DoneKeeps ==
  ASSUME CursorInv, TypeOK', NEW w \in Worker, Done(w), ListsAlone(w)
  PROVE  CursorInv'
<1>1. Still /\ UNCHANGED stored /\ Keeps
      /\ ~At(w, "idle") /\ ~At(w, "persist")
  BY DEF Done, Still, envVars, Keeps, At
<1>2. /\ run[w].job = "backfill" /\ run[w].todo = {} /\ run[w].upto = mark /\ mark # None
      /\ Vouches(w)
  BY WorkerInv DEF Done, Placed, Marked, Vouches, Listing, ListSteps, At
<1> DEFINE r == [Rest EXCEPT !.job = "backfill", !.pc = "watch"]
<1>3. r.job = "backfill" /\ r.pc = "watch" /\ r.page = {} /\ r.from = None /\ r.upto = None
  BY DEF Rest
<1>4. Goto(w, r) /\ cursor' = run[w].upto /\ mark' = None
  BY DEF Done
<1> HIDE DEF r
<1>5. run'[w] = r
  BY <1>4, WorkerInv, GotoRuns
<1>6. Placed(w)' /\ Marked(w)' /\ Progress(w)' /\ Read(w)'
  BY <1>3, <1>5, Values
  DEF Placed, Marked, Progress, Read, Vouches, Listing, DeltaSteps, ListSteps, At
<1>7. Complete(run[w].upto)
  BY <1>1, <1>2, WindowIsWhole
<1>8. NothingSkipped'
  BY <1>1, <1>4, <1>7, CompleteStays, StillViews DEF NothingSkipped, Complete
<1>9. Checkpointed'
  BY <1>4 DEF Checkpointed
<1> QED BY <1>1, <1>2, <1>3, <1>4, <1>6, <1>8, <1>9, WorkerInv, WorkStep

LEMMA CursorInit == Init => CursorInv
<1> SUFFICES ASSUME Init PROVE CursorInv
  OBVIOUS
<1>1. TypeOK
  BY InitTypes
<1>2. \A p \in Proc : run[p] = Rest
  BY DEF Init
<1>3. Instants
  BY <1>2 DEF Init, Instants, Instant, Rest
<1>4. Checkpointed /\ NothingSkipped
  BY DEF Init, Checkpointed, NothingSkipped
<1>5. ASSUME NEW w \in Worker PROVE Sound(w)
  <2>1. run[w].pc = "idle" /\ run[w].page = {} /\ run[w].job = "none"
    BY <1>2, Values DEF Rest
  <2>2. Placed(w)
    BY <2>1 DEF Placed, DeltaSteps, At
  <2> QED BY <2>1, <2>2, NoClaim DEF Elsewhere, Sound
<1> QED BY <1>1, <1>3, <1>4, <1>5 DEF CursorInv

\* The history id of the checkpoint is replaced by the only worker that lists.
ReplacedAlone == \A w \in Worker : Profile(w) \/ Done(w) => ListsAlone(w)

LEMMA CursorStep == CursorInv /\ [Next /\ ReplacedAlone]_vars => CursorInv'
<1> SUFFICES ASSUME CursorInv, [Next /\ ReplacedAlone]_vars PROVE CursorInv'
  OBVIOUS
<1>1. TypeOK'
  BY StepTypes DEF CursorInv
<1>2. CASE UNCHANGED vars
  BY <1>1, <1>2, BackgroundStep DEF vars, syncVars, envVars, rowVars, Still
<1>3. CASE Provider \/ Push \/ \E i \in Id : PromoteJob(i) \/ StallJob(i) \/ LoseJob(i)
  BY <1>1, <1>3, EnvironmentKeeps
<1>4. CASE \/ \E w \in Worker, i \in Id : Take(w, i)
           \/ \E u \in User : Ask(u)
           \/ \E k \in Keeper : (\E quiet \in BOOLEAN : Keep(k, quiet)) \/ CatchUp(k)
  BY <1>1, <1>4, StartKeeps
<1>5. CASE \E w \in Worker : RunDelta(w)
  BY <1>1, <1>5, LoadKeeps, HistoryKeeps, FetchKeeps, PersistKeeps, BreakKeeps, AdvanceKeeps
  DEF RunDelta
<1>6. CASE ReplacedAlone /\ \E w \in Worker : RunBackfill(w)
  BY <1>1, <1>6, OpenKeeps, BeginKeeps, ProfileKeeps, ListKeeps, CheckpointKeeps, DoneKeeps
  DEF RunBackfill, ReplacedAlone
<1>7. CASE \E p \in Proc : StartBackfill(p) \/ Denied(p) \/ Watching(p) \/ Throw(p) \/ Crash(p)
  BY <1>1, <1>7, StartBackfillKeeps, StopKeeps, WatchKeeps
<1>8. CASE \E w \in Worker : Watch(w)
  BY <1>1, <1>8, WatchKeeps, Values
<1>9. CASE \/ \E i \in Id : AbortStalled(i)
           \/ \E w \in Worker : Shutdown(w) \/ Cancelled(w)
  BY <1>1, <1>9, AbortKeeps
<1> QED
  BY <1>2, <1>3, <1>4, <1>5, <1>6, <1>7, <1>8, <1>9, Values DEF Next, Work

\* "The cursor advances last", with what it rests on: whatever overlaps, fails,
\* lapses, is lost, aborted or resumed, the cursor never passes a message that is
\* not stored, but on the threads an aborted delta has left, as long as the
\* history id of the checkpoint is not replaced while another worker lists for
\* it.  Two runs of one backfill, after a lapse of its lock, can do that.
THEOREM CursorNeverSkips ==
  Spec => ([][ReplacedAlone]_vars => []NothingSkipped)
<1>1. CursorInv => NothingSkipped
  BY DEF CursorInv
<1>2. CursorInv /\ [Next]_vars /\ [ReplacedAlone]_vars => CursorInv'
  BY CursorStep
<1> QED BY <1>1, <1>2, CursorInit, PTL DEF Spec

(***************************************************************************)
(* Locks: the usual case of that theorem.                                  *)
(***************************************************************************)

\* A worker that runs a job holds its lock.
Holds(w) ==
  ~At(w, "idle") => run[w].job \in Id /\ job[run[w].job] = "active" /\ lock[run[w].job] = w

\* The steps of a delta are taken for a delta, those of a backfill for a backfill.
OnJob(w) ==
  /\ run[w].pc \in DeltaSteps => run[w].job = "delta"
  /\ run[w].pc \in {"open", "begin", "profile", "list", "page", "done"} => run[w].job = "backfill"

LockInv == TypeOK /\ \A w \in Worker : Holds(w) /\ OnJob(w)

\* No lock lapses under a worker that goes on, and Redis keeps its jobs.
Locked == Faulty \cap {"stall", "lose"} = {}

\* Two workers never run one job.
OneWorkerPerJob ==
  \A v, w \in Worker :
    v # w /\ ~At(v, "idle") /\ ~At(w, "idle") => run[v].job # run[w].job

\* A lock stays while the queue does something about another job or worker.
LEMMA LocksStay ==
  ASSUME TypeOK, NEW v \in Worker, Holds(v), run'[v] = run[v],
         \/ UNCHANGED queueVars
         \/ \E i \in Id : Enqueue(i, 0) \/ Enqueue(i, 1)
         \/ \E i \in Id : Promote(i, Horizon) \/ (lock[i] = NoWorker /\ Stall(i))
         \/ \E i \in Id, w \in Worker : Acquire(i, w)
         \/ \E i, w : /\ w # v
                      /\ \/ Release(i, w, "completed") \/ Release(i, w, "failed")
                         \/ Retry(i, w) \/ Abandon(i, w)
  PROVE  Holds(v)'
<1> SUFFICES ASSUME ~At(v, "idle")
             PROVE  /\ run[v].job \in Id /\ job'[run[v].job] = "active"
                    /\ lock'[run[v].job] = v
  BY DEF Holds, At
<1> DEFINE j == run[v].job
<1>1. j \in Id /\ job[j] = "active" /\ lock[j] = v
  BY DEF Holds
<1>2. job \in [Id -> JobState] /\ lock \in [Id -> Worker \cup {NoWorker}]
  BY DEF TypeOK, QueueTypeOK
<1>3. v # NoWorker
  BY QueueAssumption
<1> HIDE DEF j
<1>4. CASE UNCHANGED queueVars
  BY <1>1, <1>4 DEF queueVars, j
<1>5. ASSUME NEW i \in Id, Enqueue(i, 0) \/ Enqueue(i, 1)
      PROVE  job'[j] = "active" /\ lock'[j] = v
  BY <1>1, <1>2, <1>5 DEF Enqueue, Vacant, Insert, queueVars
<1>6. ASSUME NEW i \in Id, Promote(i, Horizon) \/ (lock[i] = NoWorker /\ Stall(i))
      PROVE  job'[j] = "active" /\ lock'[j] = v
  BY <1>1, <1>2, <1>3, <1>6 DEF Promote, Stall
<1>7. ASSUME NEW i \in Id, NEW w \in Worker, Acquire(i, w)
      PROVE  job'[j] = "active" /\ lock'[j] = v
  BY <1>1, <1>2, <1>7 DEF Acquire
<1>8. ASSUME NEW i, NEW w, w # v,
             \/ Release(i, w, "completed") \/ Release(i, w, "failed")
             \/ Retry(i, w) \/ Abandon(i, w)
      PROVE  job'[j] = "active" /\ lock'[j] = v
  BY <1>1, <1>2, <1>8 DEF Release, Retry, Abandon, queueVars
<1> QED BY <1>1, <1>4, <1>5, <1>6, <1>7, <1>8 DEF j

\* The locks of the others, when a process p moves.
LEMMA OthersHold ==
  ASSUME LockInv, NEW p \in Proc, NEW r, Goto(p, r), NEW v \in Worker, v # p,
         \/ UNCHANGED queueVars
         \/ \E i \in Id : Enqueue(i, 0) \/ Enqueue(i, 1)
         \/ \E i \in Id, w \in Worker : Acquire(i, w)
         \/ \E i : \/ Release(i, p, "completed") \/ Release(i, p, "failed")
                   \/ Retry(i, p) \/ Abandon(i, p)
  PROVE  Holds(v)' /\ OnJob(v)'
<1>1. run'[v] = run[v] /\ Holds(v) /\ OnJob(v) /\ TypeOK
  BY GotoRuns, Values DEF LockInv
<1> QED BY <1>1, LocksStay DEF OnJob

\* The lock of the process that moves, and keeps its job.
LEMMA OwnHolds ==
  ASSUME LockInv, NEW w \in Worker, NEW r, Goto(w, r), r.job = run[w].job, ~At(w, "idle"),
         \/ UNCHANGED queueVars
         \/ \E i \in Id : Enqueue(i, 0) \/ Enqueue(i, 1)
  PROVE  Holds(w)'
<1>1. run'[w] = r /\ Holds(w) /\ TypeOK
  BY GotoRuns, Values DEF LockInv
<1> DEFINE j == run[w].job
<1>2. j \in Id /\ job[j] = "active" /\ lock[j] = w
  BY <1>1 DEF Holds
<1>3. job \in [Id -> JobState] /\ lock \in [Id -> Worker \cup {NoWorker}]
  BY <1>1 DEF TypeOK, QueueTypeOK
<1> HIDE DEF j
<1>4. job'[j] = "active" /\ lock'[j] = w
  BY <1>2, <1>3 DEF Enqueue, Vacant, Insert, queueVars
<1> QED BY <1>1, <1>2, <1>4 DEF Holds, j

\* A process stops, and gives its job back.
LEMMA StopLocks ==
  ASSUME LockInv, TypeOK', NEW p \in Proc, Goto(p, Rest),
         \/ UNCHANGED queueVars
         \/ \E i \in Id : Enqueue(i, 0) \/ Enqueue(i, 1)
         \/ \E i : \/ Release(i, p, "completed") \/ Release(i, p, "failed")
                   \/ Retry(i, p) \/ Abandon(i, p)
  PROVE  LockInv'
<1>1. \A v \in Worker : v # p => Holds(v)' /\ OnJob(v)'
  BY OthersHold
<1>2. run'[p] = Rest /\ Rest.pc = "idle"
  BY GotoRuns DEF LockInv, Rest
<1>3. p \in Worker => Holds(p)' /\ OnJob(p)'
  BY <1>2 DEF Holds, OnJob, DeltaSteps, At
<1> QED BY <1>1, <1>3 DEF LockInv

\* A process goes on with its job.
LEMMA MoveLocks ==
  ASSUME LockInv, TypeOK', NEW p \in Proc, NEW r, Goto(p, r),
         \/ UNCHANGED queueVars
         \/ \E i \in Id : Enqueue(i, 0) \/ Enqueue(i, 1),
         p \in Worker =>
           /\ ~At(p, "idle") /\ r.job = run[p].job
           /\ r.pc \in DeltaSteps => r.job = "delta"
           /\ r.pc \in {"open", "begin", "profile", "list", "page", "done"} => r.job = "backfill"
  PROVE  LockInv'
<1>1. \A v \in Worker : v # p => Holds(v)' /\ OnJob(v)'
  BY OthersHold
<1>2. p \in Worker => Holds(p)'
  BY OwnHolds
<1>3. run'[p] = r
  BY GotoRuns DEF LockInv
<1>4. p \in Worker => OnJob(p)'
  BY <1>3 DEF OnJob
<1> QED BY <1>1, <1>2, <1>4 DEF LockInv

\* Steps that move no process.
LEMMA QueueLocks ==
  ASSUME LockInv, TypeOK', UNCHANGED run,
         \/ UNCHANGED queueVars
         \/ \E i \in Id : Enqueue(i, 0) \/ Enqueue(i, 1)
         \/ \E i \in Id : Promote(i, Horizon) \/ (lock[i] = NoWorker /\ Stall(i))
  PROVE  LockInv'
<1>1. \A v \in Worker : Holds(v)'
  BY LocksStay DEF LockInv
<1> QED BY <1>1 DEF LockInv, OnJob

LEMMA EnvironmentLocks ==
  ASSUME LockInv, TypeOK', Locked,
         \/ Provider \/ Push
         \/ \E i \in Id : PromoteJob(i) \/ StallJob(i) \/ LoseJob(i)
  PROVE  LockInv'
<1>1. CASE Provider
  BY <1>1, QueueLocks
  DEF Provider, Arrive, Remove, Change, ExpireHistory, Revoke, Reconnect, Refresh
<1>2. CASE Push
  BY <1>2, QueueLocks, Values DEF Push
<1>3. CASE \E i \in Id : PromoteJob(i) \/ StallJob(i) \/ LoseJob(i)
  <2>1. PICK i \in Id : PromoteJob(i) \/ StallJob(i) \/ LoseJob(i)
    BY <1>3
  <2>2. PromoteJob(i) \/ (StallJob(i) /\ lock[i] = NoWorker)
    BY <2>1 DEF Locked, StallJob, LoseJob, Fault
  <2> QED BY <2>2, QueueLocks DEF PromoteJob, StallJob, syncVars
<1> QED BY <1>1, <1>2, <1>3

\* Steps any process may take.
LEMMA CommonLocks ==
  ASSUME LockInv, TypeOK', NEW p \in Proc,
         \/ StartBackfill(p) \/ Denied(p) \/ (p \in Worker /\ Watch(p)) \/ Watching(p)
         \/ Throw(p) \/ Crash(p)
  PROVE  LockInv'
<1> run[p] \in Run
  BY DEF LockInv, TypeOK
<1>1. CASE End(p) \/ Throw(p) \/ Crash(p)
  BY <1>1, StopLocks DEF End, Throw, Crash, Fail
<1>2. CASE Denied(p) \/ (AskLoad(p) /\ Refuse(p))
  BY <1>2, StopLocks DEF Denied, Refuse
<1>3. ASSUME NEW pc \in {"add", "mark", "end"}, Goto(p, [run[p] EXCEPT !.pc = pc]),
             run[p].pc \in {"ask", "add", "mark"},
             UNCHANGED queueVars \/ Enqueue("backfill", 0)
      PROVE  LockInv'
  <2> DEFINE r == [run[p] EXCEPT !.pc = pc]
  <2>1. r.pc = pc /\ r.job = run[p].job /\ Goto(p, r)
    BY <1>3 DEF Run
  <2> HIDE DEF r
  <2>2. p \in Worker => run[p].job = "delta" /\ ~At(p, "idle")
    BY <1>3 DEF LockInv, OnJob, DeltaSteps, At
  <2> QED BY <1>3, <2>1, <2>2, MoveLocks, Values
<1>4. CASE AskLoad(p) /\ ~Refuse(p)
  BY <1>3, <1>4 DEF AskLoad, At
<1>5. CASE AddBackfill(p)
  BY <1>3, <1>5 DEF AddBackfill, At
<1>6. CASE MarkPending(p)
  BY <1>3, <1>6 DEF MarkPending, At
<1>7. CASE (p \in Worker /\ Watch(p)) \/ Watching(p)
  <2>1. PICK pc \in {"end", "watching", "catchup"}, b \in BOOLEAN :
          Goto(p, [run[p] EXCEPT !.pc = pc, !.failing = b])
    BY <1>7 DEF Watch, Watching
  <2> DEFINE r == [run[p] EXCEPT !.pc = pc, !.failing = b]
  <2>2. r.pc = pc /\ r.job = run[p].job /\ Goto(p, r)
    BY <2>1 DEF Run
  <2> HIDE DEF r
  <2>3. UNCHANGED queueVars /\ ~At(p, "idle")
    BY <1>7 DEF Watch, Watching, At
  <2> QED BY <2>2, <2>3, MoveLocks DEF DeltaSteps
<1> QED BY <1>1, <1>2, <1>4, <1>5, <1>6, <1>7 DEF StartBackfill

\* A job is taken, a request made, the keeper comes round.
LEMMA StartLocks ==
  ASSUME LockInv, TypeOK',
         \/ \E w \in Worker, i \in Id : Take(w, i)
         \/ \E u \in User : Ask(u)
         \/ \E k \in Keeper : (\E quiet \in BOOLEAN : Keep(k, quiet)) \/ CatchUp(k)
  PROVE  LockInv'
<1>1. ASSUME NEW w \in Worker, NEW i \in Id, Take(w, i) PROVE LockInv'
  <2> DEFINE r == [Rest EXCEPT !.job = i, !.pc = IF i = "delta" THEN "load" ELSE "open"]
  <2>1. r.pc = (IF i = "delta" THEN "load" ELSE "open") /\ r.job = i
    BY DEF Rest
  <2>2. Goto(w, r) /\ Acquire(i, w) /\ w \in Proc
    BY <1>1, Values DEF Take
  <2> HIDE DEF r
  <2>3. \A v \in Worker : v # w => Holds(v)' /\ OnJob(v)'
    BY <2>2, OthersHold
  <2>4. run'[w] = r
    BY <2>2, GotoRuns DEF LockInv
  <2>5. Holds(w)' /\ OnJob(w)'
    BY <2>1, <2>2, <2>4, SyncAssumption
    DEF Holds, OnJob, DeltaSteps, Acquire, LockInv, TypeOK, QueueTypeOK
  <2> QED BY <2>3, <2>5 DEF LockInv
<1>2. ASSUME NEW p \in User \cup Keeper, NEW r, Goto(p, r),
             UNCHANGED queueVars \/ Enqueue("delta", 1)
      PROVE  LockInv'
  <2>1. p \in Proc /\ p \notin Worker
    BY SyncAssumption DEF Proc
  <2> QED BY <1>2, <2>1, MoveLocks, Values
<1>3. CASE \E u \in User : Ask(u)
  BY <1>2, <1>3 DEF Ask
<1>4. CASE \E k \in Keeper : (\E quiet \in BOOLEAN : Keep(k, quiet)) \/ CatchUp(k)
  BY <1>2, <1>4 DEF Keep, CatchUp
<1> QED BY <1>1, <1>3, <1>4

\* A run is aborted, and finds that it is.
LEMMA AbortLocks ==
  ASSUME LockInv, TypeOK',
         \/ \E i \in Id : AbortStalled(i)
         \/ \E w \in Worker : Shutdown(w) \/ Cancelled(w)
  PROVE  LockInv'
<1>1. CASE UNCHANGED <<queueVars, run>>
  BY <1>1, QueueLocks
<1>2. CASE /\ UNCHANGED queueVars
           /\ \E w \in Worker : Goto(w, [run[w] EXCEPT !.aborted = TRUE])
  <2>1. PICK w \in Worker : Goto(w, [run[w] EXCEPT !.aborted = TRUE])
    BY <1>2
  <2> DEFINE r == [run[w] EXCEPT !.aborted = TRUE]
  <2>2. w \in Proc /\ run[w] \in Run /\ OnJob(w)
    BY Values DEF LockInv, TypeOK
  <2>3. r.job = run[w].job /\ r.pc = run[w].pc /\ Goto(w, r)
    BY <2>1, <2>2 DEF Run
  <2> HIDE DEF r
  <2>4. run'[w] = r
    BY <2>2, <2>3, GotoRuns DEF LockInv
  <2>5. CASE At(w, "idle")
    <3>1. \A v \in Worker : v # w => Holds(v)' /\ OnJob(v)'
      BY <1>2, <2>2, <2>3, OthersHold
    <3>2. Holds(w)' /\ OnJob(w)'
      BY <2>2, <2>3, <2>4, <2>5 DEF Holds, OnJob, At
    <3> QED BY <3>1, <3>2 DEF LockInv
  <2>6. CASE ~At(w, "idle")
    BY <1>2, <2>2, <2>3, <2>6, MoveLocks DEF OnJob
  <2> QED BY <2>5, <2>6
<1>3. CASE \E w \in Worker : Cancelled(w)
  BY <1>3, StopLocks, Values DEF Cancelled, Fail
<1> QED BY <1>1, <1>2, <1>3 DEF AbortStalled, Shutdown

\* Steps of a delta.
LEMMA DeltaLocks ==
  ASSUME LockInv, TypeOK', NEW w \in Worker, RunDelta(w)
  PROVE  LockInv'
<1> w \in Proc /\ run[w] \in Run /\ Holds(w) /\ OnJob(w)
  BY Values DEF LockInv, TypeOK
<1>1. CASE Load(w) /\ Refuse(w)
  BY <1>1, StopLocks DEF Refuse
<1>2. ASSUME NEW r, Goto(w, r), r.job = "delta",
             UNCHANGED queueVars \/ Enqueue("delta", 1), ~At(w, "idle"), run[w].job = "delta",
             r.pc \in DeltaSteps \cup {"persist", "end"}
      PROVE  LockInv'
  BY <1>2, MoveLocks, Values DEF DeltaSteps
<1>3. CASE Load(w) /\ ~Refuse(w)
  <2>1. run[w].job = "delta" /\ ~At(w, "idle") /\ UNCHANGED queueVars
    BY <1>3 DEF Load, OnJob, DeltaSteps, At
  <2>2. PICK r \in {[run[w] EXCEPT !.pc = "ask"],
                    [run[w] EXCEPT !.pc = "history", !.from = cursor,
                                   !.failing = (status = "ERROR")]} : Goto(w, r)
    BY <1>3 DEF Load
  <2>3. r.job = "delta" /\ r.pc \in {"ask", "history"}
    BY <2>1 DEF Run
  <2> QED BY <1>2, <2>1, <2>2, <2>3 DEF DeltaSteps
<1>4. CASE History(w)
  <2>1. run[w].job = "delta" /\ ~At(w, "idle") /\ UNCHANGED queueVars
    BY <1>4 DEF History, OnJob, DeltaSteps, At
  <2> DEFINE c == run[w].from
  <2>2. PICK r \in {[Rest EXCEPT !.job = "delta", !.pc = "ask"],
                    [run[w] EXCEPT !.pc = "loop", !.from = None, !.upto = Now,
                        !.todo = Taken(c), !.failing = @ /\ Touched(c) # {},
                        !.late = (Taken(c) # Touched(c))]} : Goto(w, r)
    BY <1>4 DEF History
  <2>3. r.job = "delta" /\ r.pc \in {"ask", "loop"}
    BY <2>1 DEF Run, Rest
  <2> QED BY <1>2, <2>1, <2>2, <2>3 DEF DeltaSteps
<1>5. CASE Fetch(w)
  <2>1. run[w].job = "delta" /\ ~At(w, "idle") /\ UNCHANGED queueVars /\ At(w, "loop")
    BY <1>5 DEF Fetch, OnJob, DeltaSteps, At
  <2>2. PICK t : \E r \in {[run[w] EXCEPT !.pc = "persist", !.todo = @ \ {t}, !.page = {t},
                                          !.copy = [Nothing EXCEPT ![t] = There(t)]],
                           [run[w] EXCEPT !.todo = @ \ {t}]} : Goto(w, r)
    BY <1>5 DEF Fetch
  <2>3. PICK r \in {[run[w] EXCEPT !.pc = "persist", !.todo = @ \ {t}, !.page = {t},
                                   !.copy = [Nothing EXCEPT ![t] = There(t)]],
                    [run[w] EXCEPT !.todo = @ \ {t}]} : Goto(w, r)
    BY <2>2
  <2>4. r.job = "delta" /\ r.pc \in {"persist", "loop"}
    BY <2>1 DEF Run, At
  <2> QED BY <1>2, <2>1, <2>3, <2>4 DEF DeltaSteps
<1>6. CASE Persist(w)
  <2>1. ~At(w, "idle") /\ UNCHANGED queueVars /\ At(w, "persist") /\ run[w].job \in Id
    BY <1>6 DEF Persist, Holds, At
  <2>2. PICK t : Goto(w, [run[w] EXCEPT
                     !.page = @ \ {t}, !.copy[t] = {},
                     !.pc = IF run[w].page # {t} THEN @
                            ELSE IF run[w].job = "delta" THEN "loop" ELSE "page"])
    BY <1>6 DEF Persist
  <2> DEFINE r == [run[w] EXCEPT
                     !.page = @ \ {t}, !.copy[t] = {},
                     !.pc = IF run[w].page # {t} THEN @
                            ELSE IF run[w].job = "delta" THEN "loop" ELSE "page"]
  <2>3. r.job = run[w].job
        /\ r.pc = IF run[w].page # {t} THEN "persist"
                  ELSE IF run[w].job = "delta" THEN "loop" ELSE "page"
    BY <2>1 DEF Run, At
  <2>4. Goto(w, r)
    BY <2>2
  <2> HIDE DEF r
  <2> QED BY <2>1, <2>3, <2>4, SyncAssumption, MoveLocks DEF DeltaSteps
<1>7. CASE Advance(w)
  <2>1. run[w].job = "delta" /\ ~At(w, "idle") /\ (UNCHANGED queueVars \/ Enqueue("delta", 1))
    BY <1>7 DEF Advance, OnJob, DeltaSteps, At
  <2>2. [Rest EXCEPT !.job = "delta", !.pc = "end"].job = "delta"
        /\ [Rest EXCEPT !.job = "delta", !.pc = "end"].pc = "end"
    BY DEF Rest
  <2> QED BY <1>2, <1>7, <2>1, <2>2 DEF Advance
<1>8. CASE Break(w)
  <2>1. run[w].job = "delta" /\ ~At(w, "idle") /\ UNCHANGED queueVars /\ At(w, "loop")
    BY <1>8 DEF Break, OnJob, DeltaSteps, At
  <2>2. [run[w] EXCEPT !.todo = {}].job = "delta" /\ [run[w] EXCEPT !.todo = {}].pc = "loop"
    BY <2>1 DEF Run, At
  <2> QED BY <1>2, <1>8, <2>1, <2>2 DEF Break, DeltaSteps
<1> QED BY <1>1, <1>3, <1>4, <1>5, <1>6, <1>7, <1>8 DEF RunDelta

\* Steps of a backfill.
LEMMA BackfillLocks ==
  ASSUME LockInv, TypeOK', NEW w \in Worker, RunBackfill(w)
  PROVE  LockInv'
<1> w \in Proc /\ run[w] \in Run /\ Holds(w) /\ OnJob(w)
  BY Values DEF LockInv, TypeOK
<1>1. CASE Open(w) /\ Refuse(w)
  BY <1>1, StopLocks DEF Refuse
<1>2. CASE ~(Open(w) /\ Refuse(w))
  <2>1. run[w].job = "backfill" /\ ~At(w, "idle") /\ UNCHANGED queueVars
    BY <1>2
    DEF RunBackfill, Open, Begin, Profile, List, Checkpoint, Done, OnJob, At
  <2>2. ASSUME NEW r, Goto(w, r), r.job = "backfill", r.pc \notin DeltaSteps PROVE LockInv'
    BY <2>1, <2>2, MoveLocks
  <2>3. CASE Open(w) \/ Profile(w)
    <3>1. \E pc \in {"begin", "list"} : \E u, T :
            Goto(w, [run[w] EXCEPT !.pc = pc, !.upto = u, !.todo = T])
      <4>1. Open(w) => Goto(w, [run[w] EXCEPT !.pc = "begin", !.upto = mark, !.todo = token])
        BY <1>2 DEF Open
      <4>2. Profile(w) => Goto(w, [run[w] EXCEPT !.pc = "list", !.upto = Now, !.todo = Thread])
        BY DEF Profile
      <4> QED BY <2>3, <4>1, <4>2
    <3>2. PICK pc \in {"begin", "list"} : \E u, T :
            Goto(w, [run[w] EXCEPT !.pc = pc, !.upto = u, !.todo = T])
      BY <3>1
    <3>3. \A u, T : /\ [run[w] EXCEPT !.pc = pc, !.upto = u, !.todo = T].job = "backfill"
                   /\ [run[w] EXCEPT !.pc = pc, !.upto = u, !.todo = T].pc = pc
      BY <2>1 DEF Run
    <3> QED BY <2>2, <3>2, <3>3 DEF DeltaSteps
  <2>4. CASE List(w)
    <3>1. PICK moved : \E P :
            Goto(w, [run[w] EXCEPT !.pc = IF P = {} THEN "page" ELSE "persist",
                       !.todo = {t \in run[w].todo \ moved : There(t) # {}} \ P, !.page = P,
                       !.copy = [t \in Thread |-> IF t \in P THEN There(t) ELSE {}]])
      BY <2>4 DEF List
    <3> DEFINE behind == {t \in run[w].todo \ moved : There(t) # {}}
    <3>2. PICK P :
            Goto(w, [run[w] EXCEPT !.pc = IF P = {} THEN "page" ELSE "persist",
                       !.todo = behind \ P, !.page = P,
                       !.copy = [t \in Thread |-> IF t \in P THEN There(t) ELSE {}]])
      BY <3>1
    <3> HIDE DEF behind
    <3> DEFINE r == [run[w] EXCEPT !.pc = IF P = {} THEN "page" ELSE "persist",
                       !.todo = behind \ P, !.page = P,
                       !.copy = [t \in Thread |-> IF t \in P THEN There(t) ELSE {}]]
    <3>3. r.job = "backfill" /\ r.pc \in {"page", "persist"}
      BY <2>1 DEF Run
    <3>4. Goto(w, r)
      BY <3>2
    <3> HIDE DEF r
    <3> QED BY <2>2, <3>3, <3>4 DEF DeltaSteps
  <2>5. CASE Checkpoint(w) \/ Begin(w)
    <3>1. PICK pc \in {"done", "list", "profile"} : Goto(w, [run[w] EXCEPT !.pc = pc])
      BY <2>5 DEF Checkpoint, Begin
    <3>2. [run[w] EXCEPT !.pc = pc].job = "backfill" /\ [run[w] EXCEPT !.pc = pc].pc = pc
      BY <2>1 DEF Run
    <3> QED BY <2>2, <3>1, <3>2 DEF DeltaSteps
  <2>6. CASE Done(w)
    <3>1. [Rest EXCEPT !.job = "backfill", !.pc = "watch"].job = "backfill"
          /\ [Rest EXCEPT !.job = "backfill", !.pc = "watch"].pc = "watch"
      BY DEF Rest
    <3> QED BY <2>2, <2>6, <3>1 DEF Done, DeltaSteps
  <2> QED BY <2>3, <2>4, <2>5, <2>6 DEF RunBackfill
<1> QED BY <1>1, <1>2

LEMMA LockInit == Init => LockInv
<1> SUFFICES ASSUME Init PROVE LockInv
  OBVIOUS
<1>1. \A w \in Worker : run[w].pc = "idle"
  BY Values DEF Init, Rest
<1> QED BY <1>1, InitTypes DEF LockInv, Holds, OnJob, DeltaSteps, At

LEMMA LockStep == Locked /\ LockInv /\ [Next]_vars => LockInv'
<1> SUFFICES ASSUME Locked, LockInv, [Next]_vars PROVE LockInv'
  OBVIOUS
<1>1. TypeOK'
  BY StepTypes DEF LockInv
<1>2. CASE UNCHANGED vars
  BY <1>1, <1>2, QueueLocks DEF vars, syncVars
<1>3. CASE Provider \/ Push \/ \E i \in Id : PromoteJob(i) \/ StallJob(i) \/ LoseJob(i)
  BY <1>1, <1>3, EnvironmentLocks
<1>4. CASE \/ \E w \in Worker, i \in Id : Take(w, i)
           \/ \E u \in User : Ask(u)
           \/ \E k \in Keeper : (\E quiet \in BOOLEAN : Keep(k, quiet)) \/ CatchUp(k)
  BY <1>1, <1>4, StartLocks
<1>5. CASE \E w \in Worker : RunDelta(w) \/ RunBackfill(w)
  BY <1>1, <1>5, DeltaLocks, BackfillLocks
<1>6. CASE \/ \E p \in Proc : StartBackfill(p) \/ Denied(p) \/ Watching(p) \/ Throw(p) \/ Crash(p)
           \/ \E w \in Worker : Watch(w)
  BY <1>1, <1>6, CommonLocks, Values
<1>7. CASE \/ \E i \in Id : AbortStalled(i)
           \/ \E w \in Worker : Shutdown(w) \/ Cancelled(w)
  BY <1>1, <1>7, AbortLocks
<1> QED
  BY <1>2, <1>3, <1>4, <1>5, <1>6, <1>7, Values DEF Next, Work

\* The lock of a job keeps a second worker from it: while no lock lapses under
\* a worker that goes on and Redis keeps its jobs, two workers never run the
\* delta, or the backfill, of the mailbox at once.
THEOREM LocksKeepJobsApart ==
  ASSUME Locked
  PROVE  Spec => []OneWorkerPerJob
<1>1. LockInv => OneWorkerPerJob
  BY DEF LockInv, OneWorkerPerJob, Holds
<1>2. LockInv /\ [Next]_vars => LockInv'
  BY LockStep
<1> QED BY <1>1, <1>2, LockInit, PTL DEF Spec

\* In the usual case, then, with jobs kept apart by their locks, failures,
\* crashes, aborts, expired history and revocations never let the cursor pass a
\* message that is not stored, but on the threads an aborted delta has left.
THEOREM LockedCursorNeverSkips ==
  ASSUME Locked
  PROVE  Spec => []NothingSkipped
<1>1. LockInv => ReplacedAlone
  <2>1. \A w \in Worker : Profile(w) \/ Done(w) =>
          (run[w].job = "backfill" /\ ~At(w, "idle")) \/ ~OnJob(w)
    BY DEF Profile, Done, OnJob, At
  <2>2. \A v \in Worker : Listing(v) => run[v].job = "backfill" /\ ~At(v, "idle")
    BY DEF Listing, ListSteps, At
  <2> QED BY <2>1, <2>2 DEF LockInv, Holds, ReplacedAlone, ListsAlone
<1>2. LockInv /\ [Next]_vars => LockInv'
  BY LockStep
<1>3. Spec => [][ReplacedAlone]_vars
  <2>1. LockInv /\ [Next]_vars => [ReplacedAlone]_vars
    BY <1>1
  <2> QED BY <1>2, <2>1, LockInit, PTL DEF Spec
<1> QED BY <1>3, CursorNeverSkips, PTL

(***************************************************************************)
(* Inbox: the pages of the list.                                           *)
(***************************************************************************)

\* A row as the list sorts it: a score or none, a date and an id.
Row(r) == /\ r.score = Null \/ \E x \in Int : r.score = {x}
          /\ r.lastMessageAt \in Int /\ r.id \in Int

\* The order of the list is a strict order, total on rows of different ids.
LEMMA ListOrder ==
  ASSUME NEW a, NEW b, NEW c, Row(a), Row(b), Row(c)
  PROVE  /\ ~Precedes(a, a)
         /\ Precedes(a, b) /\ Precedes(b, c) => Precedes(a, c)
         /\ a.id # b.id => Precedes(a, b) \/ Precedes(b, a)
<1>1. ~Precedes(a, a)
  BY DEF Precedes, Row, Null
<1>2. Precedes(a, b) /\ Precedes(b, c) => Precedes(a, c)
  BY DEF Precedes, Row, Null
<1>3. a.id # b.id => Precedes(a, b) \/ Precedes(b, a)
  BY DEF Precedes, Row, Null
<1> QED BY <1>1, <1>2, <1>3

\* The filter written for the database is the order of the list.
LEMMA FilterIsOrder ==
  ASSUME NEW a, NEW b, Row(a), Row(b)
  PROVE  afterCursor(CursorOf(a), b) <=> Precedes(a, b)
BY DEF afterCursor, CursorOf, Precedes, Row, Null

\* A set of rows: finitely many, and no two of an id.
Rows(S) == /\ IsFiniteSet(S)
           /\ \A r \in S : Row(r)
           /\ \A a, b \in S : a.id = b.id => a = b
Ahead(S, r) == {q \in S : Precedes(q, r)}

LEMMA AheadFinite ==
  ASSUME NEW S, Rows(S), NEW r \in S
  PROVE  /\ IsFiniteSet(Ahead(S, r)) /\ Cardinality(S) \in Nat
         /\ Cardinality(Ahead(S, r)) \in Nat
         /\ Cardinality(Ahead(S, r)) < Cardinality(S)
<1>1. IsFiniteSet(S) /\ Ahead(S, r) \subseteq S
  BY DEF Rows, Ahead
<1>2. ~Precedes(r, r)
  BY ListOrder DEF Rows
<1>3. Ahead(S, r) # S
  BY <1>2 DEF Ahead
<1> QED BY <1>1, <1>3, FS_Subset, FS_CardinalityType

\* How many rows are ahead of one is its place.
LEMMA AheadGrows ==
  ASSUME NEW S, Rows(S), NEW a \in S, NEW b \in S, Precedes(a, b)
  PROVE  Cardinality(Ahead(S, a)) < Cardinality(Ahead(S, b))
<1>1. Ahead(S, a) \subseteq Ahead(S, b)
  <2> SUFFICES ASSUME NEW q \in S, Precedes(q, a) PROVE Precedes(q, b)
    BY DEF Ahead
  <2>1. Row(q) /\ Row(a) /\ Row(b)
    BY DEF Rows
  <2> QED BY <2>1, ListOrder
<1>2. a \in Ahead(S, b) /\ a \notin Ahead(S, a)
  BY ListOrder DEF Ahead, Rows
<1>3. IsFiniteSet(Ahead(S, b)) /\ IsFiniteSet(Ahead(S, a))
  BY AheadFinite
<1> QED BY <1>1, <1>2, <1>3, FS_Subset, FS_CardinalityType

LEMMA AheadIsOrder ==
  ASSUME NEW S, Rows(S), NEW a \in S, NEW b \in S
  PROVE  /\ Precedes(a, b) <=> Cardinality(Ahead(S, a)) < Cardinality(Ahead(S, b))
         /\ Cardinality(Ahead(S, a)) = Cardinality(Ahead(S, b)) => a = b
<1>1. a = b \/ Precedes(a, b) \/ Precedes(b, a)
  <2>1. Row(a) /\ Row(b) /\ (a.id = b.id => a = b)
    BY DEF Rows
  <2> QED BY <2>1, ListOrder
<1>2. Cardinality(Ahead(S, a)) \in Nat /\ Cardinality(Ahead(S, b)) \in Nat
  BY AheadFinite
<1>3. ~Precedes(a, a)
  BY ListOrder DEF Rows
<1> QED BY <1>1, <1>2, <1>3, AheadGrows

\* Every place below the number of rows is taken.
LEMMA EveryPlace ==
  ASSUME NEW S, Rows(S), NEW k \in Nat, k < Cardinality(S)
  PROVE  \E r \in S : Cardinality(Ahead(S, r)) = k
<1> DEFINE n == Cardinality(S)
           place == [r \in S |-> Cardinality(Ahead(S, r))]
<1>1. n \in Nat /\ 0 \in Int /\ n - 1 \in Int /\ n > 0
  BY FS_CardinalityType DEF Rows
<1>2. IsFiniteSet(0 .. n - 1) /\ Cardinality(0 .. n - 1) = n
  <2> HIDE DEF n
  <2>1. /\ IsFiniteSet(0 .. n - 1)
        /\ Cardinality(0 .. n - 1) = IF 0 > n - 1 THEN 0 ELSE (n - 1) - 0 + 1
    BY <1>1, FS_Interval, Zenon
  <2> QED BY <1>1, <2>1
<1>3. place \in Injection(S, 0 .. n - 1)
  <2>1. \A r \in S : Cardinality(Ahead(S, r)) \in 0 .. n - 1
    BY AheadFinite
  <2>2. \A a, b \in S : place[a] = place[b] => a = b
    BY AheadIsOrder
  <2> QED BY <2>1, <2>2 DEF Injection, IsInjective
<1> HIDE DEF n, place
<1>4. place \in Surjection(S, 0 .. n - 1)
  <2>1. Cardinality(S) = n
    BY DEF n
  <2> QED BY <1>2, <1>3, <2>1, FS_Injection
<1>5. \E r \in S : place[r] = k
  <2>1. k \in 0 .. n - 1
    BY <1>1 DEF n
  <2> QED BY <1>4, <2>1 DEF Surjection
<1> QED BY <1>5 DEF place

\* The page: its k-th item is the row with k - 1 ahead of it.
LEMMA PageItem ==
  ASSUME NEW rows, NEW category, NEW start, NEW limit \in Nat \ {0},
         Rows(Wanted(rows, category, start))
  PROVE  LET S == Wanted(rows, category, start)
             answer == listThreads(rows, category, start, limit)
         IN  /\ Cardinality(S) \in Nat
             /\ DOMAIN answer.items =
                  1 .. IF Cardinality(S) < limit THEN Cardinality(S) ELSE limit
             /\ \A k \in DOMAIN answer.items :
                  /\ answer.items[k] \in S
                  /\ Cardinality(Ahead(S, answer.items[k])) = k - 1
             /\ answer.nextCursor = IF Cardinality(S) > limit
                                    THEN {CursorOf(answer.items[limit])} ELSE Null
<1> DEFINE S == Wanted(rows, category, start)
           n == Cardinality(S)
           upTo == IF n < limit THEN n ELSE limit
           page == [k \in 1 .. upTo |-> CHOOSE r \in S : Cardinality(Ahead(S, r)) = k - 1]
           answer == listThreads(rows, category, start, limit)
<1>1. n \in Nat /\ upTo \in Nat /\ upTo <= n
  BY FS_CardinalityType DEF Rows
<1>2. answer.items = page /\ answer.nextCursor = IF n > limit THEN {CursorOf(page[limit])} ELSE Null
  BY DEF listThreads, Ahead
<1> HIDE DEF answer, S, n
<1>3. Rows(S) /\ n = Cardinality(S)
  BY DEF S, n
<1>4. \A k \in 1 .. upTo : page[k] \in S /\ Cardinality(Ahead(S, page[k])) = k - 1
  <2> SUFFICES ASSUME NEW k \in 1 .. upTo
               PROVE  page[k] \in S /\ Cardinality(Ahead(S, page[k])) = k - 1
    OBVIOUS
  <2>1. k - 1 \in Nat /\ k - 1 < Cardinality(S)
    BY <1>1, <1>3
  <2>2. \E r \in S : Cardinality(Ahead(S, r)) = k - 1
    BY <1>3, <2>1, EveryPlace
  <2> QED BY <2>2
<1>5. DOMAIN page = 1 .. upTo
  OBVIOUS
<1> HIDE DEF page
<1> QED BY <1>1, <1>2, <1>4, <1>5 DEF answer, S, n

\* A page shows, in the order of the list, rows the request asked for.  When the
\* next page is asked for, whatever has become of the others meanwhile, a row
\* that is as it was is on the one page or asked for by the other, and not both;
\* and without a next page every row was shown.
THEOREM PagesMeet ==
  ASSUME NEW rows, NEW later, NEW category, NEW start, NEW limit \in Nat \ {0},
         Rows(Wanted(rows, category, start))
  PROVE  LET answer == listThreads(rows, category, start, limit)
             page == answer.items
             shown == {page[k] : k \in DOMAIN page}
         IN  /\ \A j, k \in DOMAIN page : j < k => Precedes(page[j], page[k])
             /\ IF answer.nextCursor = Null
                THEN shown = Wanted(rows, category, start)
                ELSE /\ DOMAIN page = 1 .. limit
                     /\ \A r \in Wanted(rows, category, start) \cap later :
                          r \in shown <=> r \notin Wanted(later, category, answer.nextCursor)
<1> DEFINE S == Wanted(rows, category, start)
           n == Cardinality(S)
           answer == listThreads(rows, category, start, limit)
           page == answer.items
           shown == {page[k] : k \in DOMAIN page}
<1>1. /\ n \in Nat /\ Rows(S)
      /\ DOMAIN page = 1 .. IF n < limit THEN n ELSE limit
      /\ \A k \in DOMAIN page : page[k] \in S /\ Cardinality(Ahead(S, page[k])) = k - 1
      /\ answer.nextCursor = IF n > limit THEN {CursorOf(page[limit])} ELSE Null
  <2>1. Rows(S)
    OBVIOUS
  <2>2. /\ n \in Nat
        /\ DOMAIN page = 1 .. IF n < limit THEN n ELSE limit
        /\ \A k \in DOMAIN page : page[k] \in S /\ Cardinality(Ahead(S, page[k])) = k - 1
        /\ answer.nextCursor = IF n > limit THEN {CursorOf(page[limit])} ELSE Null
    BY <2>1, PageItem
  <2> QED BY <2>1, <2>2
<1>2. ASSUME NEW r \in S, NEW c, r \in later
      PROVE  r \in Wanted(later, category, {c}) <=> afterCursor(c, r)
  <2>1. category \in {"ALL", r.category} /\ ~r.isTrashed
    BY DEF Wanted
  <2> QED BY <1>2, <2>1 DEF Wanted
<1> HIDE DEF answer, S, n
<1>4. \A j, k \in DOMAIN page : j < k => Precedes(page[j], page[k])
  <2> SUFFICES ASSUME NEW j \in DOMAIN page, NEW k \in DOMAIN page, j < k
               PROVE  Precedes(page[j], page[k])
    OBVIOUS
  <2>1. page[j] \in S /\ page[k] \in S /\ j \in Int /\ k \in Int
    BY <1>1
  <2>2. Cardinality(Ahead(S, page[j])) < Cardinality(Ahead(S, page[k]))
    BY <1>1, <2>1
  <2> QED BY <1>1, <2>1, <2>2, AheadIsOrder
\* A row is shown when the page reaches its place.
<1>5. \A r \in S : r \in shown <=> Cardinality(Ahead(S, r)) + 1 \in DOMAIN page
  <2> SUFFICES ASSUME NEW r \in S
               PROVE  r \in shown <=> Cardinality(Ahead(S, r)) + 1 \in DOMAIN page
    OBVIOUS
  <2>1. Cardinality(Ahead(S, r)) \in Nat
    BY <1>1, AheadFinite
  <2>2. ASSUME NEW k \in DOMAIN page, r = page[k]
        PROVE  Cardinality(Ahead(S, r)) + 1 \in DOMAIN page
    BY <1>1, <2>2
  <2>3. ASSUME Cardinality(Ahead(S, r)) + 1 \in DOMAIN page PROVE r \in shown
    <3> DEFINE k == Cardinality(Ahead(S, r)) + 1
    <3>1. page[k] \in S /\ Cardinality(Ahead(S, page[k])) = k - 1
      BY <1>1, <2>3
    <3>2. Cardinality(Ahead(S, page[k])) = Cardinality(Ahead(S, r))
      BY <2>1, <3>1
    <3>3. page[k] = r
      BY <1>1, <3>1, <3>2, AheadIsOrder
    <3> QED BY <2>3, <3>3
  <2> QED BY <2>2, <2>3
<1>6. \A r \in S : Cardinality(Ahead(S, r)) \in Nat /\ Cardinality(Ahead(S, r)) < n
  BY <1>1, AheadFinite DEF n
<1>7. ASSUME answer.nextCursor = Null PROVE shown = S
  <2>1. ~(n > limit)
    BY <1>1, <1>7 DEF Null
  <2>2. \A r \in S : r \in shown
    BY <1>1, <1>5, <1>6, <2>1
  <2>3. \A r \in shown : r \in S
    BY <1>1
  <2> QED BY <2>2, <2>3
<1>8. ASSUME answer.nextCursor # Null, NEW r \in S, r \in later
      PROVE  r \in shown <=> r \notin Wanted(later, category, answer.nextCursor)
  <2>1. n > limit /\ answer.nextCursor = {CursorOf(page[limit])}
    BY <1>1, <1>8
  <2>2. limit \in DOMAIN page /\ DOMAIN page = 1 .. limit
    BY <1>1, <2>1
  <2>3. page[limit] \in S /\ Cardinality(Ahead(S, page[limit])) = limit - 1
    BY <1>1, <2>2
  <2>4. Row(page[limit]) /\ Row(r)
    BY <1>1, <2>3 DEF Rows
  <2>5. r \in Wanted(later, category, answer.nextCursor) <=> Precedes(page[limit], r)
    BY <1>2, <1>8, <2>1, <2>4, FilterIsOrder
  <2>6. Precedes(page[limit], r) <=> limit - 1 < Cardinality(Ahead(S, r))
    BY <1>1, <2>3, AheadIsOrder
  <2>7. r \in shown <=> Cardinality(Ahead(S, r)) + 1 <= limit
    BY <1>5, <1>6, <2>2
  <2> QED BY <1>6, <2>5, <2>6, <2>7
<1>9. answer.nextCursor # Null => DOMAIN page = 1 .. limit
  BY <1>1
<1> QED BY <1>4, <1>7, <1>8, <1>9 DEF answer, S

\* And what a request left behind its cursor stays behind those of the pages
\* after: with PagesMeet, a row that is not changed is shown once.
THEOREM CursorsAdvance ==
  ASSUME NEW rows, NEW category, NEW from, NEW limit \in Nat \ {0}, Row(from),
         Rows(Wanted(rows, category, {CursorOf(from)})), NEW r, Row(r),
         NEW next \in listThreads(rows, category, {CursorOf(from)}, limit).nextCursor,
         afterCursor(next, r)
  PROVE  afterCursor(CursorOf(from), r) /\ r # from
<1> DEFINE S == Wanted(rows, category, {CursorOf(from)})
           page == listThreads(rows, category, {CursorOf(from)}, limit).items
<1>1. PICK last \in S : next = CursorOf(last)
  <2> DEFINE n == Cardinality(S)
             cursors == listThreads(rows, category, {CursorOf(from)}, limit).nextCursor
  <2>1. /\ n \in Nat
        /\ DOMAIN page = 1 .. IF n < limit THEN n ELSE limit
        /\ \A k \in DOMAIN page : page[k] \in S
        /\ cursors = IF n > limit THEN {CursorOf(page[limit])} ELSE Null
    BY PageItem
  <2>2. next \in cursors
    OBVIOUS
  <2> HIDE DEF n, page, S, cursors
  <2>3. n > limit /\ next = CursorOf(page[limit])
    BY <2>1, <2>2 DEF Null
  <2>4. limit \in DOMAIN page
    BY <2>1, <2>3
  <2> QED BY <2>1, <2>3, <2>4
<1>2. Row(last) /\ afterCursor(CursorOf(from), last)
  <2>1. last \in S => \A c \in {CursorOf(from)} : afterCursor(c, last)
    BY DEF Wanted
  <2> QED BY <1>1, <2>1 DEF Rows
<1>3. Precedes(from, last) /\ Precedes(last, r)
  BY <1>1, <1>2, FilterIsOrder
<1>4. Precedes(from, r) /\ ~Precedes(from, from)
  BY <1>2, <1>3, ListOrder
<1> QED BY <1>4, FilterIsOrder
=============================================================================
