------------------------------ MODULE MailSync ------------------------------
(***************************************************************************)
(* The sync engine of one mailbox: services/sync.ts (the backfill),        *)
(* services/deltaSync.ts (the delta a notification triggers),              *)
(* services/watch.ts (the hourly keeper) and routes/webhooks.ts.           *)
(*                                                                         *)
(* The provider keeps a history of the mailbox; the row keeps a cursor     *)
(* into it, up to which our copy is complete.  A delta reads what changed  *)
(* since the cursor; a backfill lists everything, page by page, with a     *)
(* checkpoint.  Both are jobs under one id per mailbox, and their awaits   *)
(* interleave with each other, with the keeper and with the provider.      *)
(*                                                                         *)
(* A message is named by the history id of its arrival.  All mail is       *)
(* inside the backfill window, push is configured, and what a run does to  *)
(* enrichment and reminders is left to the modules about those.            *)
(***************************************************************************)
EXTENDS JobQueue, Sequences, FiniteSets

CONSTANTS
  Thread,
  User,       \* requests for a backfill that may overlap
  Keeper,     \* the processes that run the watch keeper
  Batch,      \* MAX_THREADS_PER_DELTA
  PageSize,   \* BACKFILL_BATCH_SIZE
  Attempts,   \* how often a job is tried
  Faulty,     \* the kinds of faults of this instance
  MaxHistory, \* bound on the changes of one behaviour
  MaxFaults   \* bound on the faults of one behaviour

FaultKind == {"throw", "crash", "stall", "lose", "abort", "expire", "revoke"}

ASSUME SyncAssumption ==
  /\ Id = {"delta", "backfill"}
  /\ Worker \cap User = {} /\ Keeper \cap (Worker \cup User) = {}
  /\ Batch \in Nat \ {0} /\ PageSize \in Nat \ {0} /\ Attempts \in Nat \ {0}
  /\ Faulty \subseteq FaultKind
  /\ MaxHistory \in Nat /\ MaxFaults \in Nat

VARIABLES
  history, \* the provider's history of the mailbox
  served,  \* the oldest cursor it still answers
  grant,   \* the user's grant is good
  due,     \* a notification is on its way
  stored,  \* the messages of each thread that have a row
  status,  \* MailAccount.syncStatus
  cursor,  \* MailAccount.syncCursor
  mark,    \* MailAccount.backfillCursor
  token,   \* MailAccount.backfillPageToken: the threads it leaves to list
  run,     \* what each process is doing
  tries,   \* attempts made of the job under each id
  stalled, \* the jobs whose stall is yet to be reported to the processes
  cut,     \* the threads that deltas cut short by an abort have left
  faults

rowVars == <<status, cursor, mark, token>>
envVars == <<history, served, grant, due, stalled, cut>>
syncVars == <<envVars, stored, rowVars, run, tries, faults>>
vars == <<queueVars, syncVars>>

Proc == Worker \cup User \cup Keeper
None == 0 - 1
Message == 1..MaxHistory
Cursor == 0..MaxHistory \cup {None}
Status == {"PENDING", "BACKFILLING", "ACTIVE", "ERROR", "REVOKED"}
Step == {"idle", "load", "history", "loop", "persist", "end", "ask", "add", "mark",
         "open", "begin", "profile", "list", "page", "done", "watch", "watching", "catchup"}

Run == [job: Id \cup {"none"}, pc: Step,
        from: Cursor,               \* syncCursor, as read
        upto: Cursor,               \* the history id its window ends at
        failing: BOOLEAN,           \* syncStatus, as read, is ERROR
        todo: SUBSET Thread,        \* threads yet to fetch or to list
        page: SUBSET Thread,        \* threads fetched and yet to persist
        copy: [Thread -> SUBSET Message],
        late: BOOLEAN,              \* threads were deferred; a catch-up is due
        aborted: BOOLEAN]           \* its signal is aborted

Nothing == [t \in Thread |-> {}]

Rest == [job |-> "none", pc |-> "idle", from |-> None, upto |-> None, failing |-> FALSE,
         todo |-> {}, page |-> {}, copy |-> Nothing, late |-> FALSE, aborted |-> FALSE]

TypeOK ==
  /\ QueueTypeOK
  /\ history \in Seq([thread: Thread, gone: 0..MaxHistory])
  /\ Len(history) \in 0..MaxHistory /\ served \in 0..MaxHistory
  /\ grant \in BOOLEAN /\ due \in BOOLEAN
  /\ stored \in [Thread -> SUBSET Message]
  /\ status \in Status /\ cursor \in Cursor /\ mark \in Cursor
  /\ token \in SUBSET Thread
  /\ run \in [Proc -> Run]
  /\ tries \in [Id -> 0..(Attempts - 1)]
  /\ stalled \in SUBSET Id /\ cut \in SUBSET Thread
  /\ faults \in 0..MaxFaults

Init ==
  /\ QueueInit
  /\ history = <<>> /\ served = 0 /\ grant = TRUE /\ due = FALSE
  /\ stored = Nothing
  /\ status = "PENDING" /\ cursor = None /\ mark = None /\ token = Thread
  /\ run = [p \in Proc |-> Rest]
  /\ tries = [i \in Id |-> 0]
  /\ stalled = {} /\ cut = {}
  /\ faults = 0

Fault(kind) ==
  kind \in Faulty /\ faults < MaxFaults /\ faults' = faults + 1

(***************************************************************************)
(* The provider.                                                           *)
(***************************************************************************)

Now == Len(history)

\* The messages that are on a thread at the provider.
There(t) ==
  {h \in 1..Now : history[h].thread = t /\ history[h].gone = 0}
    \ {history[h].gone : h \in 1..Now}

\* The threads with a change after c, and the messages deleted after c.
Touched(c) == {history[h].thread : h \in (c + 1)..Now}
Gone(c) == {history[h].gone : h \in (c + 1)..Now}

\* The Batch threads of Touched(c) that changed first.
First(t, c) ==
  CHOOSE h \in (c + 1)..Now :
    history[h].thread = t /\ \A g \in (c + 1)..Now : history[g].thread = t => h <= g

Taken(c) ==
  {t \in Touched(c) : Cardinality({u \in Touched(c) : First(u, c) < First(t, c)}) < Batch}

\* The mailbox changes, and a notification is published.
Change(t, m) ==
  /\ Now < MaxHistory
  /\ history' = Append(history, [thread |-> t, gone |-> m])
  /\ due' = TRUE
  /\ UNCHANGED <<queueVars, served, grant, stored, rowVars, run, tries, stalled, cut, faults>>

\* A message arrives; a thread that was emptied is never used again.
Arrive(t) == (t \in Touched(0) => There(t) # {}) /\ Change(t, 0)

\* The user deletes a message in Gmail.
Remove(t) == \E m \in There(t) : Change(t, m)

\* The provider drops its oldest history.
ExpireHistory ==
  /\ "expire" \in Faulty
  /\ \E h \in (served + 1)..Now : served' = h
  /\ UNCHANGED <<queueVars, history, grant, due, stored, rowVars, run, tries, stalled, cut,
                 faults>>

\* The user withdraws the grant; the next use of a token marks the row.
Revoke ==
  /\ Fault("revoke") /\ grant
  /\ grant' = FALSE
  /\ status' = "REVOKED"
  /\ UNCHANGED <<queueVars, history, served, due, stored, cursor, mark, token, run, tries,
                 stalled, cut>>

\* completeMailAccountConnect on the existing row.
Reconnect ==
  /\ ~grant
  /\ grant' = TRUE
  /\ status' = "PENDING"
  /\ UNCHANGED <<queueVars, history, served, due, stored, cursor, mark, token, run, tries,
                 stalled, cut, faults>>

\* A token is refreshed, by any request that needs one.
Refresh ==
  /\ grant /\ status = "ERROR"
  /\ status' = "PENDING"
  /\ UNCHANGED <<queueVars, envVars, stored, cursor, mark, token, run, tries, faults>>

(***************************************************************************)
(* Jobs.                                                                   *)
(***************************************************************************)

Goto(p, r) == run' = [run EXCEPT ![p] = r]
At(p, step) == run[p].pc = step

\* Mutant of Enqueue: the id of a finished job is not freed.
EnqueueOverFinished(i, delay) ==
  IF job[i] = "none"
    THEN Insert(i, delay, 0) /\ tries' = [tries EXCEPT ![i] = 0]
    ELSE UNCHANGED <<queueVars, tries>>

\* Under an id that is queued or running, an add changes nothing; a finished
\* job is removed first.
Enqueue(i, delay) ==
  IF Vacant(i)
    THEN Insert(i, delay, 0) /\ tries' = [tries EXCEPT ![i] = 0]
    ELSE UNCHANGED <<queueVars, tries>>

Take(w, i) ==
  /\ At(w, "idle")
  /\ Acquire(i, w)
  /\ Goto(w, [Rest EXCEPT !.job = i, !.pc = IF i = "delta" THEN "load" ELSE "open"])
  /\ UNCHANGED <<envVars, stored, rowVars, tries, faults>>

\* A job's processor returns; a request is answered; the keeper is done.
End(p) ==
  /\ At(p, "end")
  /\ Goto(p, Rest)
  /\ IF p \in Worker THEN Release(run[p].job, p, "completed") ELSE UNCHANGED queueVars
  /\ UNCHANGED <<envVars, stored, rowVars, tries, faults>>

\* The processor throws an error that no retry can fix.
Refuse(p) ==
  /\ Goto(p, Rest)
  /\ IF p \in Worker THEN Release(run[p].job, p, "failed") ELSE UNCHANGED queueVars
  /\ UNCHANGED tries

\* The catch in runBackfill covers these steps.
Guarded(p) == run[p].job = "backfill" /\ run[p].pc \in {"list", "persist", "page", "done"}

\* Errors in these steps are caught where they happen.
Harmless == {"idle", "end", "watch", "watching", "catchup"}

\* Mutant of LastAttempt: the attempt under way is not counted.
LastAttemptLate(i) == tries[i] >= Attempts

LastAttempt(i) == tries[i] + 1 >= Attempts

\* A failed attempt is retried while attempts are left.
Fail(i, w) ==
  \/ LastAttempt(i) /\ Release(i, w, "failed") /\ UNCHANGED tries
  \/ /\ ~LastAttempt(i) /\ Retry(i, w)
     /\ tries' = IF lock[i] = w THEN [tries EXCEPT ![i] = @ + 1] ELSE tries

\* Any other error.  runBackfill records it, if it can.
Throw(p) ==
  /\ run[p].pc \notin Harmless
  /\ Fault("throw")
  /\ status' \in IF Guarded(p) THEN {status, "ERROR"} ELSE {status}
  /\ Goto(p, Rest)
  /\ IF p \in Worker THEN Fail(run[p].job, p) ELSE UNCHANGED <<queueVars, tries>>
  /\ UNCHANGED <<envVars, stored, cursor, mark, token>>

\* The process dies.
Crash(p) ==
  /\ ~At(p, "idle")
  /\ Fault("crash")
  /\ Goto(p, Rest)
  /\ IF p \in Worker THEN Abandon(run[p].job, p) ELSE UNCHANGED queueVars
  /\ UNCHANGED <<envVars, stored, rowVars, tries>>

PromoteJob(i) == Promote(i, Horizon) /\ UNCHANGED syncVars

\* The stalled-job check takes a job from a dead worker, or, after a lapse of
\* the lock, from a worker that goes on running.  A report of it follows.
StallJob(i) ==
  /\ Stall(i)
  /\ \/ lock[i] = NoWorker /\ UNCHANGED faults
     \/ lock[i] # NoWorker /\ Fault("stall")
  /\ stalled' = stalled \cup {i}
  /\ UNCHANGED <<history, served, grant, due, cut, stored, rowVars, run, tries>>

\* The process that made the check hears of it, sooner or later, and aborts the
\* run it has registered under the job's id, if any: the one that lost its lock,
\* or the one that took the job since.
AbortStalled(i) ==
  /\ i \in stalled
  /\ stalled' = stalled \ {i}
  /\ \/ UNCHANGED run
     \/ \E w \in Worker : run[w].job = i /\ Goto(w, [run[w] EXCEPT !.aborted = TRUE])
  /\ UNCHANGED <<queueVars, history, served, grant, due, cut, stored, rowVars, tries, faults>>

\* A deploy: the process aborts what it runs and lets it come to its end.
Shutdown(w) ==
  /\ ~At(w, "idle") /\ ~run[w].aborted
  /\ Fault("abort")
  /\ Goto(w, [run[w] EXCEPT !.aborted = TRUE])
  /\ UNCHANGED <<queueVars, envVars, stored, rowVars, tries>>

LoseJob(i) ==
  /\ Fault("lose") /\ job[i] # "none"
  /\ Clear(i)
  /\ UNCHANGED <<envVars, stored, rowVars, run, tries>>

(***************************************************************************)
(* runDelta.                                                               *)
(***************************************************************************)

Load(w) ==
  /\ At(w, "load")
  /\ \/ status = "REVOKED" /\ Refuse(w)
     \/ /\ status # "REVOKED" /\ cursor = None
        /\ Goto(w, [run[w] EXCEPT !.pc = "ask"])
        /\ UNCHANGED <<queueVars, tries>>
     \/ /\ status # "REVOKED" /\ cursor # None
        /\ Goto(w, [run[w] EXCEPT !.pc = "history", !.from = cursor,
                        !.failing = (status = "ERROR")])
        /\ UNCHANGED <<queueVars, tries>>
  /\ UNCHANGED <<envVars, stored, rowVars, faults>>

\* The next thing to do is a read at the provider.
Reads(p) ==
  \/ run[p].pc \in {"history", "profile", "list"}
  \/ At(p, "loop") /\ run[p].todo # {}

\* ... with an aborted signal, which fails it.  runBackfill goes back to PENDING.
Cancelled(w) ==
  /\ Reads(w) /\ run[w].aborted
  /\ status' \in IF Guarded(w) THEN {status, "PENDING"} ELSE {status}
  /\ Goto(w, Rest)
  /\ Fail(run[w].job, w)
  /\ UNCHANGED <<envVars, stored, cursor, mark, token, faults>>

\* ... without a grant.  runBackfill records an ERROR.
Denied(p) ==
  /\ Reads(p) /\ ~grant
  /\ status' = IF Guarded(p) THEN "ERROR" ELSE status
  /\ Refuse(p)
  /\ UNCHANGED <<envVars, stored, cursor, mark, token, faults>>

\* history.list from the cursor.  An expired cursor is cleared and replaced by
\* a backfill.  Otherwise the messages it says are gone go here too, and the
\* threads it names are to be fetched, up to the ceiling.
History(w) ==
  /\ At(w, "history") /\ grant /\ ~run[w].aborted
  /\ LET c == run[w].from IN
       \/ /\ c < served
          /\ cursor' = None
          /\ Goto(w, [Rest EXCEPT !.job = "delta", !.pc = "ask"])
          /\ UNCHANGED stored
       \/ /\ c >= served
          /\ stored' = [t \in Thread |-> stored[t] \ Gone(c)]
          /\ Goto(w, [run[w] EXCEPT !.pc = "loop", !.from = None, !.upto = Now,
                        !.todo = Taken(c), !.failing = @ /\ Touched(c) # {},
                        !.late = (Taken(c) # Touched(c))])
          /\ UNCHANGED cursor
  /\ UNCHANGED <<queueVars, envVars, status, mark, token, tries, faults>>

\* threads.get.  A thread that is gone goes here too, unless the provider
\* answers with an empty one.
Fetch(w) ==
  /\ At(w, "loop") /\ grant /\ ~run[w].aborted
  /\ \E t \in run[w].todo :
       \/ /\ There(t) # {}
          /\ Goto(w, [run[w] EXCEPT !.pc = "persist", !.todo = @ \ {t}, !.page = {t},
                        !.copy = [Nothing EXCEPT ![t] = There(t)]])
          /\ UNCHANGED stored
       \/ /\ There(t) = {}
          /\ Goto(w, [run[w] EXCEPT !.todo = @ \ {t}])
          /\ stored' = [stored EXCEPT ![t] = {}] \/ UNCHANGED stored
  /\ UNCHANGED <<queueVars, envVars, rowVars, tries, faults>>

\* persistThread, of a delta or of a backfill: upserts what was fetched.
Persist(w) ==
  /\ At(w, "persist")
  /\ \E t \in run[w].page :
       /\ stored' = [stored EXCEPT ![t] = @ \cup run[w].copy[t]]
       /\ Goto(w, [run[w] EXCEPT
                     !.page = @ \ {t}, !.copy[t] = {},
                     !.pc = IF run[w].page # {t} THEN @
                            ELSE IF run[w].job = "delta" THEN "loop" ELSE "page"])
  /\ UNCHANGED <<queueVars, envVars, rowVars, tries, faults>>

\* The signal is found aborted between two threads: the loop ends, the delta
\* goes on as if it had fetched them all.
Break(w) ==
  /\ At(w, "loop") /\ run[w].todo # {} /\ run[w].aborted
  /\ cut' = cut \cup run[w].todo
  /\ Goto(w, [run[w] EXCEPT !.todo = {}])
  /\ UNCHANGED <<queueVars, history, served, grant, due, stalled, stored, rowVars, tries,
                 faults>>

\* Mutant of Advance: the cursor moves past the threads that were deferred.
AdvanceAnyway(w) ==
  /\ At(w, "loop") /\ run[w].todo = {}
  /\ cursor' = run[w].upto
  /\ Goto(w, [Rest EXCEPT !.job = "delta", !.pc = "end"])
  /\ UNCHANGED <<queueVars, envVars, stored, status, mark, token, tries, faults>>

\* The loop is over.  The cursor moves to the end of the window, or, if
\* threads were deferred, another delta is asked for.
Advance(w) ==
  /\ At(w, "loop") /\ run[w].todo = {}
  /\ \/ /\ run[w].late
        /\ Enqueue("delta", 1)
        /\ UNCHANGED <<status, cursor>>
     \/ /\ ~run[w].late
        /\ cursor' = run[w].upto
        /\ status' = IF run[w].failing THEN "ACTIVE" ELSE status
        /\ UNCHANGED <<queueVars, tries>>
  /\ Goto(w, [Rest EXCEPT !.job = "delta", !.pc = "end"])
  /\ UNCHANGED <<envVars, stored, mark, token, faults>>

(***************************************************************************)
(* startBackfill, called by the user and by a delta.                       *)
(***************************************************************************)

Ask(u) ==
  /\ At(u, "idle")
  /\ Goto(u, [Rest EXCEPT !.pc = "ask"])
  /\ UNCHANGED <<queueVars, envVars, stored, rowVars, tries, faults>>

AskLoad(p) ==
  /\ At(p, "ask")
  /\ \/ status = "REVOKED" /\ Refuse(p)
     \/ /\ status # "REVOKED"
        /\ Goto(p, [run[p] EXCEPT !.pc = "add"])
        /\ UNCHANGED <<queueVars, tries>>
  /\ UNCHANGED <<envVars, stored, rowVars, faults>>

AddBackfill(p) ==
  /\ At(p, "add")
  /\ Enqueue("backfill", 0)
  /\ Goto(p, [run[p] EXCEPT !.pc = IF Vacant("backfill") THEN "mark" ELSE "end"])
  /\ UNCHANGED <<envVars, stored, rowVars, faults>>

MarkPending(p) ==
  /\ At(p, "mark")
  /\ status' = "PENDING"
  /\ Goto(p, [run[p] EXCEPT !.pc = "end"])
  /\ UNCHANGED <<queueVars, envVars, stored, cursor, mark, token, tries, faults>>

(***************************************************************************)
(* runBackfill.                                                            *)
(***************************************************************************)

\* Mutant of Open: a resumed run keeps the page token and takes a new history id.
OpenAfresh(w) ==
  /\ At(w, "open") /\ status # "REVOKED"
  /\ Goto(w, [run[w] EXCEPT !.pc = "begin",
                !.upto = IF mark = None THEN None ELSE Now, !.todo = token])
  /\ UNCHANGED <<queueVars, envVars, stored, rowVars, tries, faults>>

\* The row is read, with the checkpoint of an unfinished run.
Open(w) ==
  /\ At(w, "open")
  /\ \/ status = "REVOKED" /\ Refuse(w)
     \/ /\ status # "REVOKED"
        /\ Goto(w, [run[w] EXCEPT !.pc = "begin", !.upto = mark, !.todo = token])
        /\ UNCHANGED <<queueVars, tries>>
  /\ UNCHANGED <<envVars, stored, rowVars, faults>>

Begin(w) ==
  /\ At(w, "begin")
  /\ status' = "BACKFILLING"
  /\ Goto(w, [run[w] EXCEPT !.pc = IF run[w].upto = None THEN "profile" ELSE "list"])
  /\ UNCHANGED <<queueVars, envVars, stored, cursor, mark, token, tries, faults>>

\* A fresh run takes the history id before it lists anything.
Profile(w) ==
  /\ At(w, "profile") /\ grant /\ ~run[w].aborted
  /\ mark' = Now /\ token' = Thread
  /\ Goto(w, [run[w] EXCEPT !.pc = "list", !.upto = Now, !.todo = Thread])
  /\ UNCHANGED <<queueVars, envVars, stored, status, cursor, tries, faults>>

\* One page of threads, fetched.  The list is by recency: a thread that
\* changed since the run began may have moved to a page already read.
List(w) ==
  /\ At(w, "list") /\ grant /\ ~run[w].aborted
  /\ \E moved \in SUBSET (run[w].todo \cap Touched(run[w].upto)) :
       LET behind == {t \in run[w].todo \ moved : There(t) # {}} IN
       \E P \in SUBSET behind :
         /\ Cardinality(P) <= PageSize
         /\ P = {} => behind = {}
         /\ Goto(w, [run[w] EXCEPT !.pc = IF P = {} THEN "page" ELSE "persist",
                       !.todo = behind \ P, !.page = P,
                       !.copy = [t \in Thread |-> IF t \in P THEN There(t) ELSE {}]])
  /\ UNCHANGED <<queueVars, envVars, stored, rowVars, tries, faults>>

\* The page is committed: its successor's token is the checkpoint, null after
\* the last page, from which a resumed run lists everything again.
Checkpoint(w) ==
  /\ At(w, "page")
  /\ token' = IF run[w].todo = {} THEN Thread ELSE run[w].todo
  /\ Goto(w, [run[w] EXCEPT !.pc = IF run[w].todo = {} THEN "done" ELSE "list"])
  /\ UNCHANGED <<queueVars, envVars, stored, status, cursor, mark, tries, faults>>

\* Mutant of Done: the history id is taken at the end of the run.
DoneLate(w) ==
  /\ At(w, "done")
  /\ status' = "ACTIVE" /\ cursor' = Now
  /\ mark' = None /\ token' = Thread
  /\ Goto(w, [Rest EXCEPT !.job = "backfill", !.pc = "watch"])
  /\ UNCHANGED <<queueVars, envVars, stored, tries, faults>>

\* The whole list is committed: the cursor moves and the checkpoint goes.
Done(w) ==
  /\ At(w, "done")
  /\ status' = "ACTIVE" /\ cursor' = run[w].upto
  /\ mark' = None /\ token' = Thread
  /\ Goto(w, [Rest EXCEPT !.job = "backfill", !.pc = "watch"])
  /\ UNCHANGED <<queueVars, envVars, stored, tries, faults>>

(***************************************************************************)
(* Notifications, and the keeper.                                          *)
(***************************************************************************)

\* The webhook.  A notification may be delivered twice, or too late to be news.
Push ==
  /\ due /\ due' \in BOOLEAN
  /\ IF status = "REVOKED" THEN UNCHANGED <<queueVars, tries>> ELSE Enqueue("delta", 1)
  /\ UNCHANGED <<history, served, grant, stalled, cut, stored, rowVars, run, faults>>

\* The keeper reads the row; quiet says that push is not live, or that nothing
\* was synced for an hour.
Keep(k, quiet) ==
  /\ At(k, "idle") /\ status # "REVOKED"
  /\ Goto(k, [Rest EXCEPT !.pc = "watching", !.from = cursor, !.late = quiet,
                !.failing = (status = "ERROR")])
  /\ UNCHANGED <<queueVars, envVars, stored, rowVars, tries, faults>>

\* ensureWatch, after a backfill, reads the row again.
Watch(w) ==
  /\ At(w, "watch")
  /\ Goto(w, [run[w] EXCEPT !.pc = IF status = "REVOKED" THEN "end" ELSE "watching",
                !.failing = (status = "ERROR")])
  /\ UNCHANGED <<queueVars, envVars, stored, rowVars, tries, faults>>

\* ensureWatchForMailbox: the watch is fresh, or cannot be renewed, or is, and
\* then the ERROR that was read is over.
Watching(p) ==
  /\ At(p, "watching")
  /\ status' \in {status} \cup (IF grant /\ run[p].failing THEN {"ACTIVE"} ELSE {})
  /\ Goto(p, [run[p] EXCEPT !.pc = IF p \in Keeper THEN "catchup" ELSE "end",
                !.failing = FALSE])
  /\ UNCHANGED <<queueVars, envVars, stored, cursor, mark, token, tries, faults>>

CatchUp(k) ==
  /\ At(k, "catchup")
  /\ IF run[k].late /\ run[k].from # None
       THEN Enqueue("delta", 1)
       ELSE UNCHANGED <<queueVars, tries>>
  /\ Goto(k, Rest)
  /\ UNCHANGED <<envVars, stored, rowVars, faults>>

(***************************************************************************)
(* The specification.                                                      *)
(***************************************************************************)

StartBackfill(p) == AskLoad(p) \/ AddBackfill(p) \/ MarkPending(p) \/ End(p)

RunDelta(w) ==
  Load(w) \/ History(w) \/ Fetch(w) \/ Persist(w) \/ Break(w) \/ Advance(w)

RunBackfill(w) ==
  Open(w) \/ Begin(w) \/ Profile(w) \/ List(w) \/ Checkpoint(w) \/ Done(w)

Work(w) ==
  \/ RunDelta(w) \/ RunBackfill(w) \/ StartBackfill(w)
  \/ Denied(w) \/ Cancelled(w) \/ Watch(w) \/ Watching(w)

Provider ==
  \/ \E t \in Thread : Arrive(t) \/ Remove(t)
  \/ ExpireHistory \/ Revoke \/ Reconnect \/ Refresh

Next ==
  \/ Provider
  \/ \E w \in Worker, i \in Id : Take(w, i)
  \/ \E w \in Worker : Work(w) \/ Shutdown(w)
  \/ \E u \in User : Ask(u) \/ StartBackfill(u)
  \/ \E p \in Proc : Throw(p) \/ Crash(p)
  \/ \E i \in Id : PromoteJob(i) \/ StallJob(i) \/ AbortStalled(i) \/ LoseJob(i)
  \/ Push
  \/ \E k \in Keeper :
       (\E quiet \in BOOLEAN : Keep(k, quiet)) \/ Watching(k) \/ CatchUp(k)

Spec == Init /\ [][Next]_vars

\* Workers take and finish jobs, delayed jobs fall due, dead workers' jobs are
\* recovered, and the keeper comes round to a mailbox that is quiet.  Nothing
\* makes a notification arrive.
FairSpec ==
  /\ Spec
  /\ \A i \in Id : /\ SF_vars(\E w \in Worker : Take(w, i))
                   /\ WF_vars(PromoteJob(i)) /\ WF_vars(lock[i] = NoWorker /\ StallJob(i))
  /\ \A w \in Worker : WF_vars(Work(w))
  /\ \A k \in Keeper :
       SF_vars(Keep(k, TRUE)) /\ WF_vars(Watching(k)) /\ WF_vars(CatchUp(k))

(***************************************************************************)
(* Properties.                                                             *)
(***************************************************************************)

\* We have what is on the thread, unless a delta has left it.
Whole(t) == t \in cut \/ There(t) \subseteq stored[t]

\* Our copy is complete up to c: what we do not have changed after c, and a
\* delta from c fetches it.
Complete(c) == \A t \in Thread \ Touched(c) : Whole(t)

\* "The cursor advances last": whatever deltas and backfills overlap, fail,
\* lose their locks and resume, the cursor never passes a message that is not
\* stored, but on the threads an aborted delta has left.
NothingSkipped == cursor # None => Complete(cursor)

\* ... not even on those, as deltaSync.ts:28 has it.
NothingLost ==
  cursor # None => \A t \in Thread \ Touched(cursor) : There(t) \subseteq stored[t]

\* "Deleted provider-side, so deleted here": a message whose deletion the
\* cursor has passed is gone, unless a backfill under way, which read it
\* before, is going to take the cursor back to before the deletion.
NoGhosts ==
  cursor # None =>
    LET c == IF mark # None /\ mark < cursor THEN mark ELSE cursor
    IN  \A t \in Thread \ Touched(c) : stored[t] \subseteq There(t)

\* A message at the provider is stored, however many notifications are lost,
\* as long as it is there, the grant is good, and no delta was cut short of it.
SyncCatchesUp ==
  \A t \in Thread, m \in Message :
    m \in There(t) /\ cursor # None ~>
      m \in stored[t] \/ m \notin There(t) \/ ~grant \/ t \in cut

\* A backfill that has set the cursor and whose job is still active.
Lingers == \E w \in Worker : run[w].job = "backfill" /\ run[w].pc \in {"watch", "watching", "end"}

\* A delta that finds no cursor, or an expired one, is followed by a backfill
\* that sets it, through a crash or an abort of either job, but for one case: a
\* backfill that is done and not yet over keeps the id from a new one.
Recovers ==
  \A w \in Worker :
    run[w].job = "delta" /\ At(w, "ask") /\ ~Lingers ~> cursor # None \/ ~grant

\* ... in that case too ("a mailbox that cannot catch up must not be left
\* quietly frozen", deltaSync.ts:302).
NeverFrozen ==
  \A w \in Worker :
    run[w].job = "delta" /\ At(w, "ask") ~> cursor # None \/ ~grant

\* A notification is collapsed only into a job that is going to see its change:
\* after the last one is delivered, some delta has yet to read the history.
Heeded ==
  [][Push /\ ~due' /\ cursor # None /\ status # "REVOKED" /\ Touched(cursor) # {} =>
       \/ job'["delta"] \in {"waiting", "delayed"}
       \/ \E w \in Worker : run[w].job = "delta" /\ run[w].pc \in {"load", "history"}
       \/ \E w \in Worker : run[w].job = "delta" /\ run[w].upto = Now]_vars

\* A mailbox whose grant is gone says so until the user reconnects it.
RevokedStands == [][status = "REVOKED" /\ status' # "REVOKED" => grant']_vars
=============================================================================
