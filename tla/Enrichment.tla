----------------------------- MODULE Enrichment -----------------------------
(***************************************************************************)
(* The AI pipeline over one thread of one mailbox: services/ai/enrich.ts   *)
(* with what it calls (classify.ts, summarize.ts, usage.ts, client.ts and  *)
(* services/security/phishing.ts), services/ai/sweep.ts, which looks for   *)
(* what it left undone, and the ends of the sync that queue its jobs.      *)
(*                                                                         *)
(* A job classifies one message, assesses it and summarizes its thread.    *)
(* Every call to the model is preceded by a look at what is stored and at  *)
(* the ledger of the day, and is followed by a line in the ledger and a    *)
(* write of the answer; other jobs, the sync and the user move in between. *)
(*                                                                         *)
(* Messages are numbered in the order they were sent, and a body is named  *)
(* by the number of times it changed.  The state of a thread is the bodies *)
(* of its messages; 0 is a message that is not stored.                     *)
(***************************************************************************)
EXTENDS JobQueue, FiniteSets

CONSTANTS
  Inbound,   \* the messages the user received; the others are the user's own
  Risky,     \* the messages whose headers, links and sender the rules flag
  Enough,    \* SUMMARY_MIN_MESSAGES
  Cap,       \* UserSettings.dailyAiCallCap
  Attempts,  \* how often a job is tried
  Choices,   \* the settings the user moves between
  MaxBody,   \* bound on the bodies of one message
  MaxForces, \* bound on the recomputes of one behaviour
  Faulty,    \* the kinds of faults of this instance
  MaxFaults  \* bound on the faults of one behaviour

Settings == [on: BOOLEAN, sort: BOOLEAN, guard: BOOLEAN, sum: BOOLEAN]
AllOn == [on |-> TRUE, sort |-> TRUE, guard |-> TRUE, sum |-> TRUE]

ASSUME EnrichAssumption ==
  /\ Id \subseteq Nat \ {0} /\ IsFiniteSet(Id)
  /\ Inbound \subseteq Id /\ Risky \subseteq Id
  /\ IsFiniteSet(Worker) /\ Worker # {}
  /\ Enough \in Nat /\ Cap \in Nat /\ Attempts \in Nat \ {0}
  /\ Choices \subseteq Settings /\ AllOn \in Choices
  /\ MaxBody \in Nat /\ MaxForces \in Nat /\ MaxFaults \in Nat
  /\ Faulty \subseteq {"throw", "abort", "crash", "stall", "slow", "lose"}

VARIABLES
  settings,  \* UserSettings, as far as the pipeline reads it
  body,      \* the stored body of each message
  row,       \* AiClassification of each message
  headline,  \* the message whose category the thread shows
  banner,    \* Thread.threatLevel
  summaries, \* the thread states AiSummary has a row for
  used,      \* the lines of today in AiUsage
  orders,    \* enrichment that a sync or a sweep is about to queue
  ask,       \* what the job under each id asks for
  run,       \* what each worker is doing
  locks,     \* the summary locks in Redis
  tries,     \* failed attempts of the job under each id
  forces,
  faults

dataVars == <<body, row, headline, banner, summaries>>
jobVars == <<ask, tries>>
countVars == <<forces, faults>>
enrichVars == <<settings, dataVars, used, orders, jobVars, run, locks, countVars>>
vars == <<queueVars, enrichVars>>

Body == 0..MaxBody
ThreadState == [Id -> Body]

\* Threat levels by severity: not assessed, safe, flagged.
Level == 0..2
\* Mutant of Worse: what the rules and the model found is added up.
WorseSum(a, b) == a + b

Worse(a, b) == IF a >= b THEN a ELSE b
Floor(m) == IF m \in Risky THEN 2 ELSE 1

Row == [hash: Body,   \* contentHash; 0: there is no row
        sorted: Body, \* the body its category is about; 0: a placeholder
        level: Level]

Order == [msg: Id, force: BOOLEAN, again: BOOLEAN]
Plain(m) == [msg |-> m, force |-> FALSE, again |-> FALSE]

Step == {"idle", "classify", "classifying", "classified", "newest", "headline",
         "assess", "assessing", "assessed", "roll", "rolled",
         "gather", "lock", "recheck", "summing", "summed", "leave", "end"}

Run == [msg: Id \cup {0}, pc: Step, force: BOOLEAN, again: BOOLEAN,
        set: Settings,     \* the settings, as read
        body: Body,        \* the body of the message, as read
        state: ThreadState,\* the thread, as read for its summary
        level: Level]      \* the verdict, or the roll-up, to write

Empty == [m \in Id |-> 0]

Rest == [msg |-> 0, pc |-> "idle", force |-> FALSE, again |-> FALSE,
         set |-> AllOn, body |-> 0, state |-> Empty, level |-> 0]

TypeOK ==
  /\ QueueTypeOK
  /\ settings \in Choices
  /\ body \in ThreadState
  /\ row \in [Id -> Row]
  /\ headline \in Id \cup {0} /\ banner \in Level
  /\ summaries \subseteq ThreadState
  /\ used \in Nat
  /\ orders \subseteq Order
  /\ ask \in [Id -> [force: BOOLEAN, again: BOOLEAN]]
  /\ run \in [Worker -> Run]
  /\ locks \subseteq [state: ThreadState, by: Worker \cup {NoWorker}]
  /\ tries \in [Id -> 0..(Attempts - 1)]
  /\ forces \in 0..MaxForces /\ faults \in 0..MaxFaults

Init ==
  /\ QueueInit
  /\ settings = AllOn
  /\ body = Empty
  /\ row = [m \in Id |-> [hash |-> 0, sorted |-> 0, level |-> 0]]
  /\ headline = 0 /\ banner = 0 /\ summaries = {}
  /\ used = 0
  /\ orders = {} /\ ask = [m \in Id |-> [force |-> FALSE, again |-> FALSE]]
  /\ run = [w \in Worker |-> Rest]
  /\ locks = {}
  /\ tries = [m \in Id |-> 0]
  /\ forces = 0 /\ faults = 0

Fault(kind) ==
  kind \in Faulty /\ faults < MaxFaults /\ faults' = faults + 1 /\ UNCHANGED forces

(***************************************************************************)
(* Helpers.                                                                *)
(***************************************************************************)

At(w, step) == run[w].pc = step
Goto(w, step) == run' = [run EXCEPT ![w].pc = step]

Stored == {m \in Id : body[m] # 0}
IsNewest(m) == m \in Stored /\ \A k \in Stored : k <= m

\* The n newest of a set of messages.
Newest(S, n) == {m \in S : Cardinality({k \in S : k > m}) < n}

\* The stages the settings leave of a job.
ToSummary(r) == IF r.set.sum THEN "gather" ELSE "end"
ToThreat(r) == IF r.set.guard /\ r.msg \in Inbound THEN "assess" ELSE ToSummary(r)
ToClassify(r) == IF ~r.set.on THEN "end" ELSE IF r.set.sort THEN "classify" ELSE ToThreat(r)

Calling == {"classifying", "assessing", "summing"}
InFlight == {w \in Worker : run[w].pc \in Calling}

Threatening == {"assess", "assessing", "assessed", "roll", "rolled"}

Locked(s) == \E l \in locks : l.state = s
Mine(w) == [state |-> run[w].state, by |-> w]

(***************************************************************************)
(* Producers of jobs.                                                      *)
(***************************************************************************)

\* persistThread, of a new message or of one that is fetched again, perhaps
\* with another body.  A delta queues the new inbound ones, a backfill all.
Store(m) ==
  /\ \E b \in {body[m], body[m] + 1} \cap (1..MaxBody) : body' = [body EXCEPT ![m] = b]
  /\ \/ orders' = orders \cup {Plain(m)}
     \/ (body[m] # 0 \/ m \notin Inbound) /\ UNCHANGED orders
  /\ UNCHANGED <<queueVars, settings, row, headline, banner, summaries, used, jobVars, run,
                 locks, countVars>>

Missing == {m \in Stored : row[m].hash = 0}
Unsummarized ==
  {m \in Stored : IsNewest(m) /\ summaries = {} /\ Cardinality(Stored) >= Enough}
Unassessed == {m \in Stored \cap Inbound : row[m].hash # 0 /\ row[m].level = 0}

\* The messages of one sweep: the three gaps, in order, within the budget.
Gaps(budget) ==
  LET first == Newest(Missing, budget)
      left == budget - Cardinality(first)
      second == IF left = 0 THEN first ELSE first \cup Unsummarized
      rest == budget - Cardinality(second)
  IN  IF rest = 0 THEN second ELSE second \cup Newest(Unassessed, rest)

\* sweepUserEnrichment, of a user whom sweepAllEnrichment visits: one with a mailbox
\* that is ACTIVE or BACKFILLING.  The mailbox of this module is.
Sweep ==
  /\ settings.on /\ used < Cap
  /\ orders' = orders \cup {Plain(m) : m \in Gaps(Cap - used)}
  /\ UNCHANGED <<queueVars, settings, dataVars, used, jobVars, run, locks, countVars>>

\* The sweep of "pnpm ai:sweep --force"; one job of the thread gets its summary.
Recompute ==
  /\ settings.on /\ used < Cap
  /\ forces < MaxForces /\ forces' = forces + 1
  /\ orders' = orders \cup {[msg |-> m, force |-> TRUE, again |-> IsNewest(m)] :
                               m \in Newest(Stored, Cap - used)}
  /\ UNCHANGED <<queueVars, settings, dataVars, used, jobVars, run, locks, faults>>

\* Mutant of Joined: a finished job still holds its id.
JoinedFinished(o) == job[o.msg] # "none"

\* Mutant of Joined: an active job is replaced, too.
JoinedUnlessActive(o) ==
  job[o.msg] \in {"waiting", "delayed"} /\ (~o.force \/ ask[o.msg].force)

\* A job under this id is going to do what is asked.
Joined(o) ==
  \/ job[o.msg] = "active"
  \/ job[o.msg] \in {"waiting", "delayed"} /\ (~o.force \/ ask[o.msg].force)

\* enqueueEnrichment, for one message: a job that is not Joined is replaced.
Enqueue(o) ==
  /\ o \in orders
  /\ orders' = orders \ {o}
  /\ IF Joined(o)
       THEN UNCHANGED <<queueVars, jobVars>>
       ELSE /\ Insert(o.msg, 0, 0)
            /\ ask' = [ask EXCEPT ![o.msg] = [force |-> o.force, again |-> o.again]]
            /\ tries' = [tries EXCEPT ![o.msg] = 0]
  /\ UNCHANGED <<settings, dataVars, used, run, locks, countVars>>

\* The process dies before it queued this one, or Redis refuses it.
Forget(o) ==
  /\ o \in orders
  /\ Fault("lose")
  /\ orders' = orders \ {o}
  /\ UNCHANGED <<queueVars, settings, dataVars, used, jobVars, run, locks>>

(***************************************************************************)
(* The job.                                                                *)
(***************************************************************************)

\* The job is taken; settings and message are read.
Take(w, m) ==
  /\ At(w, "idle")
  /\ Acquire(m, w)
  /\ LET r == [Rest EXCEPT !.msg = m, !.force = ask[m].force, !.again = ask[m].again,
                           !.set = settings, !.body = body[m]]
     IN  run' = [run EXCEPT ![w] = [r EXCEPT !.pc = ToClassify(r)]]
  /\ UNCHANGED <<settings, dataVars, used, orders, jobVars, locks, countVars>>

\* Mutant of MayCall: one more than the cap.
MayCallOver == used <= Cap

\* checkDailyCap, before every call.
MayCall == used < Cap

\* A step of w that leaves everything but its own progress alone.
Move(w, step) ==
  /\ Goto(w, step)
  /\ UNCHANGED <<queueVars, settings, dataVars, used, orders, jobVars, locks, countVars>>

\* A stored category is found, or the model may be called, or the cap ends the job.
Classify(w) ==
  /\ At(w, "classify")
  /\ LET r == run[w]
         hit == ~r.force /\ row[r.msg].hash = r.body
     IN  Move(w, IF hit THEN "newest" ELSE IF MayCall THEN "classifying" ELSE "end")

\* The model answers and the call is billed, whatever becomes of the answer.
Answer(w) ==
  /\ run[w].pc \in Calling
  /\ used' = used + 1
  /\ \/ At(w, "classifying") /\ Goto(w, "classified")
     \/ At(w, "summing") /\ Goto(w, "summed")
     \/ /\ At(w, "assessing")
        /\ \E a \in {1, 2} :
             run' = [run EXCEPT ![w].pc = "assessed",
                                ![w].level = Worse(Floor(run[w].msg), a)]
  /\ UNCHANGED <<queueVars, settings, dataVars, orders, jobVars, locks, countVars>>

\* The row is written with no verdict; an old one goes.
Classified(w) ==
  /\ At(w, "classified")
  /\ LET r == run[w] IN
       row' = [row EXCEPT ![r.msg] = [hash |-> r.body, sorted |-> r.body, level |-> 0]]
  /\ Goto(w, "newest")
  /\ UNCHANGED <<queueVars, settings, body, headline, banner, summaries, used, orders,
                 jobVars, locks, countVars>>

LookNewest(w) ==
  /\ At(w, "newest")
  /\ Move(w, IF IsNewest(run[w].msg) THEN "headline" ELSE ToThreat(run[w]))

Headline(w) ==
  /\ At(w, "headline")
  /\ headline' = run[w].msg
  /\ Goto(w, ToThreat(run[w]))
  /\ UNCHANGED <<queueVars, settings, body, row, banner, summaries, used, orders, jobVars,
                 locks, countVars>>

\* A stored verdict is found, or the model may be called, or the rules decide alone.
Assess(w) ==
  /\ At(w, "assess")
  /\ LET r == run[w]
         hit == ~r.force /\ row[r.msg].hash = r.body /\ row[r.msg].level # 0
     IN  run' = [run EXCEPT ![w] =
           IF hit THEN [r EXCEPT !.pc = "roll"]
           ELSE IF MayCall THEN [r EXCEPT !.pc = "assessing"]
           ELSE [r EXCEPT !.pc = "assessed", !.level = Floor(r.msg)]]
  /\ UNCHANGED <<queueVars, settings, dataVars, used, orders, jobVars, locks, countVars>>

\* The verdict's half of the row; without a row, the other half is a placeholder.
Assessed(w) ==
  /\ At(w, "assessed")
  /\ LET r == run[w] IN
       row' = [row EXCEPT ![r.msg].hash = r.body, ![r.msg].level = r.level]
  /\ Goto(w, "roll")
  /\ UNCHANGED <<queueVars, settings, body, headline, banner, summaries, used, orders,
                 jobVars, locks, countVars>>

\* refreshThreadThreatLevel reads the verdicts of the thread and writes the worst.
Roll(w) ==
  /\ At(w, "roll")
  /\ \E l \in Level :
       /\ \A m \in Id : row[m].level <= l
       /\ \E m \in Id : row[m].level = l
       /\ run' = [run EXCEPT ![w].pc = "rolled", ![w].level = l]
  /\ UNCHANGED <<queueVars, settings, dataVars, used, orders, jobVars, locks, countVars>>

Rolled(w) ==
  /\ At(w, "rolled")
  /\ banner' = run[w].level
  /\ Goto(w, ToSummary(run[w]))
  /\ UNCHANGED <<queueVars, settings, body, row, headline, summaries, used, orders, jobVars,
                 locks, countVars>>

\* The thread is read; a thread that is too short, or has its summary, is done.
Gather(w) ==
  /\ At(w, "gather")
  /\ LET done == \/ Cardinality(Stored) < Enough
                 \/ ~run[w].again /\ body \in summaries
     IN  run' = [run EXCEPT ![w].pc = IF done THEN "end" ELSE "lock",
                            ![w].state = IF done THEN Empty ELSE body]
  /\ UNCHANGED <<queueVars, settings, dataVars, used, orders, jobVars, locks, countVars>>

Lock(w) ==
  /\ At(w, "lock") /\ ~Locked(run[w].state)
  /\ locks' = locks \cup {Mine(w)}
  /\ Goto(w, "recheck")
  /\ UNCHANGED <<queueVars, settings, dataVars, used, orders, jobVars, countVars>>

\* The wait is over and the lock is not free: the work is done without it.
GiveUp(w) ==
  /\ At(w, "lock")
  /\ \/ [state |-> run[w].state, by |-> NoWorker] \in locks /\ UNCHANGED countVars
     \/ Locked(run[w].state) /\ Fault("slow")
  /\ Goto(w, "recheck")
  /\ UNCHANGED <<queueVars, settings, dataVars, used, orders, jobVars, locks>>

\* Mutant of Recheck: the cache is not looked at again.
RecheckNot(w) ==
  /\ At(w, "recheck")
  /\ Move(w, IF MayCall THEN "summing" ELSE "leave")

Recheck(w) ==
  /\ At(w, "recheck")
  /\ LET raced == ~run[w].again /\ run[w].state \in summaries
     IN  Move(w, IF ~raced /\ MayCall THEN "summing" ELSE "leave")

Summed(w) ==
  /\ At(w, "summed")
  /\ summaries' = summaries \cup {run[w].state}
  /\ Goto(w, "leave")
  /\ UNCHANGED <<queueVars, settings, body, row, headline, banner, used, orders, jobVars,
                 locks, countVars>>

\* The lock is deleted if it is still this worker's.
Leave(w) ==
  /\ At(w, "leave")
  /\ locks' = locks \ {Mine(w)}
  /\ Goto(w, "end")
  /\ UNCHANGED <<queueVars, settings, dataVars, used, orders, jobVars, countVars>>

End(w) ==
  /\ At(w, "end")
  /\ run' = [run EXCEPT ![w] = Rest]
  /\ Release(run[w].msg, w, "completed")
  /\ UNCHANGED <<settings, dataVars, used, orders, jobVars, locks, countVars>>

(***************************************************************************)
(* Failures, and the world.                                                *)
(***************************************************************************)

LastAttempt(m) == tries[m] + 1 >= Attempts

\* The attempt of w fails; its lock is released; it is tried again if it may be.
Fail(w) ==
  LET m == run[w].msg IN
  /\ run' = [run EXCEPT ![w] = Rest]
  /\ locks' = locks \ {Mine(w)}
  /\ \/ LastAttempt(m) /\ Release(m, w, "failed") /\ UNCHANGED tries
     \/ /\ ~LastAttempt(m) /\ Retry(m, w)
        /\ tries' = IF lock[m] = w THEN [tries EXCEPT ![m] = @ + 1] ELSE tries
  /\ UNCHANGED <<settings, dataVars, used, orders, ask>>

\* A read, a write or a call throws, or an answer is of no use.  The threat
\* stage swallows its errors and leaves the message unassessed.
Throw(w) ==
  /\ run[w].pc \notin {"idle", "leave", "end"}
  /\ Fault("throw")
  /\ IF run[w].pc \in Threatening
       THEN /\ Goto(w, ToSummary(run[w]))
            /\ UNCHANGED <<queueVars, settings, dataVars, used, orders, jobVars, locks>>
       ELSE Fail(w)

\* The signal is aborted in a call or in the wait for a lock: no stage swallows it.
Abort(w) ==
  /\ run[w].pc \in Calling \cup {"lock"}
  /\ Fault("abort")
  /\ Fail(w)

\* The process dies.  Its lock in Redis stays until it runs out.
Crash(w) ==
  /\ ~At(w, "idle")
  /\ Fault("crash")
  /\ run' = [run EXCEPT ![w] = Rest]
  /\ locks' = {IF l.by = w THEN [l EXCEPT !.by = NoWorker] ELSE l : l \in locks}
  /\ Abandon(run[w].msg, w)
  /\ UNCHANGED <<settings, dataVars, used, orders, jobVars>>

\* A summary lock runs out: its holder is dead, or slower than LOCK_TTL_MS.
Lapse(l) ==
  /\ l \in locks
  /\ locks' = locks \ {l}
  /\ \/ l.by = NoWorker /\ UNCHANGED countVars
     \/ l.by # NoWorker /\ Fault("slow")
  /\ UNCHANGED <<queueVars, settings, dataVars, used, orders, jobVars, run>>

PromoteJob(m) == Promote(m, Horizon) /\ UNCHANGED enrichVars

StallJob(m) ==
  /\ Stall(m)
  /\ \/ lock[m] = NoWorker /\ UNCHANGED countVars
     \/ lock[m] # NoWorker /\ Fault("stall")
  /\ UNCHANGED <<settings, dataVars, used, orders, jobVars, run, locks>>

LoseJob(m) ==
  /\ Fault("lose") /\ job[m] # "none"
  /\ Clear(m)
  /\ UNCHANGED <<settings, dataVars, used, orders, jobVars, run, locks>>

\* Midnight, UTC: the window of the cap is a new one.
NewDay ==
  /\ used' = 0
  /\ UNCHANGED <<queueVars, settings, dataVars, orders, jobVars, run, locks, countVars>>

ChangeSettings ==
  /\ \E s \in Choices \ {settings} : settings' = s
  /\ UNCHANGED <<queueVars, dataVars, used, orders, jobVars, run, locks, countVars>>

(***************************************************************************)
(* The specification.                                                      *)
(***************************************************************************)

Work(w) ==
  \/ Classify(w) \/ Answer(w) \/ Classified(w) \/ LookNewest(w) \/ Headline(w)
  \/ Assess(w) \/ Assessed(w) \/ Roll(w) \/ Rolled(w)
  \/ Gather(w) \/ Lock(w) \/ Recheck(w) \/ Summed(w) \/ Leave(w) \/ End(w)

Next ==
  \/ \E m \in Id : Store(m) \/ PromoteJob(m) \/ StallJob(m) \/ LoseJob(m)
  \/ \E o \in orders : Enqueue(o) \/ Forget(o)
  \/ \E w \in Worker, m \in Id : Take(w, m)
  \/ \E w \in Worker : Work(w) \/ GiveUp(w) \/ Throw(w) \/ Abort(w) \/ Crash(w)
  \/ \E l \in locks : Lapse(l)
  \/ Sweep \/ Recompute \/ NewDay \/ ChangeSettings

Spec == Init /\ [][Next]_vars

\* Jobs are queued, taken, run and recovered, the sweep comes round while there
\* is budget, locks of the dead run out, and there is a next day.
FairSpec ==
  /\ Spec
  /\ \A m \in Id : /\ SF_vars(\E w \in Worker : Take(w, m))
                   /\ WF_vars(PromoteJob(m)) /\ WF_vars(lock[m] = NoWorker /\ StallJob(m))
  /\ \A o \in Order : WF_vars(Enqueue(o))
  /\ \A w \in Worker : WF_vars(Work(w))
  /\ \A s \in ThreadState : WF_vars(Lapse([state |-> s, by |-> NoWorker]))
  /\ WF_vars(Sweep) /\ WF_vars(NewDay)

(***************************************************************************)
(* Properties.                                                             *)
(***************************************************************************)

\* "Two concurrent workers can both pass the check at cap-1 and land one call
\* over": the calls of a day, billed and under way, pass the cap by less than
\* the number of workers.
CapHolds == used + Cardinality(InFlight) <= Cap + Cardinality(Worker) - 1

\* What a worker's call is about.
CallOf(w) ==
  IF run[w].pc = "summing" THEN <<"summing", run[w].state>>
  ELSE <<run[w].pc, <<run[w].msg, run[w].body>>>>

\* The answer a worker asks the model for is stored already.
Known(w) ==
  LET r == run[w] IN
  CASE r.pc = "classifying" -> row[r.msg].hash = r.body
    [] r.pc = "assessing" -> row[r.msg].hash = r.body /\ row[r.msg].level # 0
    [] r.pc = "summing" -> r.state \in summaries

Forced(w) == run[w].force \/ run[w].again

\* "A cache miss must be the only reason this application spends a token": nobody
\* pays for an answer that is stored, or that another worker is paying for,
\* unless a recompute asked for it or something failed.
NothingPaidTwice ==
  faults = 0 =>
    \A w \in InFlight :
      /\ ~Forced(w) => ~Known(w)
      /\ \A v \in InFlight \ {w} : ~Forced(v) /\ ~Forced(w) => CallOf(v) # CallOf(w)

\* Nothing is left undone.
Done ==
  /\ \A m \in Stored : row[m].sorted # 0 /\ (m \in Inbound => row[m].level # 0)
  /\ Cardinality(Stored) >= Enough => summaries # {}

\* "The cap would silently become a permanent hole in the index rather than a
\* delay": what the cap, a failure or a pause of the AI left out is done later.
NoPermanentHole == <>[](settings = AllOn) => <>[]Done

\* "A benign follow-up must not clear the banner on the forged message above it":
\* when nobody is about to refresh it, the banner is no better than any message.
BannerStands ==
  (\A w \in Worker : run[w].pc \notin {"roll", "rolled"}) =>
    \A m \in Id : row[m].level <= banner

\* "A mailbox that has run out of budget still gets its DMARC failures flagged":
\* a job that completes has left a verdict on its message.
FlaggedAtCap ==
  [][\A w \in Worker : End(w) /\ run[w].set.guard /\ run[w].set.on
                         /\ run[w].msg \in Inbound =>
       row[run[w].msg].level # 0]_vars
=============================================================================
