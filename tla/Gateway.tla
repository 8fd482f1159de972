------------------------------ MODULE Gateway ------------------------------
(***************************************************************************)
(* The calls to Gmail of one mailbox: the token bucket that paces them     *)
(* (lib/rateLimiter.ts), the retries and the lanes that fetch the threads  *)
(* of a page (lib/retry.ts), the one call that is never repeated           *)
(* (providers/gmail/client.ts), and the abort of a sync attempt by the     *)
(* worker that runs it (queueWorkers.ts).                                  *)
(*                                                                         *)
(* Time is discrete and relative: a wait is the number of ticks it still   *)
(* takes.  A timer may fire late; it never fires early.                    *)
(***************************************************************************)
EXTENDS Integers, FiniteSets

CONSTANTS
  Attempt,    \* the attempts of one sync job: 1, 2, ...
  Lane,       \* the lanes of mapWithConcurrency
  Sender,     \* the requests that send a message
  Items,      \* the threads of a page
  Get, Send,  \* the units of users.threads.get and users.messages.send
  Capacity,   \* BUCKET_CAPACITY_UNITS
  Rate,       \* the units a tick brings
  Full,       \* ticks after which an empty bucket is full, whatever its rate
  Tries,      \* RetryOptions.attempts
  MinDelay, MaxDelay, MaxAfter,
  After,      \* the values of Retry-After the provider sends
  MaxAge,     \* bound on the windows over which spending is observed
  MaxFaults   \* bound on the refusals, stalls and aborted sends of one behaviour

ASSUME GatewayAssumption ==
  /\ Attempt \subseteq Nat \ {0} /\ IsFiniteSet(Attempt)
  /\ IsFiniteSet(Lane) /\ IsFiniteSet(Sender)
  /\ Sender \cap (Attempt \X Lane) = {}
  /\ Items \in Nat /\ Tries \in Nat \ {0}
  /\ Capacity \in Nat /\ Rate \in Nat \ {0}
  /\ Get \in 1..Capacity /\ Send \in 1..Capacity
  /\ Full \in Nat /\ Capacity <= Full * Rate
  /\ MinDelay \in Nat \ {0} /\ MaxDelay \in Nat /\ MinDelay <= MaxDelay
  /\ MaxAfter \in Nat /\ After \subseteq Nat
  /\ MaxAge \in Nat /\ MaxFaults \in Nat

VARIABLES
  tokens,    \* TokenBucket.tokens, as of the last refill
  elapsed,   \* the ticks since then
  ahead,     \* TokenBucket.waiters: who is in front of each waiter
  timer,     \* the ticks until TokenBucket.timer fires, or NoTimer
  call,      \* what each caller is doing
  cursor,    \* the items each attempt has given out
  attempt,   \* where each attempt of the job is
  aborted,   \* the attempts whose signal is aborted
  inFlight,  \* the attempt registered under the id of the job, or 0
  job,       \* the job in its queue
  stalled,   \* the queue is about to report a stall
  closing,   \* the worker is shutting down
  stalls,
  refusals,  \* the requests refused and the sends aborted
  window     \* what an observer has seen spent since it began to look

bucketVars == <<tokens, elapsed, ahead, timer, window>>
jobVars == <<attempt, aborted, inFlight, job, stalled, closing, stalls>>
vars == <<bucketVars, jobVars, call, cursor, refusals>>

NoTimer == -1
NoAfter == -1

Caller == (Attempt \X Lane) \cup Sender
Fetching == Attempt \X Lane
Units(c) == IF c \in Sender THEN Send ELSE Get

Least(a, b) == IF a <= b THEN a ELSE b
Most(a, b) == IF a >= b THEN a ELSE b

Place == {"idle", "waiting", "granted", "asked", "sleeping", "over", "broken"}

Call == [pc: Place,
         tries: 0..Tries,   \* requests of this call so far
         left: Nat,         \* ticks of sleep
         closed: Nat]       \* ticks until the provider wants to be asked again

Rest == [pc |-> "idle", tries |-> 0, left |-> 0, closed |-> 0]
Shut == [open |-> FALSE, age |-> 0, spent |-> 0]

TypeOK ==
  /\ tokens \in 0..Capacity /\ elapsed \in 0..Full
  /\ ahead \in [Caller -> SUBSET Caller]
  /\ timer \in Nat \cup {NoTimer}
  /\ call \in [Caller -> Call]
  /\ cursor \in [Attempt -> 0..Items]
  /\ attempt \in [Attempt -> {"none", "going", "ended"}]
  /\ aborted \subseteq Attempt /\ inFlight \in Attempt \cup {0}
  /\ job \in {"waiting", "active", "finished"}
  /\ stalled \in BOOLEAN /\ closing \in BOOLEAN
  /\ stalls \in 0..MaxFaults /\ refusals \in 0..MaxFaults
  /\ window \in [open: BOOLEAN, age: 0..MaxAge, spent: Nat]

Init ==
  /\ tokens = Capacity /\ elapsed = 0 /\ timer = NoTimer
  /\ ahead = [c \in Caller |-> {}]
  /\ call = [c \in Caller |-> Rest]
  /\ cursor = [a \in Attempt |-> 0]
  /\ attempt = [a \in Attempt |-> "none"]
  /\ aborted = {} /\ inFlight = 0
  /\ job = "waiting" /\ stalled = FALSE /\ closing = FALSE
  /\ stalls = 0 /\ refusals = 0
  /\ window = Shut

At(c, place) == call[c].pc = place
Goto(c, place) == call' = [call EXCEPT ![c].pc = place]

\* The call of c is over, and with it what is known of it.
Settled(place) == [Rest EXCEPT !.pc = place]

(***************************************************************************)
(* The bucket.                                                             *)
(***************************************************************************)

\* Mutant of Refilled: an idle bucket saves more than its capacity.
RefilledPast == tokens + elapsed * Rate

\* refill
Refilled == Least(Capacity, tokens + elapsed * Rate)

\* schedule: the ticks until caller c can be served, at least one.
WaitFor(c, have) ==
  Most(1, (Most(0, Units(c) - have) + Rate - 1) \div Rate)

Spend(units) ==
  window' = IF window.open THEN [window EXCEPT !.spent = @ + units] ELSE window

Waiting == {c \in Caller : At(c, "waiting")}

\* Mutant of Granted: what came in since the last refill is lost.
GrantedStale(c, n) ==
  /\ tokens >= Units(c)
  /\ tokens' = tokens - Units(c) /\ elapsed' = 0
  /\ Spend(Units(c))
  /\ call' = [call EXCEPT ![c].pc = "granted", ![c].tries = n, ![c].left = 0]
  /\ UNCHANGED <<ahead, timer>>

\* acquire, when caller c is served at once and when it queues: a timer is armed
\* for the one in front of everybody.
Granted(c, n) ==
  /\ Refilled >= Units(c)
  /\ tokens' = Refilled - Units(c) /\ elapsed' = 0
  /\ Spend(Units(c))
  /\ call' = [call EXCEPT ![c].pc = "granted", ![c].tries = n, ![c].left = 0]
  /\ UNCHANGED <<ahead, timer>>

Queued(c, n) ==
  /\ tokens' = Refilled /\ elapsed' = 0
  /\ call' = [call EXCEPT ![c].pc = "waiting", ![c].tries = n, ![c].left = 0]
  /\ ahead' = [ahead EXCEPT ![c] = Waiting]
  /\ \/ (timer # NoTimer /\ UNCHANGED timer)
     \/ /\ timer = NoTimer
        /\ \E h \in Waiting \cup {c} : ahead'[h] = {} /\ timer' = WaitFor(h, Refilled)
  /\ UNCHANGED window

\* Mutant of Admit: a call that can be paid does not queue.
AdmitAhead(c, n) == Granted(c, n) \/ (Refilled < Units(c) /\ Queued(c, n))

\* acquire, for the n-th request of caller c.
Admit(c, n) ==
  \/ /\ Waiting = {}
     /\ Granted(c, n)
  \/ /\ Waiting # {} \/ Refilled < Units(c)
     /\ Queued(c, n)

Cost(S) == Send * Cardinality(S \cap Sender) + Get * Cardinality(S \ Sender)

\* The waiters but those in S.
Without(S) == [c \in Caller |-> IF c \in S THEN {} ELSE ahead[c] \ S]

\* drain serves S: the first waiters, as many as can be paid.
Serve(S) ==
  /\ \A c \in S : ahead[c] \subseteq S
  /\ Cost(S) <= Refilled
  /\ \A c \in Waiting \ S : ahead[c] \subseteq S => Refilled - Cost(S) < Units(c)
  /\ tokens' = Refilled - Cost(S) /\ elapsed' = 0
  /\ Spend(Cost(S))
  /\ ahead' = Without(S)
  /\ call' = [c \in Caller |-> IF c \in S THEN [call[c] EXCEPT !.pc = "granted"]
                                          ELSE call[c]]

\* Mutant of TimerFires: nothing is scheduled for those who still wait.
TimerFiresOnce ==
  /\ timer = 0
  /\ \E S \in SUBSET Waiting : Serve(S)
  /\ timer' = NoTimer
  /\ UNCHANGED <<jobVars, cursor, refusals>>

\* The timer fires: drain, and schedule for the one who is first now.
TimerFires ==
  /\ timer = 0
  /\ \E S \in SUBSET Waiting :
       /\ Serve(S)
       /\ \/ (S = Waiting /\ timer' = NoTimer)
          \/ \E h \in Waiting \ S : ahead[h] \subseteq S /\ timer' = WaitFor(h, tokens')
  /\ UNCHANGED <<jobVars, cursor, refusals>>

(***************************************************************************)
(* The calls.                                                              *)
(***************************************************************************)

Silenced(c) == c \in Fetching /\ c[1] \in aborted

\* A lane of mapWithConcurrency takes its next item, and getThread enters the
\* bucket; or it stops, because there is none left or the signal is aborted.
TakeItem(c) ==
  LET a == c[1] IN
  /\ At(c, "idle") /\ attempt[a] # "none"
  /\ \/ /\ ~Silenced(c) /\ cursor[a] < Items
        /\ cursor' = [cursor EXCEPT ![a] = @ + 1]
        /\ Admit(c, 1)
     \/ /\ Silenced(c) \/ cursor[a] = Items
        /\ call' = [call EXCEPT ![c] = Settled(IF Silenced(c) THEN "broken" ELSE "over")]
        /\ UNCHANGED <<bucketVars, cursor>>
  /\ UNCHANGED <<jobVars, refusals>>

\* sendMessage: callOnce.
SendMessage(c) ==
  /\ At(c, "idle")
  /\ Admit(c, 1)
  /\ UNCHANGED <<jobVars, cursor, refusals>>

\* A scheduled send carries the signal of its job, which is aborted when that job
\* stalls or the worker shuts down: wherever the call is, it ends, and what it has
\* paid is not given back.  One that is aborted before it entered never enters.
AbortSend(c) ==
  /\ call[c].pc \in {"waiting", "granted", "asked"}
  /\ stalls + refusals < MaxFaults /\ refusals' = refusals + 1
  /\ call' = [call EXCEPT ![c] = Settled("broken")]
  /\ ahead' = Without({c})
  /\ UNCHANGED <<tokens, elapsed, timer, window, jobVars, cursor>>

\* Mutant of Fire: the signal is not handed to the request.
FireAnyway(c) ==
  /\ At(c, "granted")
  /\ Goto(c, "asked")
  /\ UNCHANGED <<bucketVars, jobVars, cursor, refusals>>

\* The access token is there: the request leaves, unless its signal is aborted.
Fire(c) ==
  /\ At(c, "granted")
  /\ call' = [call EXCEPT ![c] = IF Silenced(c) THEN Settled("broken")
                                               ELSE [@ EXCEPT !.pc = "asked"]]
  /\ UNCHANGED <<bucketVars, jobVars, cursor, refusals>>

Succeed(c) ==
  /\ At(c, "asked")
  /\ call' = [call EXCEPT ![c] = IF c \in Sender THEN Settled("over") ELSE Rest]
  /\ UNCHANGED <<bucketVars, jobVars, cursor, refusals>>

\* min(ceiling, floor * 2^(n-1))
Curve(n) == Least(MaxDelay, MinDelay * 2^(n - 1))

\* backoffDelayMs: the curve, and up to half of it on top, below the ceiling.
Backoff(n) == {d \in MinDelay..MaxDelay : Curve(n) <= d /\ 2 * d <= 3 * Curve(n)}

\* Mutant of Delays: the curve alone.
DelaysOwn(n, after) == Backoff(n)

\* The delays before the request that follows the n-th.
Delays(n, after) ==
  IF after = NoAfter THEN Backoff(n) ELSE {Most(MinDelay, Least(after, MaxAfter))}

\* A rate limit or a transient fault: withRetry sleeps and asks again, while it
\* may.  A send is not asked again, whatever became of it.
Refuse(c) ==
  /\ At(c, "asked")
  /\ stalls + refusals < MaxFaults /\ refusals' = refusals + 1
  /\ \E after \in After \cup {NoAfter} :
       \/ /\ c \in Sender \/ call[c].tries = Tries
          /\ call' = [call EXCEPT ![c] = Settled("broken")]
       \/ /\ c \notin Sender /\ call[c].tries < Tries
          /\ \E d \in Delays(call[c].tries, after) :
               call' = [call EXCEPT ![c].pc = "sleeping", ![c].left = d,
                                    ![c].closed = Most(0, after)]
  /\ UNCHANGED <<bucketVars, jobVars, cursor>>

\* An error that a retry cannot mend, of the request or of the access token.
Reject(c) ==
  /\ call[c].pc \in {"granted", "asked"}
  /\ stalls + refusals < MaxFaults /\ refusals' = refusals + 1
  /\ call' = [call EXCEPT ![c] = Settled("broken")]
  /\ UNCHANGED <<bucketVars, jobVars, cursor>>

\* The sleep is over: the retry pays for itself again.
Wake(c) ==
  /\ At(c, "sleeping") /\ call[c].left = 0
  /\ Admit(c, call[c].tries + 1)
  /\ UNCHANGED <<jobVars, cursor, refusals>>

(***************************************************************************)
(* The job and its attempts.                                               *)
(***************************************************************************)

\* Attempt a is aborted: its waits, its sleeps and its requests end.  A lane that
\* is waiting for a token, or between two items, finds out later.
Abort(a) ==
  LET gone == {c \in {a} \X Lane : call[c].pc \in {"waiting", "sleeping", "asked"}} IN
  /\ aborted' = aborted \cup {a}
  /\ call' = [c \in Caller |-> IF c \in gone THEN Settled("broken") ELSE call[c]]
  /\ ahead' = Without(gone)
  /\ UNCHANGED <<tokens, elapsed, timer, window>>

\* abortJob: of whatever is registered under the id of the job.
AbortRegistered ==
  \/ /\ inFlight # 0
     /\ Abort(inFlight)
  \/ /\ inFlight = 0
     /\ UNCHANGED <<aborted, bucketVars, call>>

\* processBackfill, or processDelta: the signal is registered, the page begins.
Start(a) ==
  /\ job = "waiting" /\ ~closing
  /\ attempt[a] = "none" /\ \A b \in Attempt : b < a => attempt[b] # "none"
  /\ job' = "active"
  /\ attempt' = [attempt EXCEPT ![a] = "going"]
  /\ inFlight' = a
  /\ UNCHANGED <<bucketVars, call, cursor, aborted, stalled, closing, stalls, refusals>>

Latest(a) == attempt[a] # "none" /\ \A b \in Attempt : b > a => attempt[b] = "none"

\* Promise.all of the lanes of a page is settled: by its first error, or its last lane.
Rejected(a) == \E l \in Lane : At(<<a, l>>, "broken")
Resolved(a) == \A l \in Lane : At(<<a, l>>, "over")

\* Mutant of End: an attempt that failed just ends.
EndQuietly(a) ==
  /\ attempt[a] = "going" /\ (Rejected(a) \/ Resolved(a))
  /\ attempt' = [attempt EXCEPT ![a] = "ended"]
  /\ inFlight' = 0
  /\ job' = IF Latest(a) /\ job = "active"
              THEN IF Rejected(a) THEN "waiting" ELSE "finished" ELSE job
  /\ UNCHANGED <<bucketVars, call, aborted, cursor, stalled, closing, stalls, refusals>>

\* The attempt ends: whatever of it is still talking to Gmail is aborted, and the
\* id is taken off the register.  The queue takes the outcome of the attempt that
\* has the job.
End(a) ==
  /\ attempt[a] = "going" /\ (Rejected(a) \/ Resolved(a))
  /\ attempt' = [attempt EXCEPT ![a] = "ended"]
  /\ Abort(a)
  /\ inFlight' = 0
  /\ job' = IF Latest(a) /\ job = "active"
              THEN IF Rejected(a) THEN "waiting" ELSE "finished" ELSE job
  /\ UNCHANGED <<cursor, stalled, closing, stalls, refusals>>

\* The lock of the job lapses: the queue hands it to another attempt, and reports it.
Stall ==
  /\ job = "active" /\ stalls + refusals < MaxFaults
  /\ stalls' = stalls + 1
  /\ job' = "waiting" /\ stalled' = TRUE
  /\ UNCHANGED <<bucketVars, call, cursor, attempt, aborted, inFlight, closing, refusals>>

\* The handler of the report aborts the attempt that is registered by then.
StallReported ==
  /\ stalled /\ stalled' = FALSE
  /\ AbortRegistered
  /\ UNCHANGED <<cursor, attempt, inFlight, job, closing, stalls, refusals>>

\* close: what is registered is aborted, and no job is taken any more.
Close ==
  /\ ~closing /\ closing' = TRUE
  /\ AbortRegistered
  /\ UNCHANGED <<cursor, attempt, inFlight, job, stalled, stalls, refusals>>

(***************************************************************************)
(* Time.                                                                   *)
(***************************************************************************)

Less(n) == Most(0, n - 1)

Tick ==
  /\ elapsed' = Least(Full, elapsed + 1)
  /\ timer' = IF timer = NoTimer THEN NoTimer ELSE Less(timer)
  /\ call' = [c \in Caller |-> [call[c] EXCEPT !.left = Less(@), !.closed = Less(@)]]
  /\ window' = IF window.open /\ window.age < MaxAge
                 THEN [window EXCEPT !.age = @ + 1] ELSE Shut
  /\ UNCHANGED <<tokens, ahead, jobVars, cursor, refusals>>

\* Somebody begins to count what is spent.
Observe ==
  /\ ~window.open
  /\ window' = [Shut EXCEPT !.open = TRUE]
  /\ UNCHANGED <<tokens, elapsed, ahead, timer, jobVars, call, cursor, refusals>>

(***************************************************************************)
(* The specification.                                                      *)
(***************************************************************************)

Answer(c) == Succeed(c) \/ Refuse(c) \/ Reject(c)

Next ==
  \/ \E c \in Fetching : TakeItem(c)
  \/ \E c \in Sender : SendMessage(c) \/ AbortSend(c)
  \/ \E c \in Caller : Fire(c) \/ Answer(c) \/ Wake(c)
  \/ \E a \in Attempt : Start(a) \/ End(a)
  \/ TimerFires \/ Stall \/ StallReported \/ Close \/ Tick \/ Observe

Spec == Init /\ [][Next]_vars

\* Time passes, timers fire, promises settle, and requests are answered.
FairSpec ==
  /\ Spec
  /\ WF_vars(Tick) /\ WF_vars(TimerFires)
  /\ \A c \in Caller : WF_vars(Fire(c)) /\ WF_vars(Answer(c)) /\ WF_vars(Wake(c))
  /\ \A c \in Fetching : WF_vars(TakeItem(c))

(***************************************************************************)
(* Properties.                                                             *)
(***************************************************************************)

\* Whenever one begins to look, and whoever is served out of the queue, no more
\* is spent than a full bucket and what came in since: "requests are paced so the
\* limit is not reached".
WithinQuota == window.open => window.spent <= Capacity + Rate * window.age

\* "A cheap call does not jump ahead of an expensive one that has been waiting":
\* whoever is granted its units was in front of all who still wait.
NoOvertaking ==
  [][\A d \in Waiting : call'[d].pc = "waiting" =>
       \A c \in Caller : ~At(c, "granted") /\ call'[c].pc = "granted" => c \in ahead[d]]_vars

\* "Aborting on the way out is what keeps one attempt running at a time", and at
\* a shutdown "stop making requests immediately": only the latest attempt, of a
\* worker that is not shutting down, has a request at Gmail.
OnlyLatestTalks ==
  \A c \in Fetching : At(c, "asked") => Latest(c[1]) /\ ~closing

\* The same of a job that did not stall: the report of a stall may find the next
\* attempt registered already.
OneAttemptTalks == stalls = 0 => OnlyLatestTalks

\* "Coming back before that is a guaranteed rejection that spends quota and
\* extends the block": no request leaves before the provider asked for it.
HonoursRetryAfter == \A c \in Caller : At(c, "asked") => call[c].closed = 0

\* The callers that have paid and not asked yet.
Paying == {c \in Caller : At(c, "granted")}

Ideal == INSTANCE Bucket WITH
  Dear <- Sender,
  HighPrice <- Send,
  LowPrice <- Get,
  credit <- Refilled,
  line <- Waiting,
  paid <- Paying

\* The bucket behaves as one that is refilled at every tick, with its callers in
\* line: the lazy refill, the single timer, and the waiters that an abort takes out
\* of the queue at any moment, do not show (rateLimiter.ts:10-17, 95-186).
KeepsItsOrder == Ideal!Spec

\* All calls come to an end: nobody is left in the queue, asleep, or unanswered.
Settles == <>[]\A c \in Caller : call[c].pc \in {"idle", "over", "broken"}
=============================================================================
