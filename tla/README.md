# Verification of Inbox Copilot

TLA+ models of the stateful parts of Inbox Copilot, TLC runs that check them on
small instances, and TLAPS proofs that hold for instances of every size. The
backend is a TypeScript API and its queue workers (`src/apps/api/src`, below
written without that prefix), over Postgres (Prisma), Redis (BullMQ, locks,
token buckets), Gmail and an AI provider. What makes it hard is that almost
nothing happens in one step: every `await` lets another request, job, sweep or
provider event in, every job may run twice, and every process may be stopped
between a side effect and the row that records it.

Run, in this directory, `tlasany M.tla`, `tlc -config X.cfg MCxxx` (the runs are
listed below) and `tlapm XxxProofs.tla`.

## 1. Inventory

### Scheduled send: `services/schedule.ts`, `lib/queues.ts`, `queueWorkers.ts`
- State: the `ScheduledEmail` row (status, instant, wall time and zone,
  attempts), the job with its id in the schedule queue, the worker's progress.
- Operations: schedule a reply or a message, cancel, run (read, re-resolve the
  wall time, claim, send, record, set a reminder), mark failed, sweep.
- Interacts with the queue (delays, stalls), the token manager, Gmail, the
  reminders, and the mailbox lifecycle (a disconnect deletes its rows).
- Hard: a redelivered job, the sweeper's job and a cancel meet on one row; a
  send's outcome may be unknown; the trigger may be lost; zone rules change;
  a wall time may not exist, or exist twice.
- Correct: at most one delivery; a truthful final status; never early; every
  due row is eventually claimed; it implements an outbox (`Outbox`).

### Follow-up reminders and the digest: `services/followUps.ts`, `services/digest.ts`
- State: the `FollowUpReminder` row, its digest stamp; each check's snapshot.
- Operations: create after a send, snooze, dismiss; the check (resolve what was
  answered, trigger what is due), the digest mail and its mark.
- Interacts with both sends, and with the delta sync, which runs a check of its
  own next to the quarter-hourly one.
- Hard: stale snapshots, checks that overlap, a failure after the mail went out,
  a batch that is full.
- Correct: a decision of the user is never undone by a check; only a reply
  resolves; nobody is nagged about an answered thread; repeats are bounded;
  answered reminders close and due ones surface.

### Mail sync: `services/sync.ts`, `services/deltaSync.ts`, `services/watch.ts`, `routes/webhooks.ts`, `providers/gmail/client.ts`
- State: `MailAccount.syncStatus`, `syncCursor`, the checkpoint
  (`backfillCursor`, `backfillPageToken`), the stored threads and messages, one
  backfill and one delta job per mailbox, Gmail's history.
- Operations: start and run a backfill (list, fetch, persist, checkpoint), run a
  delta (history, fetch, persist, advance), the push webhook, the hourly keeper.
- Hard: the cursor vouches for rows written by other statements; deltas and
  backfills overlap; a resumed backfill; expired history; lost, late and repeated
  notifications; an abort at a deploy; a revoked grant in the middle of a run.
- Correct: the cursor never passes a message that is not stored; the copy catches
  up although notifications are lost; an expired cursor leads to a backfill.

### Token manager and mailbox lifecycle: `providers/tokenManager.ts`, `lib/mutex.ts`, `services/mailAccounts.ts`, `services/mailAccountEvents.ts`, `lib/oauthState.ts`
- State: the encrypted tokens and their expiry, a Redis lock with a time to live,
  the one-use OAuth state, the mailbox rows and the audit trail.
- Operations: get a token (refresh under the lock, re-reading inside), mark
  revoked, revoke the grant; connect, complete, disconnect.
- Hard: a lock that expires while its holder is still at the provider; a rotated
  refresh token overwritten; two consent screens completing at once; a disconnect
  under running jobs.
- Correct: one refresh of a mailbox at a time, or a harmless second one; an OAuth state is
  used once; the audit row and the change it records exist together.

### AI pipeline: `services/ai/*`
- State: classifications, verdicts and summaries on messages and threads, the
  caches, the daily ledger, one enrich job per message, the sweep's position, the
  writing-style profile.
- Operations: enrich (classify, assess, summarize under a lock), sweep, recompute,
  style, translate, draft a reply, compose.
- Interacts with the sync (which queues its jobs), the queue, the settings, the
  model providers, and the phishing rules.
- Hard: the check of the daily cap and its spending are far apart; a message that
  committed but was never queued; a message that keeps failing; a stale summary.
- Correct: everything is classified, assessed and summarized in the end; the cap
  is passed by less than the number of workers; no call is paid for twice; a prompt
  keeps its newest mail and its fence, and an answer is paid for before it is judged.

### The Gmail gateway: `lib/rateLimiter.ts`, `lib/retry.ts`, `queueWorkers.ts`
- State: the token bucket and its queue of waiters; the attempt of each call; the
  lanes of a page; the abort signal registered under each job's id.
- Operations: acquire, drain, request, retry after a delay, abort, start and end
  an attempt, report a stall, shut down.
- Hard: a lane fails while its siblings are queued, asleep or at Gmail; a stall is
  reported late; a deploy.
- Correct: the quota is never exceeded in a window; waiters are served in order and
  an aborted one leaves no hole; one attempt talks; a delay is waited for.

### Immediate send: `services/send.ts`, `routes/reply.ts`, `ReplyComposer.tsx`, `lib/apiClient.ts`
- State: the composer's box, drafts, questions and confirmation; the handler of
  each send; the reminder and the feedback on the draft.
- Hard: drafts that arrive while the reader writes; a proxy that gives up before the
  handler; a mail that left and a reminder that failed; the page showing an older
  parent than the one that is answered.
- Correct: one mail per confirmation, in the words on the screen; the recipients and
  the chain are those of the message answered; failures are true.

### Security analysis: `services/security/*`
- Findings (headers, links, look-alike domains, sender history), their weights, the
  floor under the model's reading, the roll-up to a thread, an appeal, sanitizing.
- Correct: the model cannot talk a finding away, nor be the only one believed; the
  list and the banner agree; opening a message discloses nothing.

### Tenancy, sessions, demo, HTTP: `packages/db/src/tenancy.ts`, `middleware/auth.ts`, `middleware/demo.ts`, `services/demo/*`, the proxy
- Decisions without state of their own: the rewriting of every query, who a request
  is from, what a demo visit may reach, what an error looks like.
- Correct: no row of another user is reached, but by what is not narrowed; no layer
  forgotten alone lets the demo send mail; rations hold.

### Reading: `providers/gmail/map.ts`, `services/threads.ts`, `gmail/mime.ts`, the thread list
- From a MIME tree to a row, from rows to pages, from a text to a message.

### The rest
Shared schemas, developer tools and fixtures: data, validation and I/O.

`PROJECT.json` lists every component with its status and every hazard at its line.

## 2. Plan

Done, in this order: `JobQueue`, `Outbox`, `ScheduledSend`; `FollowUps`; `MailSync`;
`TokenVault`; `Enrichment`; `Gateway` with `Bucket`; `ReplyDesk` with `Addressing`; the pure parts
(`Verdict`, `Evidence`, `Access`, `Inbox`, `Markup`, `WallTime`, `Prompting`); and the
proofs of every component with state, of the filter, the tokens and the rations of
`Access`, and of the pages of `Inbox`.

Left: a composition of `MailSync`'s notifications with `FollowUps`' inline check, and
of `TokenVault`'s disconnect with the runs of `MailSync`; appeals and the reset of a
demo mailbox as actions. To prove: the exact condition of `BannerStands`, as
`OneOpenUnlessRaced` gives it for reminders, and of `NoGhosts`.

Every module keeps to what the proofs need: constants with named assumptions,
one action per operation, and no RECURSIVE operators but in `Prompting`, whose
conversion of schemas recurses over a tree, and which has no theorem.

## 3. Modules

### `JobQueue` (external: BullMQ)
What this repository relies on: one job per id; delayed, waiting, active and
finished jobs; an id that stays occupied after its job finished; the worker's
lock, whose lapse hands the job to another worker while the first may go on
(`Stall`); retries after a backoff (`Retry`); a Redis that loses a job. The
backoff of a retry is not timed: the job becomes takeable again at some point.
`JobQueueProofs` has the types of each operation, for the modules that use them.

### `ScheduledSend` and `Outbox`
`ScheduledSend` has one action per step between two awaits of
`schedule.ts`. A row's `status`, `sendAt`, `wall` and `attempts` are its columns;
`pc`, `task`, `readAt` are a worker's place in `runScheduledSend`. The wall time
is re-resolved by adding `shift`, which a deploy with new zone rules changes.
`Send` may end in an error after the message went out, as an HTTP call may; a
send aborted by a shutdown is this case. `markFailed` has no condition on the
status, in the model as in the code: a row whose update to SENT was stored, but whose
answer was lost, becomes FAILED although the mail went out (`Record`). `Outbox` says
what a user is promised, and allows that one change of a settled mail;
`Promise == INSTANCE Outbox` maps a row's status to a mail's phase and
`attempts > 0` to "committed". A row that a crash leaves in SENDING stays so: the
code prefers that to sending twice (`schedule.ts:48`).
Not modelled: the demo's rows, the text of the mail, rows without a wall time.

`WallTime` is the conversion itself: the instant of a wall time in a zone whose
clocks change once, by a passage that corrects the guess twice, and the requests
that are refused. The zone database is a zone's two offsets and its change.

### `FollowUps`
The check is split where the code awaits: `Begin` (snapshot of a batch), `Look`
(the query for a reply to one row), `Resolve`, `Trigger`, then `DigestRead`,
`DigestMail`, `DigestMark`. `seen` is the status a check read and may go stale.
`heard`, `failed` and `mailed` are auxiliary. The user's own actions name a row by
id. One user; deleted messages are not modelled (threads are).

### `MailSync`
One mailbox. `history` is Gmail's: each entry is an arrival, or a deletion of an
earlier message, and a message is named by the history id of its arrival. `run[p]`
is the progress of each process (workers, users asking for a backfill, keepers):
its place and what it has read. The page token is the set of threads it leaves to
list. A read at the provider and the write that follows are one step where no
other process can tell; a page's threads are fetched at one instant. `getJob`,
`getState`, `remove` and `add` are one step (`Enqueue`). All mail is within the
90 days; push is configured; the mailbox is Gmail's and its profile has a history
id; a thread that was emptied is not used again. Enrichment is left out, and the
follow-up check a delta runs is in `FollowUps`. A run can be aborted: its signal is
set (`run[p].aborted`) by a shutdown, or by the listener for the stalled event, which
knows the job and not the run, so it may end the wrong one or come late (`stalled` counts
the reports to come). An aborted delta stops between two threads and moves the cursor as
if it had fetched all (`AbortStalled`, `Shutdown`, `Break`); what it leaves is marked in
`cut`, and `NothingSkipped` is about the other threads. `Faulty` selects the kinds of
faults of an instance, so that each run can state what it tolerates.

### `TokenVault`
One mailbox and its grant. A process is a request or a job that refreshes a token
(`getAccessToken` under `withMutex`), completes a connect (`Consume` to `Create`,
`Update` or `Upsert`) or disconnects (`Disconnect` to `Delete`), one step per
await. `lock` has the values in Redis, one for each row's id: the process whose random
token it is, `"dead"` when nobody is left who would delete it (its holder died, or the
answer to the `SET` that took it was lost), or `"free"`. A refresher of a row that was
deleted meanwhile and one of its successor have different locks and may run together;
that they never present each other's token is part of `Unspent`. A lock runs out under its
holder (`Lapse`), a call fails (`Throw`, with the `finally` of `withMutex`), a
process dies (`Crash`); each is one fault of an instance. The provider's refresh
tokens are `live`; at one that rotates (`rotating`) every use takes the old token
back and gives out the least token that means nothing to anybody, so that a small
set is enough. A mailbox id is never used again. A state that expires is one that
is never consumed; a failed exchange, a second factor or an identity without an
address is the first disjunct of `Exchange`. Revoking a token ends the whole
grant. The calls of `getAccessToken` inside `stopWatch` are ordinary callers.
`lapsed`, `spent`, `exchanged` and `mishap` are auxiliary: who is in the critical
section without a lock, what was taken back, how often a state led to an exchange,
and whether a lock ran out or an answer with new tokens may have been lost.
Not modelled: RECONNECTED events are not counted, the owner of an address at
another user, and what a disconnect does to the other tables.

### `Enrichment`
One thread of one mailbox. A job takes a message through its three stages, one step
per await: the look in the cache with the check of the cap (one step: the settings
and the count are read together, and what matters is that the line in the ledger
comes later), the call with the line it leaves (`Answer`; an answer that is then of
no use is `Throw` after it), the write. `orders` is what a sync or a sweep is about
to queue, so that a process may die in between (`Forget`). A body is named by how
often it changed; its fingerprint is a constant of it. Levels are three: not assessed,
safe, flagged. `summaries` are the thread states with a row. A lock is the state it
is about and its holder, `NoWorker` once that is dead. `Enough` stands for
`needsSummary`; the mailbox is one the sweep visits (`sweep.ts:463`: ACTIVE or
BACKFILLING; while it is neither, what is missing stays so); the sweep's budget is
kept, its limit per user is not. Deleted messages and a thread over the summarizer's
own limits are not modelled.

### `Gateway` and `Bucket`
The bucket, the retries and the lanes of one mailbox and one page of a job. Time is
a number of ticks still to wait: a timer may fire late, never early. The queue of
waiters is the relation `ahead`. `attempt`, `aborted` and `inFlight` are the
attempts of a job, their signals, and the register of `queueWorkers.ts`, under one
id. Which class an error belongs to is an outcome of `Refuse` and `Reject`. A send
is never retried; a scheduled one carries the signal of its job, and may be aborted in
the queue or at Gmail (`AbortSend`, which counts as a fault). A Retry-After binds the
call that got it: its siblings may ask meanwhile, and the HTTP client's own retries are
not modelled. After `Close` the queue hands out no job (BullMQ).
`window` is auxiliary: an observer who starts counting at any moment. `Bucket` says
what callers are promised: credit that grows at every tick, a line that is served
in order, and for each who has paid its own price, once. `Ideal` maps the lazily
refilled bucket to its credit (`Refilled`), the queue to the line, and the callers
that were granted units and have not asked yet to those who have paid (`Paying`).

### `ReplyDesk` and `Addressing`
The composer of one page and `sendReply`. A text is a model value: a draft as it was
offered, words of the reader, or nothing; what is compared is which text is where.
`req[h]` is the handler of one confirmed send, which goes on after the proxy gave up
(`SendFails` with a handler at work). The callbacks of a request run with the closure
of the last render: the query library renews the options of a pending mutation at every
render, so a draft that lands reads the box as it is. `asked` is what the reader saw
when "Send reply" opened the confirmation that is still open: editing closes it
(`Unasked`). `Arrive` changes the newest message under the
open page. What becomes of a scheduled text is `ScheduledSend`'s. `mails`, `acked`
and `seen` are auxiliary. `Addressing` holds the recipients and the references chain.

### `MailSyncProofs`, `GatewayProofs` and the others
See section 5.

### The pure parts
Operators without state, each evaluated by TLC over all inputs of a bounded domain:
the assumptions of an MC module, each with the comment that says what it shows. TLC
evaluates them at the start of the runs named here.

| modules | what they hold | evaluated in |
| --- | --- | --- |
| `Verdict`, `Evidence`, `MCVerdict` | links, headers, domains and look-alikes, edit distance against the number of edits, known correspondents, weights, floor, roll-up, banner, appeal. Tables of names are sampled; Unicode normalization is left out | `enrich_*` |
| `Access`, `MCAccess` | the tenancy filter on every model and operation, sessions and tokens, the routes as a demo visit meets them with any one layer missing, rations, the push webhook, errors, configurations | `vault_safety` |
| `Inbox`, `Markup`, `MCInbox` | a MIME tree to a row, thread fields, the list and its pages while it changes, headers and encoded words, base64, sanitizing, the frame's policy. DOMPurify and the browser are modelled as the code configures them | `sync_*` |
| `WallTime`, `MCScheduledSend` | wall time to instant, by zone, gap and overlap | `send_*` |
| `Prompting`, `MCPrompting` | cuts and fences, routing and prices, the ledger, structured calls, schemas, style, history, translation | `desk_safety` |

What these assumptions record of the code, where it is not what one would expect:

- Wall time: east of Greenwich a time the clocks skip becomes an earlier instant, and
  one they show twice the second, against `lib/timezone.ts:163` and `198`.
- Access: a refused demo request counts, too, so that one visitor's thirty requests
  leave the others none for the hour, against `demo/ai.ts:31`; a condition of the
  caller on the tenant key itself is dropped in silence; the upsert of a model that
  reaches its user through a relation, and creations, are not narrowed.
- Inbox: messages that are an image and nothing else share one content hash; a
  thread that is scored between two pages is missed or comes twice; one trashed
  message hides its thread.
- Markup: an encoded word may be 76 long against `mime.ts:117`, a folded line 79;
  a remote background alone is offered no click, a style alone one that changes
  nothing.
- Verdict: one link that reads as another host reaches SUSPICIOUS by itself, and so
  do silent headers with a first-time sender.
- Prompting: a cut may lengthen a text that is just too long; a body of no text hides
  the snippet; the history of a new message has mail to addresses that contain the
  recipient's; a translation is never shown while the default language is not in
  lower case; a schema without types loses its fields.

## 4. Runs

Bounds are in the cfg; each run finishes in minutes.

| run | what it shows | why its bounds are enough |
| --- | --- | --- |
| `send_faults` | at most one delivery, honest status, exclusive claims, implements `Outbox` | two workers and three faults: a lapsed lock, a crash after the send and a lost answer, of the provider or of the update to SENT, together |
| `send_time` | never early, and every scheduled mail is claimed, cancelled or deleted | a horizon of three instants around the lead, zone rules that move by two, one lost trigger |
| `followups_overlap` | decisions stand, only replies resolve, no nagging, bounded repeats, and the inductive invariant | two checks overlap with a sender, the user and a fault |
| `followups_live` | answered reminders close; due ones surface | one failed check, snoozes at any moment |
| `sync_safety` | `NothingSkipped` with deltas, backfills and one failed, crashed or aborted step; threads that an aborted delta left are exempt | two workers and two threads; a batch of one (so deferral happens) and a page of one (so a backfill has several pages and may resume); three changes: both threads and one more message on a page already committed |
| `sync_live` | the copy catches up with all notifications lost | one thread, two changes, one fault of five kinds, a lapsed lock and the abort it leads to among them |
| `sync_recovery` | no cursor, or an expired one, leads to a backfill, unless the backfill that is going is past its last page when the cursor is cleared (`Lingers`) | two workers, so that a delta and a backfill overlap; an expiry or an abort at any point |
| `vault_safety` | one refresher of a row at a time, locks come back, no token is spent twice, one exchange per state, a trail that accounts for the row | two processes meet at every pair of steps; two states allow a connect to meet a connect, a reconnect and a disconnect, and a deleted row to have a successor; one fault; five tokens are what the row, the grant and two calls can hold at once and one more |
| `enrich_safety` | the cap and the price of an answer | two workers, two messages, a cap of two: both may be in a call at the last unit; settings and days change, and one recompute is forced; a body is stored once (`MaxBody = 1`), the theorems have bodies that change |
| `enrich_live` | no permanent hole | one worker, one message of each direction, a cap that one job exhausts, one fault of six kinds |
| `gateway_safety` | quota, order, one attempt, delays, implements `Bucket` | two attempts of two lanes and a send that costs the whole bucket; a refusal, a stall or an aborted send; windows of up to one tick (the theorem has every length) |
| `desk_safety` | one mail per confirmation, true failures and records, own words leave only as the reader asked to send them | two generations of two drafts, one send, two faults; a second send is in `ReplyDesk_hazards` |

Deadlock is not checked where the system may stop: a time horizon is reached, or
no user, keeper or notification is left.

Further configurations are kept beside these. Each is an instance of the same
specification and is run by hand. TLC stops at the first violation: a file that lists
several properties is run with one of them left in at a time.

| configuration | outcome |
| --- | --- |
| `TokenVault_live` | holds: no lock left behind freezes a mailbox (`UsableAgain`) |
| `Gateway_live` | holds: all calls come to an end (`Settles`) |
| `ScheduledSend_requeue` | `AlwaysTriggered` violated: a corrected send is not re-queued, and waits for the sweeper |
| `FollowUps_hazards` | `OneOpenPerThread` violated: two sends that look before either inserts; `MailedOnce`: two overlapping checks mail twice (`digest.ts:20`); `DismissedIsTerminal`: a snooze re-opens a dismissed row (`followUps.ts:211`) |
| `FollowUps_live` with `SnoozeEnds` | violated: a row snoozed after it was triggered never surfaces again |
| `FollowUps_live` with `Batch = 1` and two threads, `AnsweredCloses` | violated: rows past a full batch starve |
| `MailSync_live` with `Thread = {t1, t2}`, `Batch`, `PageSize` and `Attempts` 1, `Faulty = {}`, `MaxHistory = 3`, `MaxFaults = 0`, `Horizon = 1` | `SyncCatchesUp` violated: a window larger than one run is never finished (`deltaSync.ts:266`) |
| `MailSync_recovery` with `NeverFrozen` for `Recovers` | violated: a delta clears the cursor while a backfill is past its last page; the backfill it asks for is the one that is ending, and the cursor stays empty (`deltaSync.ts:302`, `sync.ts:92`) |
| `MailSync_safety` with `"stall"` in `Faulty` | `NothingSkipped` violated: after a lapsed lock two runs of one backfill share a checkpoint, and one passes a page that the other then resumes behind (`sync.ts:345`) |
| `MailSync_hazards` | `NothingLost` violated: an aborted delta moves its cursor over threads it left (`deltaSync.ts:28`); `NoGhosts`: a backfill steps over a deletion (`deltaSync.ts:202`); `Heeded`: a notification collapses into a delta that cannot see it (`deltaSync.ts:416`); `RevokedStands`: REVOKED is overwritten |
| `MailSync_live` with `Faulty = {"expire", "throw"}` | violated: an expired cursor whose backfill failed is left alone |
| `TokenVault_hazards` | `DropsOnlyDead` violated: `markRevoked` drops the tokens of a reconnect that came in between; `RevokedIsDead`: a grant stored between the revocation and the delete of a disconnect stays alive while the record says revoked |
| `TokenVault_hazards` with `FairSpec`, `State = {s1}`, `MaxKey = 2` and `RotationKeeps` | violated: a row of the previous key version is never opened again (`crypto.ts:13`) |
| `Enrichment_hazards` | `BannerStands` violated: of two roll-ups the older is written last (`phishing.ts:862`); `FlaggedAtCap`: a verdict of the rules alone, at the cap, replaces the model's |
| `Enrichment_live` with `Choices <- SortOrNot` | violated: the placeholder of a message assessed with categories off hides it from the sweep |
| `Gateway_hazards` | `HonoursRetryAfter` violated past the ceiling (`retry.ts:347`); `OnlyLatestTalks`: a late report of a stall aborts the next attempt and leaves the old one (`queueWorkers.ts:78`) |
| `ReplyDesk_hazards` | `SentOnce` violated: a second click after the proxy gave up; `TextsWereConfirmed`: a draft that is picked, or lands, under an open confirmation goes out at one click (`ReplyComposer.tsx:419`); `PickKeepsWords`, `ClearedWasSent`: words written while an answer was under way are lost; `ToWhomShown`: the mail goes to others than the page shows (`send.ts:29`) |

### Fairness
Weak fairness of a running job's own steps (a promise settles), of promotion and
of the recovery of jobs whose worker is dead (BullMQ's timers), of the repeatable
jobs (sweeper, check, keeper, sweep of the AI), of the next day, of time and timers,
and of the expiry of a lock whose holder is dead; strong fairness of taking a waiting
job and of the keeper's next round where the state it needs comes and goes, of a
waiter that gets a free lock, and of the jobs that keep asking for a token. Nothing is
assumed of users, notifications, the provider's history, deploys or faults.

## 5. Proofs

`ScheduledSendProofs`, from `QueueAssumption` and `SendAssumption` only: for any
number of rows, workers, faults and instants. `AtMostOnce` is not inductive: that
a worker about to send is the only one to do so depends on what its claim did.
`SafetyInv` adds, per row, what its status says of `attempts` and `delivered`,
and, per worker, what its place says of the row it runs (a worker between claim
and record runs a row that is SENDING, or SENT when it is about to mark it failed, or
was deleted; no other worker is there).
From `Init => SafetyInv` and `SafetyInv /\ [Next]_vars => SafetyInv'`, proved
action by action after type correctness, follow `SentAtMostOnce`,
`StatusIsHonest`, `ClaimIsExclusive`, `RemindedAfterSend`; the step facts
`SentNeverEarly`; and `Implements`, that every step is one of `Outbox` or a
stutter under the refinement mapping.

`FollowUpsProofs`, from `FollowUpAssumption` only: `RemindersSafe` is the
inductive invariant `ReminderInv` (types, what every check knows of the row it
acts on, and that rows answered before a check began are spared by it); `NeverNags`
and `OnlyRepliesResolve` are its consequences; `DecisionsKept` is an action
property, by the fact that every write of a check is conditional on what it found.
`RepeatsCounted`, for a finite number of checks, counts: a reminder's mails, and the
checks that are about to mail it, are no more than all checks and faults together. A
check that may still mail found the row unmarked; so while it is unmarked each mail
sent is a fault's or a check's that is about to mark it (`Accounted`), and a check is
not in both places. `OneOpenUnlessRaced` is about `OneOpenPerThread`, which the code
does not keep: it holds as long as no two sends are between the look and the insert on
one thread and no closed reminder is snoozed; a sender that looked then finds its thread
as it left it (`LookStands`).

`MailSyncProofs`, from `QueueAssumption` and `SyncAssumption`: `SyncTypes`, and
`CursorNeverSkips`. `NothingSkipped` says nothing of what a run has read and not yet
written. `CursorInv` adds it per worker: whatever did not change since the end of a
run's window is stored, in the page it read, or yet to be fetched (`Progress`); the
same of the checkpoint, for the backfill that resumes it (`Checkpointed`, `Marked`);
and that a cursor that was read is still complete (`Read`). It is not inductive for
every step, and the theorem names the steps it excludes: `ReplacedAlone`, a backfill that
sets or clears the checkpoint does so while no other worker lists for it. Nothing else
is assumed: locks may lapse, runs may be aborted, jobs may be lost and runs may overlap
in every other way. Without `ReplacedAlone` the property fails (`MailSync_safety` with
`"stall"`). What an aborted delta leaves is not claimed: the cursor does pass it
(`NothingLost`, `MailSync_hazards`).
`LocksKeepJobsApart` then shows that a job is run by one worker at a time where no lock
lapses and no job is lost (`Locked`, on the faults of the instance; `LockInv`: a worker
that runs a job holds its lock, and its steps are those of its job), which is all that
`ReplacedAlone` asks: `LockedCursorNeverSkips`.

The same module has the theorems about the list of `Inbox`, for finite sets of rows
with different ids. The filter written for the database is the order of the list
(`FilterIsOrder`), that order is a strict and total one (`ListOrder`), so a row's place
is the number of rows ahead of it, and every place below their number is taken
(`EveryPlace`, from the pigeonhole of the library). `PagesMeet`: the rows at the time of
one request and of the next are arbitrary; a row that is the same in both is on the page
or after its cursor, not both. `CursorsAdvance`: what one cursor leaves behind, the later
ones do. That a reader who pages to the end has seen all needs an induction over the
pages, and stays with the assumptions of `MCInbox`.

`TokenVaultProofs`, from `VaultAssumption` only: `VaultSafe` is the inductive
invariant `VaultInv`. `NeverSpendsTwice` looks local and is not: it rests on the
mutual exclusion (`LockInv`: everybody inside whose lock did not run out has the
lock of its row), on the fact that a token a callback holds is nobody else's yet
(`Unshared`), and on whose a token is and where a spent one can still be found
(`Unspent`: refreshers of different rows have different tokens; a spent one is in the
row only, and only while the process that spent it is about to replace it).
`Accounted` needs `Named`, that a call which writes by id has an id. The lemma
`Effect` says once what each step makes of the call that takes it; the steps of
the five parts of the invariant are proved from it, action by action. The mutual
exclusion (`OneRefresher`), `LocksComeBack`, `TokensSpentOnce`, `StatesUsedOnce`
and `TrailAccounts` are consequences. `DropsOnlyDeadUnlessRaced` is about a property
the code does not have (`TokenVault_hazards`): it holds when no reconnect is stored
while a refresh is at the provider and no lock runs out, because the row of the mailbox
a refresher is at then keeps the token it took there, and no id is given twice (`Known`).

The same module has the theorems about `Access`, from no assumption. `NarrowedReach` is
what an operation reaches once the filter is on it, and `OnlyTheUsersRows` that these are
the only ones that are safe whatever their callers ask. `TheViewerArrives` follows a
viewer through the token of the web application to the API; `KindsStayApart` starts from
any token. `RationsHold` counts: the requests of a visit that were granted have
different numbers of earlier ones, all below six.

`EnrichmentProofs`, from `QueueAssumption` and `EnrichAssumption`: the types, and
`CapKept`. Each step bills a call that was under way, begins one while the ledger is
below the cap, or does neither (`CallEffect`); when one begins, no more are under way
than there are workers, and when one is billed, one fewer is. `PaidOnce` is about runs
without faults (a crash or a lapsed lock may well cost a second call): a busy worker
has the job of its message to itself (`Held`), one at a summary the only lock of its
state (`LocksAlone`), so what it found missing stays missing until it has written it
(`News`). The same module has the theorems about `Verdict`, from no assumption: the rules alone
score between 0 and 100 and never say PHISHING; the verdict is at least what they
require and what the model reads, and a damning finding is never talked down; more
findings are never milder; a thread's level is that of its worst message.

`GatewayProofs`, from `GatewayAssumption`: `Quota`, because what was spent in a window
and what could be spent now are together within what a full bucket and the time
brought (`WindowInv`: the refill is lazy, and this is what it preserves); `InOrder`,
because of any two waiters one is ahead of the other (`Lined`); `Honoured`, for delays
within the ceiling, because a call sleeps for at least as long as it was told
(`Patient`) and asks only when it does not sleep; `OneTalks`, because an attempt that
ended is aborted and the one that is going is the one registered (`Attempts`), and no
request of an aborted attempt is out (`Calls`). `ImplementsBucket`: every step is one of
`Bucket` or a stutter. It needs that whoever is ahead of a waiter is in the queue
(`Places`), that nobody enters the bucket who is in it (`Entering`), that one drain serves exactly the head of the line the credit allows, and
that a refill computed late is the sum of those that were due, because nothing is
counted past what fills the bucket (`Capacity <= Full * Rate`).

`ReplyDeskProofs`, from `DeskAssumption`: `Handled` (a request carries what was on the
screen; a mail is the only one of its request, which got past the provider; an
acknowledged request can no longer fail) gives `OneInItsWords`, `FailuresAreTrue` and
`TrueRecords`. `NoWordsUnasked` rests on `Confirmed`: while a confirmation is open, own
words in the box are those it was opened over, since typing closes it and whatever else
changes the box puts a draft there or nothing. `ChainBounded` is about the references
header.

`ScheduledSendProofs` also has the theorems about `WallTime`: a wall time the clocks
show is kept, wherever the change falls, and what becomes of the others on either
side of Greenwich.

Only model-checked: every liveness property (fairness is outside the prover's reach)
and the assumptions of the MC modules. Every invariant and every property of steps of
the runs is proved, `NothingSkipped` and `HonoursRetryAfter` under their conditions. A
theorem whose hypothesis is a property of steps (`[][A]_vars`) is about the behaviours
that take no other; that such behaviours go on was seen with TLC, by taking `Next /\ A`
for the steps of the instance.

## 6. Limits

No lock lapses in `sync_safety`: a lapsed lock may make `NothingSkipped` fail, and `CursorNeverSkips` says on which steps that depends.
Times are measured where a property is about them (`ScheduledSend`, `Gateway`);
elsewhere what depends on order is modelled, and what depends on duration is not.
The clock of a lock is not modelled: a lock may run out at any step of
its holder, which is more than the code allows, so what is proved of it holds for every
time to live. One user, one mailbox or one thread stands for each; what several share
(the tenancy filter, the rations) is in `Access`.

Not modelled: the wording of prompts, the HTTP clients, the zone and key libraries, the
parser and DOMPurify (external); the seeding and reset of the demo, whose rows are data; the
recording of an appeal (one insert); the sign-in, which is a library's; translations and
profiles asked for by two requests at once, each of which calls the model and pays;
shared schemas and developer tools, which hold no state of the system.
