------------------------------ MODULE FollowUps ------------------------------
(***************************************************************************)
(* Follow-up reminders: services/followUps.ts and services/digest.ts.      *)
(*                                                                         *)
(* A send that expects a reply creates a reminder on its thread.  The      *)
(* check resolves reminders whose thread has heard back, triggers those    *)
(* that came due, and mails the user a digest; the user dismisses and      *)
(* snoozes.  Checks are not serialised: one runs every quarter of an hour  *)
(* on the followup queue, and every delta sync that wrote mail runs one of *)
(* its own (deltaSync.ts), so the awaits of several checks, of sends and   *)
(* of the user's requests interleave.                                      *)
(*                                                                         *)
(* One user.  The instant each check reads as its "now", each sender's     *)
(* "now" and the row's database timestamp are kept apart, as in the code.  *)
(***************************************************************************)
EXTENDS Integers, FiniteSets

CONSTANTS
  Reminder,  \* the rows there may be
  Thread,
  NoThread,  \* "nothing", for an idle sender
  Sender,    \* sends that just succeeded and go on to create a reminder
  Checker,   \* runs of the check that may overlap
  Days,      \* the values of UserSettings.followUpDays
  SnoozeDays,\* the lengths of the snoozes the user asks for
  Grace,     \* the minute of clock skew a reply is allowed
  Batch,     \* CHECK_BATCH
  Items,     \* MAX_ITEMS of one digest
  Horizon,   \* the last instant of the model's clock
  MaxFaults  \* bound on the failed calls and crashes of one behaviour

ASSUME FollowUpAssumption ==
  /\ NoThread \notin Thread
  /\ Days \subseteq Nat /\ SnoozeDays \subseteq Nat /\ Grace \in Nat /\ Horizon \in Nat
  /\ Batch \in Nat \ {0} /\ Items \in Nat \ {0}
  /\ MaxFaults \in Nat

VARIABLES
  now,
  inbound,      \* when the inbound messages stored on each thread were sent
  gone,         \* threads deleted, with the reminders on them
  status,       \* FollowUpReminder.status; "NONE" before, "DELETED" after
  thread,       \* FollowUpReminder.threadId
  createdAt, dueAt, snoozedUntil, resolvedAt,
  stamped,      \* rows with a digestSentAt
  sending,      \* the thread on which a sender found no open reminder
  sentAt,       \* the "now" of each sender
  pc,           \* where each check is
  asOf,         \* its "now"
  todo,         \* the rows of its snapshot it has yet to look at
  seen,         \* the statuses in that snapshot
  cur,          \* the rows it is acting on: one, or those of its digest
  found,        \* when the reply it is about to record was sent
  touched,      \* rows it saw that are waiting for the user
  heard,        \* auxiliary: snapshot rows already answered when it began
  failed,       \* auxiliary: snapshot rows whose check threw
  mailed,       \* auxiliary: digests naming each row since its last snooze
  faults

rowVars == <<status, thread, createdAt, dueAt, snoozedUntil, resolvedAt, stamped>>
senderVars == <<sending, sentAt>>
checkVars == <<pc, asOf, todo, seen, cur, found, touched, heard, failed>>
envVars == <<now, inbound, gone>>
vars == <<rowVars, senderVars, checkVars, envVars, mailed, faults>>

Open == {"PENDING", "TRIGGERED", "SNOOZED"}
Closed == {"RESOLVED", "DISMISSED"}
Status == Open \cup Closed \cup {"NONE", "DELETED"}
Time == 0..Horizon
Never == 0 - 1

TypeOK ==
  /\ now \in Time
  /\ inbound \in [Thread -> SUBSET Time] /\ gone \subseteq Thread
  /\ status \in [Reminder -> Status]
  /\ thread \in [Reminder -> Thread \cup {NoThread}]
  /\ createdAt \in [Reminder -> Time] /\ dueAt \in [Reminder -> Nat]
  /\ snoozedUntil \in [Reminder -> Nat \cup {Never}]
  /\ resolvedAt \in [Reminder -> Time \cup {Never}]
  /\ stamped \subseteq Reminder
  /\ sending \in [Sender -> Thread \cup {NoThread}]
  /\ sentAt \in [Sender -> Time]
  /\ pc \in [Checker -> {"idle", "examine", "resolve", "trigger", "digest",
                         "mail", "mark"}]
  /\ asOf \in [Checker -> Time]
  /\ todo \in [Checker -> SUBSET Reminder]
  /\ seen \in [Checker -> [Reminder -> Status]]
  /\ cur \in [Checker -> SUBSET Reminder]
  /\ found \in [Checker -> Time \cup {Never}]
  /\ touched \in [Checker -> SUBSET Reminder]
  /\ heard \in [Checker -> SUBSET Reminder]
  /\ failed \in [Checker -> SUBSET Reminder]
  /\ mailed \in [Reminder -> Nat]
  /\ faults \in 0..MaxFaults

Unseen == [r \in Reminder |-> "NONE"]

Init ==
  /\ now = 0
  /\ inbound = [t \in Thread |-> {}] /\ gone = {}
  /\ status = [r \in Reminder |-> "NONE"]
  /\ thread = [r \in Reminder |-> NoThread]
  /\ createdAt = [r \in Reminder |-> 0] /\ dueAt = [r \in Reminder |-> 0]
  /\ snoozedUntil = [r \in Reminder |-> Never]
  /\ resolvedAt = [r \in Reminder |-> Never]
  /\ stamped = {}
  /\ sending = [s \in Sender |-> NoThread] /\ sentAt = [s \in Sender |-> 0]
  /\ pc = [c \in Checker |-> "idle"] /\ asOf = [c \in Checker |-> 0]
  /\ todo = [c \in Checker |-> {}] /\ seen = [c \in Checker |-> Unseen]
  /\ cur = [c \in Checker |-> {}] /\ found = [c \in Checker |-> Never]
  /\ touched = [c \in Checker |-> {}]
  /\ heard = [c \in Checker |-> {}] /\ failed = [c \in Checker |-> {}]
  /\ mailed = [r \in Reminder |-> 0]
  /\ faults = 0

Fault == faults < MaxFaults /\ faults' = faults + 1

(***************************************************************************)
(* createFollowUpReminder, called after a send (send.ts, schedule.ts).     *)
(***************************************************************************)

OpenOn(t) == {r \in Reminder : thread[r] = t /\ status[r] \in Open}

\* The look for an open reminder on the thread; finding one ends the call.
FindOpen(s, t) ==
  /\ sending[s] = NoThread
  /\ t \notin gone /\ OpenOn(t) = {}
  /\ sending' = [sending EXCEPT ![s] = t]
  /\ sentAt' = [sentAt EXCEPT ![s] = now]
  /\ UNCHANGED <<rowVars, checkVars, envVars, mailed, faults>>

\* The insert.  Nothing in the schema forbids a second row on the thread; a
\* thread deleted meanwhile does, and the caller swallows that and any error.
CreateRow(s) ==
  /\ sending[s] # NoThread
  /\ \/ /\ sending[s] \notin gone
        /\ \E r \in Reminder, d \in Days :
             /\ status[r] = "NONE"
             /\ status' = [status EXCEPT ![r] = "PENDING"]
             /\ thread' = [thread EXCEPT ![r] = sending[s]]
             /\ createdAt' = [createdAt EXCEPT ![r] = now]
             /\ dueAt' = [dueAt EXCEPT ![r] = sentAt[s] + d]
        /\ UNCHANGED faults
     \/ /\ \/ sending[s] \in gone /\ UNCHANGED faults
           \/ Fault
        /\ UNCHANGED <<status, thread, createdAt, dueAt>>
  /\ sending' = [sending EXCEPT ![s] = NoThread]
  /\ sentAt' = [sentAt EXCEPT ![s] = 0]
  /\ UNCHANGED <<snoozedUntil, resolvedAt, stamped, checkVars, envVars, mailed>>

(***************************************************************************)
(* The user's requests.                                                    *)
(***************************************************************************)

Exists(r) == status[r] \notin {"NONE", "DELETED"}

\* dismissReminder: conditional on not being dismissed already.
Dismiss(r) ==
  /\ Exists(r) /\ status[r] # "DISMISSED"
  /\ status' = [status EXCEPT ![r] = "DISMISSED"]
  /\ resolvedAt' = [resolvedAt EXCEPT ![r] = now]
  /\ UNCHANGED <<thread, createdAt, dueAt, snoozedUntil, stamped, senderVars,
                 checkVars, envVars, mailed, faults>>

\* snoozeReminder: by id, whatever the status.
Snooze(r, d) ==
  /\ Exists(r)
  /\ status' = [status EXCEPT ![r] = "SNOOZED"]
  /\ snoozedUntil' = [snoozedUntil EXCEPT ![r] = now + d]
  /\ stamped' = stamped \ {r}
  /\ mailed' = [mailed EXCEPT ![r] = 0]
  /\ UNCHANGED <<thread, createdAt, dueAt, resolvedAt, senderVars, checkVars,
                 envVars, faults>>

(***************************************************************************)
(* runFollowUpCheck, one step per await.                                   *)
(***************************************************************************)

\* Mutant of RepliesTo: any inbound message counts, however old.
AnyInbound(r) == inbound[thread[r]]

\* The inbound messages that count as the reply a reminder waits for.
RepliesTo(r) == {t \in inbound[thread[r]] : t >= createdAt[r] - Grace}

\* The one the query returns, which orders them by sentAt.
FirstReplyTo(r) == {t \in RepliesTo(r) : \A u \in RepliesTo(r) : t <= u}

\* The n earliest-due of the rows in S; ties fall either way.
Earliest(S, n) ==
  {T \in SUBSET S :
     /\ Cardinality(T) <= n
     /\ Cardinality(T) = n \/ T = S
     /\ \A r \in T, q \in S \ T : dueAt[r] <= dueAt[q]}

Goto(c, step) == pc' = [pc EXCEPT ![c] = step]

GoIdle(c) ==
  /\ Goto(c, "idle")
  /\ asOf' = [asOf EXCEPT ![c] = 0]
  /\ todo' = [todo EXCEPT ![c] = {}]
  /\ seen' = [seen EXCEPT ![c] = Unseen]
  /\ cur' = [cur EXCEPT ![c] = {}]
  /\ found' = [found EXCEPT ![c] = Never]
  /\ touched' = [touched EXCEPT ![c] = {}]
  /\ heard' = [heard EXCEPT ![c] = {}]
  /\ failed' = [failed EXCEPT ![c] = {}]

\* The rows in a snapshot have these statuses.
Snapshot(c, from) ==
  /\ pc[c] = "idle"
  /\ LET open == {r \in Reminder : status[r] \in from} IN
       /\ open # {}
       /\ \E T \in Earliest(open, Batch) :
            /\ todo' = [todo EXCEPT ![c] = T]
            /\ heard' = [heard EXCEPT ![c] = {r \in T : RepliesTo(r) # {}}]
            /\ seen' = [seen EXCEPT ![c] =
                          [r \in Reminder |-> IF r \in T THEN status[r] ELSE "NONE"]]
  /\ asOf' = [asOf EXCEPT ![c] = now]
  /\ Goto(c, "examine")
  /\ UNCHANGED <<rowVars, senderVars, cur, found, touched, failed, envVars,
                 mailed, faults>>

\* Mutants of Begin: rows already shown to the user, or rows not shown yet,
\* are no longer looked at.
BeginUntriggered(c) == Snapshot(c, {"PENDING", "SNOOZED"})
BeginTriggered(c) == Snapshot(c, {"TRIGGERED", "SNOOZED"})

\* The query over open reminders, Batch at a time.
Begin(c) == Snapshot(c, Open)

\* What the loop does next with a row it found no reply for.
Verdict(c, r) ==
  IF seen[c][r] = "PENDING" /\ dueAt[r] <= asOf[c] THEN "trigger" ELSE "examine"

\* The loop body is over for row r.
Done(c, r) ==
  /\ todo' = [todo EXCEPT ![c] = @ \ {r}]
  /\ cur' = [cur EXCEPT ![c] = {}]
  /\ found' = [found EXCEPT ![c] = Never]
  /\ Goto(c, "examine")

\* An error in the loop body is logged; the loop goes on with the next row.
Skip(c, r) ==
  /\ Fault
  /\ Done(c, r)
  /\ failed' = [failed EXCEPT ![c] = @ \cup {r}]
  /\ UNCHANGED <<status, resolvedAt, touched>>

Upcoming(c, r) == r \in todo[c] /\ \A q \in todo[c] : dueAt[r] <= dueAt[q]

\* Mutant of Look: trigger first, resolve at the next check.
LookDueFirst(c) ==
  /\ pc[c] = "examine"
  /\ \E r \in Reminder :
       /\ Upcoming(c, r)
       /\ \/ /\ Verdict(c, r) = "trigger"
             /\ Goto(c, "trigger")
             /\ cur' = [cur EXCEPT ![c] = {r}]
             /\ UNCHANGED <<todo, found>>
          \/ /\ Verdict(c, r) # "trigger" /\ RepliesTo(r) # {}
             /\ Goto(c, "resolve")
             /\ cur' = [cur EXCEPT ![c] = {r}]
             /\ \E at \in FirstReplyTo(r) : found' = [found EXCEPT ![c] = at]
             /\ UNCHANGED todo
          \/ /\ Verdict(c, r) # "trigger" /\ RepliesTo(r) = {}
             /\ Done(c, r)
  /\ UNCHANGED <<rowVars, senderVars, asOf, seen, touched, heard, failed,
                 envVars, mailed, faults>>

\* The look for a reply: resolve if there is one, else trigger if due, else
\* leave the row, which counts as waiting if it was triggered before.
Look(c) ==
  /\ pc[c] = "examine"
  /\ \E r \in Reminder :
       /\ Upcoming(c, r)
       /\ \/ /\ RepliesTo(r) # {}
             /\ Goto(c, "resolve")
             /\ cur' = [cur EXCEPT ![c] = {r}]
             /\ \E at \in FirstReplyTo(r) : found' = [found EXCEPT ![c] = at]
             /\ UNCHANGED <<todo, touched, failed, faults>>
          \/ /\ RepliesTo(r) = {} /\ Verdict(c, r) = "trigger"
             /\ Goto(c, "trigger")
             /\ cur' = [cur EXCEPT ![c] = {r}]
             /\ UNCHANGED <<todo, found, touched, failed, faults>>
          \/ /\ RepliesTo(r) = {} /\ Verdict(c, r) = "examine"
             /\ Done(c, r)
             /\ touched' = [touched EXCEPT
                             ![c] = @ \cup (IF seen[c][r] = "TRIGGERED" THEN {r} ELSE {})]
             /\ UNCHANGED <<failed, faults>>
          \/ Skip(c, r)
  /\ UNCHANGED <<rowVars, senderVars, asOf, seen, heard, envVars, mailed>>

\* The conditional update to RESOLVED.
Resolve(c) ==
  /\ pc[c] = "resolve"
  /\ \E r \in cur[c] :
       \/ /\ IF status[r] \in Open
               THEN /\ status' = [status EXCEPT ![r] = "RESOLVED"]
                    /\ resolvedAt' = [resolvedAt EXCEPT ![r] = found[c]]
               ELSE UNCHANGED <<status, resolvedAt>>
          /\ Done(c, r)
          /\ UNCHANGED <<touched, failed, faults>>
       \/ Skip(c, r)
  /\ UNCHANGED <<thread, createdAt, dueAt, snoozedUntil, stamped, senderVars,
                 asOf, seen, heard, envVars, mailed>>

\* Mutant of Trigger: the update names the row by id only.
TriggerById(c) ==
  /\ pc[c] = "trigger"
  /\ \E r \in cur[c] :
       /\ status' = [status EXCEPT ![r] = IF Exists(r) THEN "TRIGGERED" ELSE @]
       /\ touched' = [touched EXCEPT ![c] = @ \cup {r}]
       /\ Done(c, r)
  /\ UNCHANGED <<thread, createdAt, dueAt, snoozedUntil, resolvedAt, stamped,
                 senderVars, asOf, seen, heard, failed, envVars, mailed, faults>>

\* The conditional update to TRIGGERED.
Trigger(c) ==
  /\ pc[c] = "trigger"
  /\ \E r \in cur[c] :
       \/ /\ status[r] = "PENDING"
          /\ status' = [status EXCEPT ![r] = "TRIGGERED"]
          /\ touched' = [touched EXCEPT ![c] = @ \cup {r}]
          /\ Done(c, r)
          /\ UNCHANGED <<resolvedAt, failed, faults>>
       \/ /\ status[r] # "PENDING"
          /\ Done(c, r)
          /\ UNCHANGED <<status, resolvedAt, touched, failed, faults>>
       \/ Skip(c, r)
  /\ UNCHANGED <<thread, createdAt, dueAt, snoozedUntil, stamped, senderVars,
                 asOf, seen, heard, envVars, mailed>>

\* The loop is over: a digest for the user if anything is waiting.
Finish(c) ==
  /\ pc[c] = "examine" /\ todo[c] = {}
  /\ \/ /\ touched[c] # {}
        /\ Goto(c, "digest")
        /\ UNCHANGED <<asOf, todo, seen, cur, found, touched, heard, failed>>
     \/ touched[c] = {} /\ GoIdle(c)
  /\ UNCHANGED <<rowVars, senderVars, envVars, mailed, faults>>

(***************************************************************************)
(* sendFollowUpDigest.                                                     *)
(***************************************************************************)

\* The rows a digest names.
Overdue(c) ==
  {r \in Reminder :
     /\ status[r] = "TRIGGERED" /\ dueAt[r] <= asOf[c]
     /\ snoozedUntil[r] = Never \/ snoozedUntil[r] <= asOf[c]}

\* Mutant of DigestRead: rows already named are named again.
DigestReadAll(c) ==
  /\ pc[c] = "digest"
  /\ Overdue(c) # {}
  /\ \E T \in Earliest(Overdue(c), Items) : cur' = [cur EXCEPT ![c] = T]
  /\ Goto(c, "mail")
  /\ UNCHANGED <<rowVars, senderVars, asOf, todo, seen, found, touched, heard,
                 failed, envVars, mailed, faults>>

\* The Items earliest of them that no digest named; no such row, no opt-in, no
\* address or an error, and there is no digest.
DigestRead(c) ==
  /\ pc[c] = "digest"
  /\ \/ /\ Overdue(c) \ stamped # {}
        /\ \E T \in Earliest(Overdue(c) \ stamped, Items) :
             cur' = [cur EXCEPT ![c] = T]
        /\ Goto(c, "mail")
        /\ UNCHANGED <<asOf, todo, seen, found, touched, heard, failed>>
     \/ GoIdle(c)
  /\ UNCHANGED <<rowVars, senderVars, envVars, mailed, faults>>

\* The transport accepts the digest, or refuses it; or accepts it, and the
\* answer is lost.
DigestMail(c) ==
  /\ pc[c] = "mail"
  /\ \/ /\ mailed' = [r \in Reminder |-> mailed[r] + (IF r \in cur[c] THEN 1 ELSE 0)]
        /\ \/ /\ Goto(c, "mark")
              /\ UNCHANGED <<asOf, todo, seen, cur, found, touched, heard,
                             failed, faults>>
           \/ Fault /\ GoIdle(c)
     \/ GoIdle(c) /\ UNCHANGED <<mailed, faults>>
  /\ UNCHANGED <<rowVars, senderVars, envVars>>

\* digestSentAt, by id.
DigestMark(c) ==
  /\ pc[c] = "mark"
  /\ \/ stamped' = stamped \cup {r \in cur[c] : Exists(r)} /\ UNCHANGED faults
     \/ Fault /\ UNCHANGED stamped
  /\ GoIdle(c)
  /\ UNCHANGED <<status, thread, createdAt, dueAt, snoozedUntil, resolvedAt,
                 senderVars, envVars, mailed>>

\* The process running the check dies.
Crash(c) ==
  /\ pc[c] # "idle"
  /\ Fault
  /\ GoIdle(c)
  /\ UNCHANGED <<rowVars, senderVars, envVars, mailed>>

(***************************************************************************)
(* The environment.                                                        *)
(***************************************************************************)

Tick ==
  /\ now < Horizon
  /\ now' = now + 1
  /\ UNCHANGED <<rowVars, senderVars, checkVars, inbound, gone, mailed, faults>>

\* A sync stores an inbound message, some time after it was sent.
StoreInbound(t, at) ==
  /\ t \notin gone /\ at <= now
  /\ inbound' = [inbound EXCEPT ![t] = @ \cup {at}]
  /\ UNCHANGED <<rowVars, senderVars, checkVars, now, gone, mailed, faults>>

\* A thread goes (with its mailbox, or provider-side) and its reminders with it.
DeleteThread(t) ==
  /\ gone' = gone \cup {t}
  /\ status' = [r \in Reminder |-> IF thread[r] = t THEN "DELETED" ELSE status[r]]
  /\ UNCHANGED <<thread, createdAt, dueAt, snoozedUntil, resolvedAt, stamped,
                 senderVars, checkVars, now, inbound, mailed, faults>>

(***************************************************************************)
(* The specification.                                                      *)
(***************************************************************************)

Check(c) ==
  \/ Begin(c)
  \/ Look(c)
  \/ Resolve(c)
  \/ Trigger(c)
  \/ Finish(c)
  \/ DigestRead(c)
  \/ DigestMail(c)
  \/ DigestMark(c)

Next ==
  \/ \E s \in Sender, t \in Thread : FindOpen(s, t)
  \/ \E s \in Sender : CreateRow(s)
  \/ \E r \in Reminder : Dismiss(r)
  \/ \E r \in Reminder, d \in SnoozeDays : Snooze(r, d)
  \/ \E c \in Checker : Check(c)
  \/ \E c \in Checker : Crash(c)
  \/ Tick
  \/ \E t \in Thread, at \in Time : StoreInbound(t, at)
  \/ \E t \in Thread : DeleteThread(t)

Spec == Init /\ [][Next]_vars

\* The queue keeps running checks and the clock advances; users, senders and
\* faults are not fair.
FairSpec == Spec /\ WF_vars(Tick) /\ \A c \in Checker : WF_vars(Check(c))

(***************************************************************************)
(* Properties.                                                             *)
(***************************************************************************)

\* A reminder is resolved only by an inbound message on its own thread, sent
\* no earlier than the grace before the reminder was created, whatever the
\* user and other checks did to the row since that message was looked up.
ResolvedByReply ==
  \A r \in Reminder :
    status[r] = "RESOLVED" =>
      /\ resolvedAt[r] \in inbound[thread[r]]
      /\ resolvedAt[r] >= createdAt[r] - Grace

\* The snapshot rows a check is done with, without an error, whose reply was
\* stored before the check began.
Heard(c) == heard[c] \ (todo[c] \cup failed[c])

\* "Resolve first, then trigger": a check never mails the user about a row it
\* looked at whose reply was already stored when it began, and neither it nor
\* an overlapping check leaves such a row pending or triggered.
Spares(c) ==
  /\ pc[c] \in {"mail", "mark"} => cur[c] \cap Heard(c) = {}
  /\ \A r \in Heard(c) : status[r] \notin {"PENDING", "TRIGGERED"}

NoNagging == \A c \in Checker : Spares(c)

\* The decisions of the user and of earlier checks stand against a check that
\* runs on a stale snapshot: only the user's own requests (and the deletion of
\* the thread) change a closed reminder, and a snoozed one is never triggered.
DecisionsStand ==
  [][\A r \in Reminder :
       /\ status[r] = "RESOLVED" =>
            status'[r] \in {"RESOLVED", "DISMISSED", "SNOOZED", "DELETED"}
       /\ status[r] = "DISMISSED" => status'[r] \in {"DISMISSED", "SNOOZED", "DELETED"}
       /\ status[r] = "SNOOZED" => status'[r] # "TRIGGERED"]_vars

\* The inductive invariant behind ResolvedByReply and NoNagging: what each
\* step of a check knows about the row it is acting on.
RowOfCheck(c) ==
  /\ pc[c] \in {"resolve", "trigger"} => \E r \in todo[c] : cur[c] = {r}
  /\ \A r \in todo[c] \cup heard[c] : status[r] # "NONE"
  /\ \A r \in heard[c] : RepliesTo(r) # {}
  /\ pc[c] = "resolve" => \A r \in cur[c] : found[c] \in RepliesTo(r)
  /\ pc[c] = "trigger" => cur[c] \cap heard[c] = {}

ReminderInv ==
  /\ TypeOK
  /\ \A r \in Reminder : status[r] # "NONE" => thread[r] \in Thread
  /\ \A c \in Checker : RowOfCheck(c)
  /\ ResolvedByReply
  /\ NoNagging

\* A digest names a reminder again only as often as there are overlapping
\* checks and failures to blame (digest.ts, "repeats it once").
RepeatsBounded ==
  \A r \in Reminder : mailed[r] <= Cardinality(Checker) + faults

\* A reminder whose thread heard back does not stay open for ever.
AnsweredCloses ==
  \A r \in Reminder :
    status[r] \in Open /\ RepliesTo(r) # {} ~>
      status[r] \notin Open \/ RepliesTo(r) = {}

\* A pending reminder that is due does not stay pending.
DueSurfaces ==
  \A r \in Reminder :
    status[r] = "PENDING" /\ dueAt[r] <= now ~> status[r] # "PENDING"

\* "Terminal - nothing re-opens a dismissed reminder" (followUps.ts:211).
DismissedIsTerminal ==
  [][\A r \in Reminder :
       status[r] = "DISMISSED" => status'[r] \in {"DISMISSED", "DELETED"}]_vars

\* A thread has at most one open reminder ("refuses to stack them", send.ts:322).
OneOpenPerThread == \A t \in Thread : Cardinality(OpenOn(t)) <= 1

\* "A snooze un-triggers it, so the next digest treats it as new again"
\* (followUps.ts:269): the digest reads triggered rows only, so a reminder whose
\* snooze is over does not stay snoozed for ever.
SnoozeEnds ==
  \A r \in Reminder :
    status[r] = "SNOOZED" /\ snoozedUntil[r] <= now ~> status[r] # "SNOOZED"

\* "One row is mailed once" (digest.ts:20), as long as nothing fails.
MailedOnce == \A r \in Reminder : mailed[r] <= 1 + faults
=============================================================================
