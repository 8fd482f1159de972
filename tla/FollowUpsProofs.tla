--------------------------- MODULE FollowUpsProofs ---------------------------
(***************************************************************************)
(* What FollowUps guarantees for every number of reminders, threads,       *)
(* senders and overlapping checks.  The inductive invariant is             *)
(* ReminderInv.  A step disturbs it in two places: the check that takes    *)
(* it, and the rows every other check knows something about; Grows is what *)
(* those others rely on.                                                   *)
(***************************************************************************)
EXTENDS FollowUps, FiniteSetTheorems, TLAPS

\* What no step takes back: rows stay, replies stay, and a row that is not
\* waiting for its date or its digest never comes to.
Grows ==
  \A r \in Reminder :
    status[r] # "NONE" =>
      /\ status'[r] # "NONE"
      /\ RepliesTo(r) \subseteq RepliesTo(r)'
      /\ status'[r] \in {"PENDING", "TRIGGERED"} =>
           status[r] \in {"PENDING", "TRIGGERED"}

\* The check c is not the one that takes the step.
Untouched(c) ==
  /\ pc'[c] = pc[c] /\ todo'[c] = todo[c] /\ cur'[c] = cur[c]
  /\ found'[c] = found[c] /\ heard'[c] = heard[c] /\ failed'[c] = failed[c]

\* Replies are instants.
LEMMA RepliesType ==
  ASSUME ReminderInv, NEW r \in Reminder, status[r] # "NONE"
  PROVE  RepliesTo(r) \subseteq Time
<1>1. thread[r] \in Thread
  BY DEF ReminderInv
<1>2. inbound[thread[r]] \subseteq Time
  BY <1>1 DEF ReminderInv, TypeOK
<1> QED BY <1>2 DEF RepliesTo

\* A step that neither moves a row to another thread nor drops a message
\* keeps every reply.
LEMMA RepliesKept ==
  ASSUME ReminderInv, UNCHANGED <<inbound, thread, createdAt>>, NEW r \in Reminder
  PROVE  RepliesTo(r)' = RepliesTo(r)
BY DEF RepliesTo

\* Checks that do not take the step keep what they know.
LEMMA OthersKeep ==
  ASSUME ReminderInv, Grows, NEW c \in Checker, Untouched(c)
  PROVE  RowOfCheck(c)' /\ Spares(c)'
<1>1. /\ RowOfCheck(c) /\ Spares(c)
      /\ todo[c] \subseteq Reminder /\ heard[c] \subseteq Reminder
      /\ cur[c] \subseteq Reminder
  BY DEF ReminderInv, NoNagging, TypeOK
<1>2. RowOfCheck(c)'
  <2>1. pc'[c] \in {"resolve", "trigger"} => \E r \in todo'[c] : cur'[c] = {r}
    BY <1>1 DEF RowOfCheck, Untouched
  <2>2. \A r \in todo'[c] \cup heard'[c] : status'[r] # "NONE"
    BY <1>1 DEF RowOfCheck, Untouched, Grows
  <2>3. \A r \in heard'[c] : RepliesTo(r)' # {}
    BY <1>1 DEF RowOfCheck, Untouched, Grows
  <2>4. pc'[c] = "resolve" => \A r \in cur'[c] : found'[c] \in RepliesTo(r)'
    <3> SUFFICES ASSUME pc[c] = "resolve", NEW r \in cur[c]
                 PROVE  found[c] \in RepliesTo(r)'
      BY DEF Untouched
    <3>1. r \in todo[c]
      BY <1>1 DEF RowOfCheck
    <3>2. found[c] \in RepliesTo(r) /\ status[r] # "NONE" /\ r \in Reminder
      BY <1>1, <3>1 DEF RowOfCheck
    <3> QED BY <3>2 DEF Grows
  <2>5. pc'[c] = "trigger" => cur'[c] \cap heard'[c] = {}
    BY <1>1 DEF RowOfCheck, Untouched
  <2> QED BY <2>1, <2>2, <2>3, <2>4, <2>5 DEF RowOfCheck
<1>3. Spares(c)'
  <2>1. Heard(c)' = Heard(c)
    BY DEF Heard, Untouched
  <2>2. \A r \in Heard(c) : r \in Reminder /\ status[r] # "NONE"
    BY <1>1 DEF Heard, RowOfCheck
  <2>3. \A r \in Heard(c) : status'[r] \notin {"PENDING", "TRIGGERED"}
    BY <1>1, <2>2 DEF Spares, Grows
  <2> QED BY <1>1, <2>1, <2>3 DEF Spares, Untouched
<1> QED BY <1>2, <1>3

\* Steps that leave the checks alone keep the types.
LEMMA RequestType ==
  ASSUME ReminderInv,
         \/ \E s \in Sender, t \in Thread : FindOpen(s, t)
         \/ \E s \in Sender : CreateRow(s)
         \/ \E r \in Reminder : Dismiss(r)
         \/ \E r \in Reminder, d \in SnoozeDays : Snooze(r, d)
  PROVE  TypeOK'
<1> USE FollowUpAssumption
<1>t. TypeOK
  BY DEF ReminderInv
<1>1. ASSUME NEW s \in Sender, NEW t \in Thread, FindOpen(s, t)
      PROVE  TypeOK'
  BY <1>t, <1>1 DEF TypeOK, FindOpen, rowVars, checkVars, envVars
<1>2. ASSUME NEW s \in Sender, CreateRow(s)
      PROVE  TypeOK'
  <2>1. /\ now' = now /\ inbound' = inbound /\ gone' = gone
        /\ snoozedUntil' = snoozedUntil /\ resolvedAt' = resolvedAt
        /\ stamped' = stamped /\ mailed' = mailed /\ UNCHANGED checkVars
        /\ sending' = [sending EXCEPT ![s] = NoThread]
        /\ sentAt' = [sentAt EXCEPT ![s] = 0]
    BY <1>2 DEF CreateRow, envVars
  <2>2. sending' \in [Sender -> Thread \cup {NoThread}] /\ sentAt' \in [Sender -> Time]
    BY <1>t, <2>1 DEF TypeOK, Time
  <2>3. /\ status' \in [Reminder -> Status]
        /\ thread' \in [Reminder -> Thread \cup {NoThread}]
        /\ createdAt' \in [Reminder -> Time]
        /\ dueAt' \in [Reminder -> Nat]
        /\ faults' \in 0..MaxFaults
    <3>1. CASE UNCHANGED <<status, thread, createdAt, dueAt>>
      BY <1>t, <1>2, <3>1 DEF TypeOK, CreateRow, Fault
    <3>2. CASE ~UNCHANGED <<status, thread, createdAt, dueAt>>
      <4>1. PICK r \in Reminder, d \in Days :
              /\ status' = [status EXCEPT ![r] = "PENDING"]
              /\ thread' = [thread EXCEPT ![r] = sending[s]]
              /\ createdAt' = [createdAt EXCEPT ![r] = now]
              /\ dueAt' = [dueAt EXCEPT ![r] = sentAt[s] + d]
        BY <1>2, <3>2 DEF CreateRow
      <4>2. faults' = faults
        BY <1>2, <3>2 DEF CreateRow
      <4>3. sentAt[s] + d \in Nat
        BY <1>t DEF TypeOK, Time
      <4> QED BY <1>t, <4>1, <4>2, <4>3 DEF TypeOK, Status, Open
    <3> QED BY <3>1, <3>2
  <2> QED BY <1>t, <2>1, <2>2, <2>3 DEF TypeOK, checkVars
<1>3. ASSUME NEW r \in Reminder, Dismiss(r)
      PROVE  TypeOK'
  BY <1>t, <1>3
  DEF TypeOK, Dismiss, Status, Closed, senderVars, checkVars, envVars
<1>4. ASSUME NEW r \in Reminder, NEW d \in SnoozeDays, Snooze(r, d)
      PROVE  TypeOK'
  <2>1. now + d \in Nat
    BY <1>t DEF TypeOK, Time
  <2> QED
    BY <1>t, <1>4, <2>1
    DEF TypeOK, Snooze, Status, Open, senderVars, checkVars, envVars
<1> QED BY <1>1, <1>2, <1>3, <1>4

LEMMA EnvironmentType ==
  ASSUME ReminderInv,
         \/ Tick
         \/ \E t \in Thread, at \in Time : StoreInbound(t, at)
         \/ \E t \in Thread : DeleteThread(t)
         \/ UNCHANGED vars
  PROVE  TypeOK'
<1> USE FollowUpAssumption
<1>t. TypeOK
  BY DEF ReminderInv
<1>1. CASE Tick
  BY <1>t, <1>1 DEF TypeOK, Tick, Time, rowVars, senderVars, checkVars
<1>2. ASSUME NEW t \in Thread, NEW at \in Time, StoreInbound(t, at)
      PROVE  TypeOK'
  BY <1>t, <1>2 DEF TypeOK, StoreInbound, rowVars, senderVars, checkVars
<1>3. ASSUME NEW t \in Thread, DeleteThread(t)
      PROVE  TypeOK'
  BY <1>t, <1>3 DEF TypeOK, DeleteThread, Status, senderVars, checkVars
<1>4. CASE UNCHANGED vars
  BY <1>t, <1>4
  DEF TypeOK, vars, rowVars, senderVars, checkVars, envVars
<1> QED BY <1>1, <1>2, <1>3, <1>4

\* A check that ends keeps the types of what the checks hold.
LEMMA IdleType ==
  ASSUME TypeOK, NEW c \in Checker, GoIdle(c)
  PROVE  /\ pc' \in [Checker -> {"idle", "examine", "resolve", "trigger", "digest",
                                 "mail", "mark"}]
         /\ asOf' \in [Checker -> Time]
         /\ todo' \in [Checker -> SUBSET Reminder]
         /\ seen' \in [Checker -> [Reminder -> Status]]
         /\ cur' \in [Checker -> SUBSET Reminder]
         /\ found' \in [Checker -> Time \cup {Never}]
         /\ touched' \in [Checker -> SUBSET Reminder]
         /\ heard' \in [Checker -> SUBSET Reminder]
         /\ failed' \in [Checker -> SUBSET Reminder]
<1>1. Unseen \in [Reminder -> Status] /\ 0 \in Time
  BY FollowUpAssumption DEF Unseen, Status, Time
<1> QED BY <1>1 DEF TypeOK, GoIdle, Goto

\* So does one that is done with a row, with or without an error.
LEMMA DoneType ==
  ASSUME TypeOK, NEW c \in Checker, NEW r, Done(c, r)
  PROVE  /\ pc' \in [Checker -> {"idle", "examine", "resolve", "trigger", "digest",
                                 "mail", "mark"}]
         /\ todo' \in [Checker -> SUBSET Reminder]
         /\ cur' \in [Checker -> SUBSET Reminder]
         /\ found' \in [Checker -> Time \cup {Never}]
<1>1. todo[c] \ {r} \in SUBSET Reminder
  BY DEF TypeOK
<1> QED BY <1>1 DEF TypeOK, Done, Goto

LEMMA SkipType ==
  ASSUME TypeOK, NEW c \in Checker, NEW r \in Reminder, Skip(c, r)
  PROVE  /\ failed' \in [Checker -> SUBSET Reminder]
         /\ faults' \in 0..MaxFaults
         /\ UNCHANGED <<status, resolvedAt, touched>>
<1>1. failed[c] \cup {r} \in SUBSET Reminder
  BY DEF TypeOK
<1>2. faults' \in 0..MaxFaults
  BY FollowUpAssumption DEF TypeOK, Skip, Fault
<1> QED BY <1>1, <1>2 DEF TypeOK, Skip

LEMMA CheckType ==
  ASSUME ReminderInv, NEW c \in Checker, Check(c) \/ Crash(c)
  PROVE  TypeOK'
<1> USE FollowUpAssumption
<1>t. TypeOK
  BY DEF ReminderInv
<1>1. CASE Begin(c)
  BY <1>t, <1>1
  DEF TypeOK, Begin, Snapshot, Earliest, Goto, Status, rowVars, senderVars, envVars
<1>2. CASE Look(c)
  <2>1. PICK r \in Reminder : /\ Upcoming(c, r)
                              /\ \/ /\ Goto(c, "resolve")
                                    /\ RepliesTo(r) # {}
                                    /\ cur' = [cur EXCEPT ![c] = {r}]
                                    /\ \E at \in FirstReplyTo(r) :
                                         found' = [found EXCEPT ![c] = at]
                                    /\ UNCHANGED <<todo, touched, failed, faults>>
                                 \/ /\ Goto(c, "trigger")
                                    /\ cur' = [cur EXCEPT ![c] = {r}]
                                    /\ UNCHANGED <<todo, found, touched, failed, faults>>
                                 \/ /\ Done(c, r)
                                    /\ \/ touched' = [touched EXCEPT ![c] = @ \cup {r}]
                                       \/ touched' = [touched EXCEPT ![c] = @ \cup {}]
                                    /\ UNCHANGED <<failed, faults>>
                                 \/ Skip(c, r)
    BY <1>2 DEF Look
  <2>2. FirstReplyTo(r) \subseteq Time
    <3>1. status[r] # "NONE"
      BY <2>1 DEF Upcoming, ReminderInv, RowOfCheck
    <3> QED BY <3>1, RepliesType DEF FirstReplyTo
  <2>3. UNCHANGED <<rowVars, senderVars, asOf, seen, heard, envVars, mailed>>
    BY <1>2 DEF Look
  <2>4. /\ pc' \in [Checker -> {"idle", "examine", "resolve", "trigger", "digest",
                                "mail", "mark"}]
        /\ todo' \in [Checker -> SUBSET Reminder]
        /\ cur' \in [Checker -> SUBSET Reminder]
        /\ found' \in [Checker -> Time \cup {Never}]
        /\ touched' \in [Checker -> SUBSET Reminder]
        /\ failed' \in [Checker -> SUBSET Reminder]
        /\ faults' \in 0..MaxFaults
    <3>1. CASE /\ Done(c, r)
               /\ \/ touched' = [touched EXCEPT ![c] = @ \cup {r}]
                  \/ touched' = [touched EXCEPT ![c] = @ \cup {}]
               /\ UNCHANGED <<failed, faults>>
      <4>1. touched[c] \cup {r} \in SUBSET Reminder /\ touched[c] \cup {} \in SUBSET Reminder
        BY <1>t DEF TypeOK
      <4>2. touched' \in [Checker -> SUBSET Reminder]
        BY <1>t, <3>1, <4>1 DEF TypeOK
      <4>3. Done(c, r) /\ failed' = failed /\ faults' = faults
        BY <3>1
      <4> QED BY <1>t, <4>2, <4>3, DoneType DEF TypeOK
    <3>2. CASE Skip(c, r)
      BY <1>t, <3>2, DoneType, SkipType DEF TypeOK, Skip
    <3>3. CASE /\ Goto(c, "resolve") \/ Goto(c, "trigger")
               /\ cur' = [cur EXCEPT ![c] = {r}]
               /\ \/ \E at \in FirstReplyTo(r) : found' = [found EXCEPT ![c] = at]
                  \/ found' = found
               /\ UNCHANGED <<todo, touched, failed, faults>>
      <4>1. found' \in [Checker -> Time \cup {Never}]
        BY <1>t, <2>2, <3>3 DEF TypeOK
      <4> QED BY <1>t, <3>3, <4>1 DEF TypeOK, Goto
    <3> QED BY <2>1, <3>1, <3>2, <3>3
  <2> QED BY <1>t, <2>3, <2>4 DEF TypeOK, rowVars, senderVars, envVars
<1>3. CASE Resolve(c)
  <2>1. PICK r \in cur[c] :
          \/ /\ \/ /\ status' = [status EXCEPT ![r] = "RESOLVED"]
                   /\ resolvedAt' = [resolvedAt EXCEPT ![r] = found[c]]
                \/ UNCHANGED <<status, resolvedAt>>
             /\ Done(c, r)
             /\ UNCHANGED <<touched, failed, faults>>
          \/ Skip(c, r)
    BY <1>3 DEF Resolve
  <2>2. r \in Reminder
    BY <1>t DEF TypeOK
  <2>3. /\ status' \in [Reminder -> Status]
        /\ resolvedAt' \in [Reminder -> Time \cup {Never}]
    BY <1>t, <2>1, <2>2, SkipType DEF TypeOK, Status, Closed
  <2>4. Done(c, r)
    BY <2>1 DEF Skip
  <2>5. /\ touched' \in [Checker -> SUBSET Reminder]
        /\ failed' \in [Checker -> SUBSET Reminder]
        /\ faults' \in 0..MaxFaults
    BY <1>t, <2>1, <2>2, SkipType DEF TypeOK
  <2>6. UNCHANGED <<thread, createdAt, dueAt, snoozedUntil, stamped, senderVars,
                    asOf, seen, heard, envVars, mailed>>
    BY <1>3 DEF Resolve
  <2> QED
    BY <1>t, <2>3, <2>4, <2>5, <2>6, DoneType DEF TypeOK, senderVars, envVars
<1>4. CASE Trigger(c)
  <2>1. PICK r \in cur[c] :
          \/ /\ status' = [status EXCEPT ![r] = "TRIGGERED"]
             /\ touched' = [touched EXCEPT ![c] = @ \cup {r}]
             /\ Done(c, r)
             /\ UNCHANGED <<resolvedAt, failed, faults>>
          \/ /\ Done(c, r)
             /\ UNCHANGED <<status, resolvedAt, touched, failed, faults>>
          \/ Skip(c, r)
    BY <1>4 DEF Trigger
  <2>2. r \in Reminder /\ touched[c] \cup {r} \in SUBSET Reminder
    BY <1>t DEF TypeOK
  <2>3. status' \in [Reminder -> Status]
    BY <1>t, <2>1, <2>2, SkipType DEF TypeOK, Status, Open
  <2>4. Done(c, r)
    BY <2>1 DEF Skip
  <2>5. /\ touched' \in [Checker -> SUBSET Reminder]
        /\ failed' \in [Checker -> SUBSET Reminder]
        /\ faults' \in 0..MaxFaults
        /\ resolvedAt' = resolvedAt
    <3>1. CASE Skip(c, r)
      BY <1>t, <2>2, <3>1, SkipType DEF TypeOK
    <3>2. CASE ~Skip(c, r)
      <4>1. UNCHANGED <<resolvedAt, failed, faults>>
        BY <2>1, <3>2
      <4>2. \/ touched' = [touched EXCEPT ![c] = @ \cup {r}]
            \/ touched' = touched
        BY <2>1, <3>2
      <4>3. touched' \in [Checker -> SUBSET Reminder]
        BY <1>t, <2>2, <4>2 DEF TypeOK
      <4> QED BY <1>t, <4>1, <4>3 DEF TypeOK
    <3> QED BY <3>1, <3>2
  <2>6. UNCHANGED <<thread, createdAt, dueAt, snoozedUntil, stamped, senderVars,
                    asOf, seen, heard, envVars, mailed>>
    BY <1>4 DEF Trigger
  <2> QED
    BY <1>t, <2>3, <2>4, <2>5, <2>6, DoneType DEF TypeOK, senderVars, envVars
<1>5. CASE Finish(c)
  <2>1. CASE GoIdle(c)
    BY <1>t, <1>5, <2>1, IdleType DEF TypeOK, Finish, rowVars, senderVars, envVars
  <2>2. CASE Goto(c, "digest") /\ UNCHANGED <<asOf, todo, seen, cur, found, touched,
                                              heard, failed>>
    BY <1>t, <1>5, <2>2 DEF TypeOK, Finish, Goto, rowVars, senderVars, envVars
  <2> QED BY <1>5, <2>1, <2>2 DEF Finish
<1>6. CASE DigestRead(c)
  <2>1. CASE GoIdle(c)
    BY <1>t, <1>6, <2>1, IdleType DEF TypeOK, DigestRead, rowVars, senderVars, envVars
  <2>2. CASE ~GoIdle(c)
    <3>1. PICK T \in Earliest(Overdue(c) \ stamped, Items) :
            cur' = [cur EXCEPT ![c] = T]
      BY <1>6, <2>2 DEF DigestRead
    <3>2. T \in SUBSET Reminder
      BY DEF Earliest, Overdue
    <3>3. cur' \in [Checker -> SUBSET Reminder]
      BY <1>t, <3>1, <3>2 DEF TypeOK
    <3> QED
      BY <1>t, <1>6, <2>2, <3>3
      DEF TypeOK, DigestRead, Goto, rowVars, senderVars, envVars
  <2> QED BY <2>1, <2>2
<1>7. CASE DigestMail(c)
  <2>1. mailed' \in [Reminder -> Nat] /\ faults' \in 0..MaxFaults
    <3>1. faults' \in 0..MaxFaults
      BY <1>t, <1>7 DEF TypeOK, DigestMail, Fault
    <3>2. \/ mailed' = mailed
          \/ mailed' = [r \in Reminder |-> mailed[r] + (IF r \in cur[c] THEN 1 ELSE 0)]
      BY <1>7 DEF DigestMail
    <3>3. \A r \in Reminder : mailed[r] + (IF r \in cur[c] THEN 1 ELSE 0) \in Nat
      BY <1>t DEF TypeOK
    <3> QED BY <1>t, <3>1, <3>2, <3>3 DEF TypeOK
  <2>2. CASE GoIdle(c)
    BY <1>t, <1>7, <2>1, <2>2, IdleType DEF TypeOK, DigestMail, rowVars, senderVars, envVars
  <2>3. CASE ~GoIdle(c)
    BY <1>t, <1>7, <2>1, <2>3
    DEF TypeOK, DigestMail, Goto, rowVars, senderVars, envVars
  <2> QED BY <2>2, <2>3
<1>8. CASE DigestMark(c)
  BY <1>t, <1>8, IdleType
  DEF TypeOK, DigestMark, Fault, Exists, senderVars, envVars
<1>9. CASE Crash(c)
  BY <1>t, <1>9, IdleType
  DEF TypeOK, Crash, Fault, rowVars, senderVars, envVars
<1> QED
  BY <1>1, <1>2, <1>3, <1>4, <1>5, <1>6, <1>7, <1>8, <1>9 DEF Check

LEMMA TypeStep ==
  ASSUME ReminderInv, [Next]_vars
  PROVE  TypeOK'
BY RequestType, EnvironmentType, CheckType DEF Next

(***************************************************************************)
(* What each step does to the rows, as far as the checks care.             *)
(***************************************************************************)

\* Steps that are not of a check.
LEMMA RowsStep ==
  ASSUME ReminderInv, TypeOK',
         \/ \E s \in Sender, t \in Thread : FindOpen(s, t)
         \/ \E s \in Sender : CreateRow(s)
         \/ \E r \in Reminder : Dismiss(r)
         \/ \E r \in Reminder, d \in SnoozeDays : Snooze(r, d)
         \/ Tick
         \/ \E t \in Thread, at \in Time : StoreInbound(t, at)
         \/ \E t \in Thread : DeleteThread(t)
         \/ UNCHANGED vars
  PROVE  /\ Grows
         /\ \A r \in Reminder : status'[r] # "NONE" => thread'[r] \in Thread
         /\ ResolvedByReply'
         /\ \A c \in Checker : Untouched(c)
<1>t. TypeOK /\ ResolvedByReply
      /\ \A r \in Reminder : status[r] # "NONE" => thread[r] \in Thread
  BY DEF ReminderInv
<1> DEFINE Goal ==
      /\ Grows
      /\ \A r \in Reminder : status'[r] # "NONE" => thread'[r] \in Thread
      /\ ResolvedByReply'
<1>1. \A c \in Checker : Untouched(c)
  BY DEF FindOpen, CreateRow, Dismiss, Snooze, Tick, StoreInbound, DeleteThread,
         vars, checkVars, Untouched
<1>2. CASE UNCHANGED <<rowVars, inbound>>
  <2>1. \A r \in Reminder : RepliesTo(r)' = RepliesTo(r)
    BY <1>2, RepliesKept DEF rowVars
  <2>2. UNCHANGED <<status, thread, createdAt, resolvedAt, inbound>>
    BY <1>2 DEF rowVars
  <2>3. Grows
    BY <2>1, <2>2 DEF Grows
  <2>4. ResolvedByReply'
    BY <1>t, <2>2 DEF ResolvedByReply
  <2> QED BY <1>t, <1>1, <2>2, <2>3, <2>4
<1>3. ASSUME NEW s \in Sender, CreateRow(s)
      PROVE  Goal
  <2>1. CASE UNCHANGED <<status, thread, createdAt, dueAt>>
    BY <1>2, <1>3, <2>1 DEF CreateRow, rowVars, envVars
  <2>2. CASE ~UNCHANGED <<status, thread, createdAt, dueAt>>
    <3>1. PICK r \in Reminder :
            /\ status[r] = "NONE"
            /\ status' = [status EXCEPT ![r] = "PENDING"]
            /\ thread' = [thread EXCEPT ![r] = sending[s]]
            /\ createdAt' = [createdAt EXCEPT ![r] = now]
      BY <1>3, <2>2 DEF CreateRow
    <3>2. /\ inbound' = inbound /\ resolvedAt' = resolvedAt
          /\ sending[s] \in Thread
      BY <1>t, <1>3 DEF CreateRow, envVars, TypeOK
    <3>3. \A q \in Reminder : q # r => /\ status'[q] = status[q]
                                       /\ thread'[q] = thread[q]
                                       /\ createdAt'[q] = createdAt[q]
                                       /\ RepliesTo(q)' = RepliesTo(q)
      BY <1>t, <3>1, <3>2 DEF TypeOK, RepliesTo
    <3>4. status'[r] = "PENDING" /\ thread'[r] = sending[s]
      BY <1>t, <3>1 DEF TypeOK
    <3> QED BY <1>t, <3>1, <3>2, <3>3, <3>4 DEF Grows, ResolvedByReply
  <2> QED BY <2>1, <2>2
<1>4. ASSUME NEW q \in Reminder,
             Dismiss(q) \/ \E d \in SnoozeDays : Snooze(q, d)
      PROVE  Goal
  <2>1. /\ UNCHANGED <<inbound, thread, createdAt>>
        /\ status[q] # "NONE"
        /\ \/ status' = [status EXCEPT ![q] = "DISMISSED"]
           \/ status' = [status EXCEPT ![q] = "SNOOZED"]
        /\ \A r \in Reminder : r # q => resolvedAt'[r] = resolvedAt[r]
    BY <1>t, <1>4 DEF Dismiss, Snooze, Exists, envVars, TypeOK
  <2>2. \A r \in Reminder : RepliesTo(r)' = RepliesTo(r)
    BY <2>1, RepliesKept
  <2>3. status'[q] \in {"DISMISSED", "SNOOZED"}
        /\ \A r \in Reminder : r # q => status'[r] = status[r]
    BY <1>t, <2>1 DEF TypeOK
  <2> QED BY <1>t, <2>1, <2>2, <2>3 DEF Grows, ResolvedByReply
<1>5. ASSUME NEW t \in Thread, NEW at \in Time, StoreInbound(t, at)
      PROVE  Goal
  <2>1. UNCHANGED <<status, thread, createdAt, resolvedAt>>
    BY <1>5 DEF StoreInbound, rowVars
  <2>2. \A u \in Thread : inbound[u] \subseteq inbound'[u]
    BY <1>t, <1>5 DEF StoreInbound, TypeOK
  <2>3. \A r \in Reminder : status[r] # "NONE" => RepliesTo(r) \subseteq RepliesTo(r)'
    BY <1>t, <2>1, <2>2 DEF RepliesTo
  <2> QED BY <1>t, <2>1, <2>2, <2>3 DEF Grows, ResolvedByReply
<1>6. ASSUME NEW t \in Thread, DeleteThread(t)
      PROVE  Goal
  <2>1. UNCHANGED <<inbound, thread, createdAt, resolvedAt>>
    BY <1>6 DEF DeleteThread
  <2>2. \A r \in Reminder : RepliesTo(r)' = RepliesTo(r)
    BY <2>1, RepliesKept
  <2>3. \A r \in Reminder : \/ status'[r] = "DELETED" /\ thread[r] = t
                            \/ status'[r] = status[r]
    BY <1>t, <1>6 DEF DeleteThread, TypeOK
  <2> QED BY <1>t, <2>1, <2>2, <2>3 DEF Grows, ResolvedByReply
<1>7. CASE \/ \E s \in Sender, t \in Thread : FindOpen(s, t)
           \/ Tick
           \/ UNCHANGED vars
  BY <1>2, <1>7 DEF FindOpen, Tick, vars, envVars
<1> QED BY <1>1, <1>3, <1>4, <1>5, <1>6, <1>7

\* The only moves of a check: it resolves an open row with a reply, or it
\* triggers a pending one.
LEMMA CheckMoves ==
  ASSUME ReminderInv, NEW c \in Checker, Check(c) \/ Crash(c)
  PROVE  \A r \in Reminder :
           \/ status'[r] = status[r] /\ resolvedAt'[r] = resolvedAt[r]
           \/ /\ status[r] \in Open /\ status'[r] = "RESOLVED"
              /\ resolvedAt'[r] \in RepliesTo(r)
           \/ status[r] = "PENDING" /\ status'[r] = "TRIGGERED"
<1>t. TypeOK /\ RowOfCheck(c)
  BY DEF ReminderInv
<1>1. CASE Resolve(c)
  <2>1. CASE UNCHANGED <<status, resolvedAt>>
    BY <2>1
  <2>2. CASE ~UNCHANGED <<status, resolvedAt>>
    <3>1. PICK q \in cur[c] : /\ status[q] \in Open
                              /\ status' = [status EXCEPT ![q] = "RESOLVED"]
                              /\ resolvedAt' = [resolvedAt EXCEPT ![q] = found[c]]
      BY <1>1, <2>2 DEF Resolve, Skip
    <3>2. found[c] \in RepliesTo(q) /\ q \in Reminder
      BY <1>t, <1>1 DEF Resolve, RowOfCheck, TypeOK
    <3> QED BY <1>t, <3>1, <3>2 DEF TypeOK
  <2> QED BY <2>1, <2>2
<1>2. CASE Trigger(c)
  <2>1. \/ UNCHANGED <<status, resolvedAt>>
        \/ \E q \in cur[c] : /\ status[q] = "PENDING"
                             /\ status' = [status EXCEPT ![q] = "TRIGGERED"]
                             /\ resolvedAt' = resolvedAt
    BY <1>2 DEF Trigger, Skip
  <2> QED BY <1>t, <2>1 DEF TypeOK
<1>3. CASE ~(Resolve(c) \/ Trigger(c))
  <2>1. UNCHANGED <<status, resolvedAt>>
    BY <1>3 DEF Check, Begin, Snapshot, Look, Finish, DigestRead, DigestMail,
                DigestMark, Crash, rowVars
  <2> QED BY <2>1
<1> QED BY <1>1, <1>2, <1>3

\* A step of check c leaves threads, messages and the other checks alone, and
\* changes the rows only as Grows and ResolvedByReply allow.
LEMMA CheckRows ==
  ASSUME ReminderInv, TypeOK', NEW c \in Checker, Check(c) \/ Crash(c)
  PROVE  /\ UNCHANGED <<inbound, thread, createdAt>>
         /\ Grows
         /\ ResolvedByReply'
         /\ \A d \in Checker \ {c} : Untouched(d)
<1>t. TypeOK /\ ResolvedByReply /\ RowOfCheck(c)
  BY DEF ReminderInv
<1>1. UNCHANGED <<inbound, thread, createdAt>>
  BY DEF Check, Begin, Snapshot, Look, Resolve, Trigger, Finish, DigestRead,
         DigestMail, DigestMark, Crash, rowVars, envVars
<1>2. \A r \in Reminder : RepliesTo(r)' = RepliesTo(r)
  BY <1>1, RepliesKept
<1>3. \A d \in Checker \ {c} : Untouched(d)
  <2>1. CASE Begin(c)
    BY <1>t, <2>1 DEF TypeOK, Begin, Snapshot, Goto, Untouched
  <2>2. CASE Look(c)
    BY <1>t, <2>2 DEF TypeOK, Look, Skip, Done, Goto, Untouched
  <2>3. CASE Resolve(c) \/ Trigger(c)
    BY <1>t, <2>3 DEF TypeOK, Resolve, Trigger, Skip, Done, Goto, Untouched
  <2>4. CASE Finish(c) \/ DigestRead(c)
    BY <1>t, <2>4 DEF TypeOK, Finish, DigestRead, GoIdle, Goto, Untouched
  <2>5. CASE DigestMail(c) \/ DigestMark(c) \/ Crash(c)
    BY <1>t, <2>5 DEF TypeOK, DigestMail, DigestMark, Crash, GoIdle, Goto, Untouched
  <2> QED BY <2>1, <2>2, <2>3, <2>4, <2>5 DEF Check
<1>4. Grows
  BY <1>2, CheckMoves DEF Grows, Open
<1>5. ResolvedByReply'
  <2> SUFFICES ASSUME NEW r \in Reminder, status'[r] = "RESOLVED"
               PROVE  /\ resolvedAt'[r] \in inbound[thread[r]]
                      /\ resolvedAt'[r] >= createdAt[r] - Grace
    BY <1>1 DEF ResolvedByReply
  <2> QED BY <1>t, <1>1, CheckMoves DEF ResolvedByReply, RepliesTo
<1> QED BY <1>1, <1>3, <1>4, <1>5

\* A check that ends, or that is done with a row r it must not have spared,
\* knows nothing it should not.
LEMMA IdleKnows ==
  ASSUME TypeOK, NEW c \in Checker, GoIdle(c)
  PROVE  RowOfCheck(c)' /\ Spares(c)'
<1>1. pc'[c] = "idle" /\ todo'[c] = {} /\ heard'[c] = {}
  BY DEF TypeOK, GoIdle, Goto
<1> QED BY <1>1 DEF RowOfCheck, Spares, Heard

LEMMA DoneKnows ==
  ASSUME ReminderInv, NEW c \in Checker, NEW r \in Reminder, Done(c, r),
         Grows, heard' = heard, failed[c] \subseteq failed'[c],
         \/ r \notin heard[c]
         \/ r \in failed'[c]
         \/ status'[r] \notin {"PENDING", "TRIGGERED"}
  PROVE  RowOfCheck(c)' /\ Spares(c)'
<1>1. /\ RowOfCheck(c) /\ Spares(c) /\ TypeOK
      /\ todo[c] \subseteq Reminder /\ heard[c] \subseteq Reminder
  BY DEF ReminderInv, NoNagging, TypeOK
<1>2. pc'[c] = "examine" /\ todo'[c] = todo[c] \ {r} /\ cur'[c] = {}
  BY <1>1 DEF Done, Goto, TypeOK
<1>3. RowOfCheck(c)'
  <2>1. \A q \in todo'[c] \cup heard'[c] : status'[q] # "NONE"
    BY <1>1, <1>2 DEF RowOfCheck, Grows
  <2>2. \A q \in heard'[c] : RepliesTo(q)' # {}
    BY <1>1 DEF RowOfCheck, Grows
  <2> QED BY <1>2, <2>1, <2>2 DEF RowOfCheck
<1>4. Spares(c)'
  <2>1. \A q \in Heard(c)' : q \in Heard(c) \/ q = r
    BY <1>2 DEF Heard
  <2>2. r \in Heard(c)' => status'[r] \notin {"PENDING", "TRIGGERED"}
    BY DEF Heard
  <2>3. \A q \in Heard(c) : status'[q] \notin {"PENDING", "TRIGGERED"}
    <3> SUFFICES ASSUME NEW q \in Heard(c)
                 PROVE  status'[q] \notin {"PENDING", "TRIGGERED"}
      OBVIOUS
    <3>1. q \in heard[c] /\ q \in Reminder /\ status[q] # "NONE"
      BY <1>1 DEF Heard, RowOfCheck
    <3>2. status[q] \notin {"PENDING", "TRIGGERED"}
      BY <1>1 DEF Spares
    <3> QED BY <3>1, <3>2 DEF Grows
  <2> QED BY <1>2, <2>1, <2>2, <2>3 DEF Spares
<1> QED BY <1>3, <1>4

\* A step of check c keeps what c knows.
LEMMA CheckKnows ==
  ASSUME ReminderInv, TypeOK', NEW c \in Checker, Check(c) \/ Crash(c)
  PROVE  RowOfCheck(c)' /\ Spares(c)'
<1>t. TypeOK /\ RowOfCheck(c) /\ Spares(c)
  BY DEF ReminderInv, NoNagging
<1>s. /\ todo[c] \subseteq Reminder /\ heard[c] \subseteq Reminder
      /\ cur[c] \subseteq Reminder
  BY <1>t DEF TypeOK
<1>g. UNCHANGED <<inbound, thread, createdAt>> /\ Grows
  BY CheckRows
<1>r. \A r \in Reminder : RepliesTo(r)' = RepliesTo(r)
  BY <1>g, RepliesKept
<1>1. CASE Begin(c)
  <2>1. PICK T \in SUBSET {r \in Reminder : status[r] \in Open} :
          /\ todo' = [todo EXCEPT ![c] = T]
          /\ heard' = [heard EXCEPT ![c] = {r \in T : RepliesTo(r) # {}}]
    BY <1>1 DEF Begin, Snapshot, Earliest
  <2>2. pc'[c] = "examine" /\ UNCHANGED status
    BY <1>t, <1>1 DEF Begin, Snapshot, Goto, TypeOK, rowVars
  <2>3. todo'[c] = T /\ heard'[c] = {r \in T : RepliesTo(r) # {}}
    BY <1>t, <2>1 DEF TypeOK
  <2>4. \A r \in T : status'[r] # "NONE" /\ r \in Reminder
    BY <2>1, <2>2 DEF Open
  <2>5. Heard(c)' = {}
    BY <2>3 DEF Heard
  <2> QED BY <1>r, <2>2, <2>3, <2>4, <2>5 DEF RowOfCheck, Spares
<1>2. CASE Look(c)
  <2>1. PICK r \in Reminder :
          /\ r \in todo[c]
          /\ \/ /\ RepliesTo(r) # {} /\ Goto(c, "resolve")
                /\ cur' = [cur EXCEPT ![c] = {r}]
                /\ \E at \in FirstReplyTo(r) : found' = [found EXCEPT ![c] = at]
                /\ UNCHANGED <<todo, failed>>
             \/ /\ RepliesTo(r) = {} /\ Goto(c, "trigger")
                /\ cur' = [cur EXCEPT ![c] = {r}]
                /\ UNCHANGED <<todo, failed>>
             \/ RepliesTo(r) = {} /\ Done(c, r) /\ UNCHANGED failed
             \/ Skip(c, r)
    BY <1>2 DEF Look, Upcoming
  <2>2. UNCHANGED <<status, heard>>
    BY <1>2 DEF Look, rowVars
  <2>3. RepliesTo(r) = {} => r \notin heard[c]
    BY <1>t DEF RowOfCheck
  <2>4. CASE RepliesTo(r) = {} /\ Done(c, r) /\ UNCHANGED failed
    BY <1>g, <2>2, <2>3, <2>4, DoneKnows
  <2>5. CASE Skip(c, r)
    <3>1. Done(c, r) /\ failed' = [failed EXCEPT ![c] = @ \cup {r}]
      BY <2>5 DEF Skip
    <3>2. failed'[c] = failed[c] \cup {r}
      BY <1>t, <3>1 DEF TypeOK
    <3> QED BY <1>g, <2>2, <3>1, <3>2, DoneKnows
  <2>6. CASE /\ RepliesTo(r) # {} /\ Goto(c, "resolve")
             /\ cur' = [cur EXCEPT ![c] = {r}]
             /\ \E at \in FirstReplyTo(r) : found' = [found EXCEPT ![c] = at]
             /\ UNCHANGED <<todo, failed>>
    <3>1. PICK at \in FirstReplyTo(r) : found' = [found EXCEPT ![c] = at]
      BY <2>6
    <3>2. pc'[c] = "resolve" /\ cur'[c] = {r} /\ found'[c] = at /\ at \in RepliesTo(r)
      BY <1>t, <2>6, <3>1 DEF TypeOK, Goto, FirstReplyTo
    <3>3. Heard(c)' = Heard(c)
      BY <2>2, <2>6 DEF Heard
    <3>4. RowOfCheck(c)'
      BY <1>t, <1>s, <1>r, <2>1, <2>2, <2>6, <3>2 DEF RowOfCheck
    <3> QED BY <1>t, <2>2, <3>2, <3>3, <3>4 DEF Spares
  <2>7. CASE /\ RepliesTo(r) = {} /\ Goto(c, "trigger")
             /\ cur' = [cur EXCEPT ![c] = {r}]
             /\ UNCHANGED <<todo, failed>>
    <3>1. pc'[c] = "trigger" /\ cur'[c] = {r}
      BY <1>t, <2>7 DEF TypeOK, Goto
    <3>2. Heard(c)' = Heard(c)
      BY <2>2, <2>7 DEF Heard
    <3>3. RowOfCheck(c)'
      BY <1>t, <1>s, <1>r, <2>1, <2>2, <2>3, <2>7, <3>1 DEF RowOfCheck
    <3> QED BY <1>t, <2>2, <3>1, <3>2, <3>3 DEF Spares
  <2> QED BY <2>1, <2>4, <2>5, <2>6, <2>7
<1>3. CASE Resolve(c)
  <2>1. PICK r \in cur[c] :
          \/ /\ \/ status[r] \in Open /\ status' = [status EXCEPT ![r] = "RESOLVED"]
                \/ status[r] \notin Open /\ status' = status
             /\ Done(c, r) /\ UNCHANGED failed
          \/ Skip(c, r)
    BY <1>3 DEF Resolve
  <2>2. r \in Reminder /\ heard' = heard
    BY <1>s, <1>3 DEF Resolve
  <2>3. CASE Skip(c, r)
    <3>1. Done(c, r) /\ failed' = [failed EXCEPT ![c] = @ \cup {r}]
      BY <2>3 DEF Skip
    <3>2. failed'[c] = failed[c] \cup {r}
      BY <1>t, <3>1 DEF TypeOK
    <3> QED BY <1>g, <2>2, <3>1, <3>2, DoneKnows
  <2>4. CASE ~Skip(c, r)
    <3>1. status'[r] \notin {"PENDING", "TRIGGERED"}
      BY <1>t, <2>1, <2>2, <2>4 DEF TypeOK, Open
    <3> QED BY <1>g, <2>1, <2>2, <2>4, <3>1, DoneKnows
  <2> QED BY <2>3, <2>4
<1>4. CASE Trigger(c)
  <2>1. PICK r \in cur[c] : \/ Done(c, r) /\ UNCHANGED failed
                            \/ Skip(c, r)
    BY <1>4 DEF Trigger
  <2>2. r \in Reminder /\ heard' = heard /\ r \notin heard[c]
    BY <1>t, <1>s, <1>4 DEF Trigger, RowOfCheck
  <2>3. CASE Skip(c, r)
    <3>1. Done(c, r) /\ failed' = [failed EXCEPT ![c] = @ \cup {r}]
      BY <2>3 DEF Skip
    <3>2. failed'[c] = failed[c] \cup {r}
      BY <1>t, <3>1 DEF TypeOK
    <3> QED BY <1>g, <2>2, <3>1, <3>2, DoneKnows
  <2>4. CASE ~Skip(c, r)
    BY <1>g, <2>1, <2>2, <2>4, DoneKnows
  <2> QED BY <2>3, <2>4
<1>5. CASE GoIdle(c)
  BY <1>t, <1>5, IdleKnows
<1>6. CASE Finish(c) /\ ~GoIdle(c)
  <2>1. /\ pc'[c] = "digest"
        /\ UNCHANGED <<status, todo, cur, found, heard, failed>>
    BY <1>t, <1>6 DEF Finish, Goto, TypeOK, rowVars
  <2>2. Heard(c)' = Heard(c)
    BY <2>1 DEF Heard
  <2>3. RowOfCheck(c)'
    BY <1>t, <1>s, <1>r, <2>1 DEF RowOfCheck
  <2> QED BY <1>t, <2>1, <2>2, <2>3 DEF Spares
<1>7. CASE DigestRead(c) /\ ~GoIdle(c)
  <2>1. /\ pc'[c] = "mail"
        /\ UNCHANGED <<status, todo, found, heard, failed>>
    BY <1>t, <1>7 DEF DigestRead, Goto, TypeOK, rowVars
  <2>2. cur'[c] \subseteq Overdue(c)
    BY <1>t, <1>7 DEF DigestRead, Earliest, TypeOK
  <2>3. Heard(c)' = Heard(c)
    BY <2>1 DEF Heard
  <2>4. \A r \in cur'[c] : r \notin Heard(c)
    BY <1>t, <2>2 DEF Overdue, Spares
  <2>5. RowOfCheck(c)'
    BY <1>t, <1>s, <1>r, <2>1 DEF RowOfCheck
  <2> QED BY <1>t, <2>1, <2>3, <2>4, <2>5 DEF Spares
<1>8. CASE DigestMail(c) /\ ~GoIdle(c)
  <2>1. /\ pc[c] = "mail" /\ pc'[c] = "mark"
        /\ UNCHANGED <<status, todo, cur, found, heard, failed>>
    BY <1>t, <1>8 DEF DigestMail, Goto, TypeOK, rowVars
  <2>2. Heard(c)' = Heard(c)
    BY <2>1 DEF Heard
  <2>3. RowOfCheck(c)'
    BY <1>t, <1>s, <1>r, <2>1 DEF RowOfCheck
  <2> QED BY <1>t, <2>1, <2>2, <2>3 DEF Spares
<1>9. CASE DigestMark(c) \/ Crash(c)
  BY <1>5, <1>9 DEF DigestMark, Crash
<1> QED BY <1>1, <1>2, <1>3, <1>4, <1>5, <1>6, <1>7, <1>8, <1>9 DEF Check

(***************************************************************************)
(* The theorems.                                                           *)
(***************************************************************************)

LEMMA InvInit == Init => ReminderInv
<1> SUFFICES ASSUME Init PROVE ReminderInv
  OBVIOUS
<1> USE FollowUpAssumption
<1>1. TypeOK
  BY DEF Init, TypeOK, Time, Status, Unseen
<1>2. ResolvedByReply /\ \A r \in Reminder : status[r] = "NONE"
  BY DEF Init, ResolvedByReply
<1>3. \A c \in Checker : RowOfCheck(c) /\ Spares(c)
  BY DEF Init, RowOfCheck, Spares, Heard
<1> QED BY <1>1, <1>2, <1>3 DEF ReminderInv, NoNagging

LEMMA InvStep == ReminderInv /\ [Next]_vars => ReminderInv'
<1> SUFFICES ASSUME ReminderInv, [Next]_vars PROVE ReminderInv'
  OBVIOUS
<1>1. TypeOK'
  BY TypeStep
<1>2. ASSUME NEW c \in Checker, Check(c) \/ Crash(c)
      PROVE  ReminderInv'
  <2>1. /\ Grows /\ ResolvedByReply'
        /\ UNCHANGED thread
        /\ \A d \in Checker \ {c} : Untouched(d)
    BY <1>1, <1>2, CheckRows
  <2>2. \A d \in Checker \ {c} : RowOfCheck(d)' /\ Spares(d)'
    BY <2>1, OthersKeep
  <2>3. RowOfCheck(c)' /\ Spares(c)'
    BY <1>1, <1>2, CheckKnows
  <2>4. \A r \in Reminder : status'[r] # "NONE" => thread'[r] \in Thread
    <3> SUFFICES ASSUME NEW r \in Reminder, status'[r] # "NONE"
                 PROVE  thread[r] \in Thread
      BY <2>1
    <3>1. status[r] # "NONE"
      BY <1>2, CheckMoves DEF Open
    <3> QED BY <3>1 DEF ReminderInv
  <2>5. \A d \in Checker : RowOfCheck(d)' /\ Spares(d)'
    BY <2>2, <2>3
  <2> QED BY <1>1, <2>1, <2>4, <2>5 DEF ReminderInv, NoNagging
<1>3. CASE \/ \E s \in Sender, t \in Thread : FindOpen(s, t)
           \/ \E s \in Sender : CreateRow(s)
           \/ \E r \in Reminder : Dismiss(r)
           \/ \E r \in Reminder, d \in SnoozeDays : Snooze(r, d)
           \/ Tick
           \/ \E t \in Thread, at \in Time : StoreInbound(t, at)
           \/ \E t \in Thread : DeleteThread(t)
           \/ UNCHANGED vars
  <2>1. /\ Grows /\ ResolvedByReply'
        /\ \A r \in Reminder : status'[r] # "NONE" => thread'[r] \in Thread
        /\ \A c \in Checker : Untouched(c)
    BY <1>1, <1>3, RowsStep
  <2>2. \A c \in Checker : RowOfCheck(c)' /\ Spares(c)'
    BY <2>1, OthersKeep
  <2> QED BY <1>1, <2>1, <2>2 DEF ReminderInv, NoNagging
<1> QED BY <1>2, <1>3 DEF Next

\* What every behaviour keeps: the types and what each check knows.
THEOREM RemindersSafe == Spec => []ReminderInv
BY InvInit, InvStep, PTL DEF Spec

\* "Resolve first, then trigger": no check mails the user about a row, or
\* leaves one waiting for him, whose reply was stored when it began.
THEOREM NeverNags == Spec => []NoNagging
<1>1. ReminderInv => NoNagging
  BY DEF ReminderInv
<1> QED BY <1>1, RemindersSafe, PTL

\* A reminder is resolved only by a reply on its own thread.
THEOREM OnlyRepliesResolve == Spec => []ResolvedByReply
<1>1. ReminderInv => ResolvedByReply
  BY DEF ReminderInv
<1> QED BY <1>1, RemindersSafe, PTL

\* What DecisionsStand says of one step.
Stands ==
  \A r \in Reminder :
    /\ status[r] = "RESOLVED" =>
         status'[r] \in {"RESOLVED", "DISMISSED", "SNOOZED", "DELETED"}
    /\ status[r] = "DISMISSED" => status'[r] \in {"DISMISSED", "SNOOZED", "DELETED"}
    /\ status[r] = "SNOOZED" => status'[r] # "TRIGGERED"

LEMMA StandsStep ==
  ASSUME ReminderInv, [Next]_vars
  PROVE  Stands
<1>t. TypeOK
  BY DEF ReminderInv
<1>1. ASSUME NEW c \in Checker, Check(c) \/ Crash(c)
      PROVE  Stands
  BY <1>1, CheckMoves DEF Stands, Open
<1>2. ASSUME NEW s \in Sender, CreateRow(s)
      PROVE  Stands
  <2>1. \/ status' = status
        \/ \E r \in Reminder : /\ status[r] = "NONE"
                               /\ status' = [status EXCEPT ![r] = "PENDING"]
    BY <1>2 DEF CreateRow
  <2> QED BY <1>t, <2>1 DEF Stands, TypeOK
<1>3. ASSUME NEW q \in Reminder,
             Dismiss(q) \/ \E d \in SnoozeDays : Snooze(q, d)
      PROVE  Stands
  <2>1. \/ status' = [status EXCEPT ![q] = "DISMISSED"]
        \/ status' = [status EXCEPT ![q] = "SNOOZED"]
    BY <1>3 DEF Dismiss, Snooze
  <2>2. Dismiss(q) => status[q] # "DISMISSED"
    BY DEF Dismiss
  <2> QED BY <1>t, <2>1, <2>2 DEF Stands, TypeOK
<1>4. ASSUME NEW t \in Thread, DeleteThread(t)
      PROVE  Stands
  BY <1>t, <1>4 DEF Stands, DeleteThread, TypeOK
<1>5. CASE UNCHANGED status
  BY <1>5 DEF Stands
<1>6. CASE \/ \E s \in Sender, t \in Thread : FindOpen(s, t)
           \/ Tick
           \/ \E t \in Thread, at \in Time : StoreInbound(t, at)
           \/ UNCHANGED vars
  BY <1>5, <1>6 DEF FindOpen, Tick, StoreInbound, vars, rowVars
<1> QED BY <1>1, <1>2, <1>3, <1>4, <1>6 DEF Next

\* The decisions of the user and of earlier checks stand against every check
\* that runs on a stale snapshot.
THEOREM DecisionsKept == Spec => DecisionsStand
<1>1. ReminderInv /\ [Next]_vars =>
        [\A r \in Reminder :
           /\ status[r] = "RESOLVED" =>
                status'[r] \in {"RESOLVED", "DISMISSED", "SNOOZED", "DELETED"}
           /\ status[r] = "DISMISSED" =>
                status'[r] \in {"DISMISSED", "SNOOZED", "DELETED"}
           /\ status[r] = "SNOOZED" => status'[r] # "TRIGGERED"]_vars
  BY StandsStep DEF Stands
<1> QED BY <1>1, RemindersSafe, PTL DEF Spec, DecisionsStand

(***************************************************************************)
(* Repeated digests.  A digest that was accepted and not yet marked is at  *)
(* the "mark" step of a check, or a fault took it: so a row no digest      *)
(* marked was mailed no more often than those two can account for, and one *)
(* that is marked is mailed again only by checks that already hold it.     *)
(***************************************************************************)

\* The checks that are to mail, or to mark, a digest that names r.
Holding(r, step) == {c \in Checker : pc[c] = step /\ r \in cur[c]}

Accounted(r) ==
  /\ Holding(r, "mail") \cup Holding(r, "mark") # {} => status[r] # "NONE"
  /\ r \notin stamped /\ status[r] # "DELETED" =>
       mailed[r] <= faults + Cardinality(Holding(r, "mark"))
  /\ mailed[r] + Cardinality(Holding(r, "mail")) <= Cardinality(Checker) + faults

RepeatInv == ReminderInv /\ \A r \in Reminder : Accounted(r)

\* What a check takes on or lays down, counted.
LEMMA Counts ==
  ASSUME IsFiniteSet(Checker), NEW S \in SUBSET Checker, NEW c \in Checker
  PROVE  /\ Cardinality(S) \in Nat /\ Cardinality(Checker) \in Nat
         /\ Cardinality(S) <= Cardinality(Checker)
         /\ Cardinality(S \cup {c}) = IF c \in S THEN Cardinality(S) ELSE Cardinality(S) + 1
         /\ Cardinality(S \ {c}) = IF c \in S THEN Cardinality(S) - 1 ELSE Cardinality(S)
<1>1. IsFiniteSet(S) /\ Cardinality(S) <= Cardinality(Checker)
  BY FS_Subset
<1> QED BY <1>1, FS_CardinalityType, FS_AddElement, FS_RemoveElement

\* Two disjoint sets of checks and one more check are no more than all of them.
LEMMA TwoKinds ==
  ASSUME IsFiniteSet(Checker), NEW S \in SUBSET Checker, NEW T \in SUBSET Checker, S \cap T = {}
  PROVE  Cardinality(S) + Cardinality(T) <= Cardinality(Checker)
<1>1. IsFiniteSet(S) /\ IsFiniteSet(T) /\ IsFiniteSet(S \cup T)
  BY FS_Subset
<1>2. Cardinality(S \cup T) <= Cardinality(Checker)
  BY FS_Subset
<1>3. Cardinality(S \cup T) = Cardinality(S) + Cardinality(T) - Cardinality(S \cap T)
  BY <1>1, FS_Union
<1>4. Cardinality(S \cap T) = 0
  BY FS_EmptySet
<1>5. Cardinality(S) \in Nat /\ Cardinality(T) \in Nat
  BY <1>1, FS_CardinalityType
<1> QED BY <1>2, <1>3, <1>4, <1>5

\* A row that went stays gone, and no step makes the faults fewer.
LEMMA GoneForGood ==
  ASSUME ReminderInv, [Next]_vars
  PROVE  /\ \A r \in Reminder : status[r] = "DELETED" => status'[r] = "DELETED"
         /\ faults \in Nat /\ faults' \in Nat /\ faults <= faults'
<1>t. TypeOK
  BY DEF ReminderInv
<1>1. \A r \in Reminder : status[r] = "DELETED" => status'[r] = "DELETED"
  <2>1. ASSUME NEW c \in Checker, Check(c) \/ Crash(c), NEW r \in Reminder, status[r] = "DELETED"
        PROVE  status'[r] = "DELETED"
    BY <2>1, CheckMoves DEF Open
  <2>2. ASSUME NEW s \in Sender, CreateRow(s), NEW r \in Reminder, status[r] = "DELETED"
        PROVE  status'[r] = "DELETED"
    BY <1>t, <2>2 DEF CreateRow, TypeOK
  <2>3. ASSUME NEW q \in Reminder, Dismiss(q) \/ \E d \in SnoozeDays : Snooze(q, d),
               NEW r \in Reminder, status[r] = "DELETED"
        PROVE  status'[r] = "DELETED"
    BY <1>t, <2>3 DEF Dismiss, Snooze, Exists, TypeOK
  <2>4. ASSUME NEW t \in Thread, DeleteThread(t), NEW r \in Reminder, status[r] = "DELETED"
        PROVE  status'[r] = "DELETED"
    BY <1>t, <2>4 DEF DeleteThread, TypeOK
  <2>5. CASE \/ \E s \in Sender, t \in Thread : FindOpen(s, t)
             \/ Tick \/ UNCHANGED vars
             \/ \E t \in Thread, at \in Time : StoreInbound(t, at)
    BY <2>5 DEF FindOpen, Tick, StoreInbound, vars, rowVars
  <2> QED BY <2>1, <2>2, <2>3, <2>4, <2>5 DEF Next
<1>2. faults \in Nat
  BY <1>t, FollowUpAssumption DEF TypeOK
<1>3. faults' = faults \/ faults' = faults + 1
  BY DEF Next, FindOpen, CreateRow, Dismiss, Snooze, Check, Begin, Snapshot, Look, Resolve,
         Trigger, Skip, Finish, DigestRead, DigestMail, DigestMark, Crash, Tick, StoreInbound,
         DeleteThread, Fault, vars
<1> QED BY <1>1, <1>2, <1>3

\* Steps that are not of a check hold nothing more, and mail nothing.
LEMMA RequestsAccount ==
  ASSUME RepeatInv, IsFiniteSet(Checker), ReminderInv', NEW r \in Reminder, [Next]_vars,
         \A c \in Checker : Untouched(c), Grows, faults <= faults',
         (mailed' = mailed /\ stamped' = stamped)
           \/ \E q \in Reminder, d \in SnoozeDays : Snooze(q, d)
  PROVE  Accounted(r)'
<1> DEFINE L == Holding(r, "mail")
           K == Holding(r, "mark")
<1>1. L' = L /\ K' = K
  BY DEF Holding, Untouched
<1>2. L \in SUBSET Checker /\ K \in SUBSET Checker
  BY DEF Holding
<1>3. Cardinality(L) \in Nat /\ Cardinality(K) \in Nat /\ Cardinality(Checker) \in Nat
      /\ Cardinality(L) <= Cardinality(Checker)
  <2>1. ASSUME NEW S \in SUBSET Checker
        PROVE  Cardinality(S) \in Nat /\ Cardinality(Checker) \in Nat
               /\ Cardinality(S) <= Cardinality(Checker)
    BY FS_Subset, FS_CardinalityType
  <2> QED BY <1>2, <2>1
<1>4. mailed[r] \in Nat /\ faults \in Nat /\ faults' \in Nat
  BY GoneForGood DEF RepeatInv, ReminderInv, TypeOK
<1>5. status[r] = "DELETED" => status'[r] = "DELETED"
  BY GoneForGood DEF RepeatInv
<1>6. Accounted(r)
  BY DEF RepeatInv
<1>7. (mailed'[r] = mailed[r] /\ (r \notin stamped' => r \notin stamped)) \/ mailed'[r] = 0
  <2>1. CASE mailed' = mailed /\ stamped' = stamped
    BY <2>1
  <2>2. ASSUME NEW q \in Reminder, NEW d \in SnoozeDays, Snooze(q, d)
        PROVE  (mailed'[r] = mailed[r] /\ (r \notin stamped' => r \notin stamped)) \/ mailed'[r] = 0
    BY <2>2 DEF Snooze, RepeatInv, ReminderInv, TypeOK
  <2> QED BY <2>1, <2>2
<1>8. L' \cup K' # {} => status'[r] # "NONE"
  BY <1>1, <1>6 DEF Accounted, Grows
<1> HIDE DEF L, K
<1>9. /\ r \notin stamped' /\ status'[r] # "DELETED" => mailed'[r] <= faults' + Cardinality(K')
      /\ mailed'[r] + Cardinality(L') <= Cardinality(Checker) + faults'
  <2>1. /\ r \notin stamped /\ status[r] # "DELETED" => mailed[r] <= faults + Cardinality(K)
        /\ mailed[r] + Cardinality(L) <= Cardinality(Checker) + faults
    BY <1>6 DEF Accounted, L, K
  <2> QED BY <1>1, <1>3, <1>4, <1>5, <1>7, <2>1
<1> QED BY <1>8, <1>9 DEF Accounted, L, K

\* What a step of check c does to the digests that name r: nothing; c is about to
\* mail it, mails it, or marks it; or c lets go of it, by a fault or, when its
\* transport refused the digest, without one.
LEMMA DigestMoves ==
  ASSUME ReminderInv, ReminderInv', NEW c \in Checker, Check(c) \/ Crash(c), NEW r \in Reminder
  PROVE  LET L == Holding(r, "mail")  K == Holding(r, "mark") IN
         \/ /\ L' = L /\ K' = K /\ mailed'[r] = mailed[r]
            /\ r \in stamped => r \in stamped'
         \/ /\ L' = L \cup {c} /\ K' = K /\ c \notin L \cup K /\ mailed'[r] = mailed[r]
            /\ r \notin stamped /\ status[r] = "TRIGGERED" /\ stamped' = stamped
         \/ /\ c \in L /\ L' = L \ {c} /\ stamped' = stamped
            /\ \/ K' = K \cup {c} /\ c \notin K /\ mailed'[r] = mailed[r] + 1
               \/ K' = K /\ mailed'[r] = mailed[r] + 1 /\ faults' = faults + 1
               \/ K' = K /\ mailed'[r] = mailed[r]
         \/ /\ c \in K /\ K' = K \ {c} /\ L' = L /\ mailed'[r] = mailed[r]
            /\ \/ r \in stamped' \/ ~Exists(r)
               \/ stamped' = stamped /\ faults' = faults + 1
<1> DEFINE L == Holding(r, "mail")
           K == Holding(r, "mark")
<1>t. TypeOK
  BY DEF ReminderInv
<1>o. \A d \in Checker \ {c} : pc'[d] = pc[d] /\ cur'[d] = cur[d]
  BY CheckRows DEF Untouched, ReminderInv
<1>1. CASE Begin(c) \/ Look(c) \/ Resolve(c) \/ Trigger(c) \/ Finish(c)
  <2>1. pc[c] \notin {"mail", "mark"} /\ pc'[c] \notin {"mail", "mark"}
    BY <1>t, <1>1
    DEF Begin, Snapshot, Look, Resolve, Trigger, Finish, Skip, Done, GoIdle, Goto, TypeOK
  <2>2. L' = L /\ K' = K
    BY <1>o, <2>1 DEF Holding
  <2>3. mailed' = mailed /\ stamped' = stamped
    BY <1>1 DEF Begin, Snapshot, Look, Resolve, Trigger, Finish, rowVars
  <2> QED BY <2>2, <2>3
<1>2. CASE DigestRead(c)
  <2>1. pc[c] = "digest" /\ mailed' = mailed /\ stamped' = stamped
    BY <1>2 DEF DigestRead, rowVars
  <2>2. CASE GoIdle(c)
    <3>1. pc'[c] = "idle"
      BY <1>t, <2>2 DEF GoIdle, Goto, TypeOK
    <3>2. L' = L /\ K' = K
      BY <1>o, <2>1, <3>1 DEF Holding
    <3> QED BY <2>1, <3>2
  <2>3. CASE ~GoIdle(c)
    <3>1. pc'[c] = "mail" /\ cur'[c] \subseteq Overdue(c) \ stamped
      BY <1>t, <1>2, <2>3 DEF DigestRead, Earliest, Goto, TypeOK
    <3>2. K' = K /\ c \notin L \cup K
      BY <1>o, <2>1, <3>1 DEF Holding
    <3>3. CASE r \in cur'[c]
      <4>1. L' = L \cup {c}
        BY <1>o, <3>1, <3>3 DEF Holding
      <4>2. r \notin stamped /\ status[r] = "TRIGGERED"
        BY <3>1, <3>3 DEF Overdue
      <4> QED BY <2>1, <3>2, <4>1, <4>2
    <3>4. CASE r \notin cur'[c]
      <4>1. L' = L
        BY <1>o, <2>1, <3>1, <3>4 DEF Holding
      <4> QED BY <2>1, <3>2, <4>1
    <3> QED BY <3>3, <3>4
  <2> QED BY <2>2, <2>3
<1>3. CASE DigestMail(c)
  <2>1. pc[c] = "mail" /\ stamped' = stamped /\ c \notin K
    BY <1>3 DEF DigestMail, rowVars, Holding
  <2>2. /\ mailed' = [q \in Reminder |-> mailed[q] + (IF q \in cur[c] THEN 1 ELSE 0)]
           \/ mailed' = mailed
        /\ mailed[r] \in Nat
    BY <1>t, <1>3 DEF DigestMail, TypeOK
  <2>3. CASE r \notin cur[c]
    <3>1. mailed'[r] = mailed[r]
      BY <2>2, <2>3
    <3>2. pc'[c] = "idle" \/ (pc'[c] = "mark" /\ cur'[c] = cur[c])
      BY <1>t, <1>3 DEF DigestMail, GoIdle, Goto, TypeOK
    <3>3. L' = L /\ K' = K
      BY <1>o, <2>1, <2>3, <3>2 DEF Holding
    <3> QED BY <2>1, <3>1, <3>3
  <2>4. CASE r \in cur[c]
    <3>1. c \in L
      BY <2>1, <2>4 DEF Holding
    <3>2. CASE Goto(c, "mark") /\ UNCHANGED cur
               /\ mailed' = [q \in Reminder |-> mailed[q] + (IF q \in cur[c] THEN 1 ELSE 0)]
      <4>1. pc'[c] = "mark" /\ cur'[c] = cur[c] /\ mailed'[r] = mailed[r] + 1
        BY <1>t, <2>4, <3>2 DEF Goto, TypeOK
      <4>2. L' = L \ {c} /\ K' = K \cup {c}
        BY <1>o, <2>4, <4>1 DEF Holding
      <4> QED BY <2>1, <3>1, <4>1, <4>2
    <3>3. CASE GoIdle(c)
      <4>1. pc'[c] = "idle"
        BY <1>t, <3>3 DEF GoIdle, Goto, TypeOK
      <4>2. L' = L \ {c} /\ K' = K
        BY <1>o, <2>1, <4>1 DEF Holding
      <4>3. mailed' = mailed \/ (Fault /\ mailed'[r] = mailed[r] + 1)
        <5>1. CASE mailed' = mailed
          BY <5>1
        <5>2. CASE mailed' # mailed
          <6>1. Goto(c, "mark") \/ Fault
            BY <1>3, <5>2 DEF DigestMail
          <6>2. ~Goto(c, "mark")
            BY <1>t, <4>1 DEF Goto, TypeOK
          <6> QED BY <2>2, <2>4, <5>2, <6>1, <6>2
        <5> QED BY <5>1, <5>2
      <4> QED BY <2>1, <3>1, <4>2, <4>3 DEF Fault
    <3> QED BY <1>3, <3>2, <3>3 DEF DigestMail
  <2> QED BY <2>3, <2>4
<1>4. CASE DigestMark(c)
  <2>1. pc[c] = "mark" /\ mailed' = mailed /\ pc'[c] = "idle" /\ stamped \subseteq stamped'
    BY <1>t, <1>4 DEF DigestMark, GoIdle, Goto, TypeOK
  <2>2. L' = L /\ K' = K \ {c}
    BY <1>o, <2>1 DEF Holding
  <2>3. CASE r \notin cur[c]
    <3>1. K' = K
      BY <2>2, <2>3 DEF Holding
    <3> QED BY <2>1, <2>2, <3>1
  <2>4. CASE r \in cur[c]
    <3>1. c \in K
      BY <2>1, <2>4 DEF Holding
    <3>2. r \in stamped' \/ ~Exists(r) \/ (stamped' = stamped /\ faults' = faults + 1)
      BY <1>4, <2>4 DEF DigestMark, Fault
    <3> QED BY <2>1, <2>2, <3>1, <3>2
  <2> QED BY <2>3, <2>4
<1>5. CASE Crash(c)
  <2>1. pc'[c] = "idle" /\ mailed' = mailed /\ stamped' = stamped /\ faults' = faults + 1
    BY <1>t, <1>5 DEF Crash, GoIdle, Goto, Fault, TypeOK, rowVars
  <2>2. L' = L \ {c} /\ K' = K \ {c}
    BY <1>o, <2>1 DEF Holding
  <2>3. c \notin L \/ c \notin K
    BY DEF Holding
  <2>4. (c \notin L => L' = L) /\ (c \notin K => K' = K)
    BY <2>2
  <2> QED BY <2>1, <2>2, <2>3, <2>4
<1> QED BY <1>1, <1>2, <1>3, <1>4, <1>5 DEF Check

LEMMA ChecksAccount ==
  ASSUME RepeatInv, IsFiniteSet(Checker), ReminderInv', [Next]_vars,
         NEW c \in Checker, Check(c) \/ Crash(c), NEW r \in Reminder
  PROVE  Accounted(r)'
<1> DEFINE L == Holding(r, "mail")
           K == Holding(r, "mark")
           C == Cardinality(Checker)
<1>1. L \in SUBSET Checker /\ K \in SUBSET Checker /\ L \cap K = {}
  BY DEF Holding
<1>2. /\ mailed[r] \in Nat /\ faults \in Nat /\ faults' \in Nat /\ faults <= faults'
      /\ mailed'[r] \in Nat
      /\ status[r] = "DELETED" => status'[r] = "DELETED"
  BY GoneForGood DEF RepeatInv, ReminderInv, TypeOK
<1>3. /\ L \cup K # {} => status[r] # "NONE"
      /\ r \notin stamped /\ status[r] # "DELETED" => mailed[r] <= faults + Cardinality(K)
      /\ mailed[r] + Cardinality(L) <= C + faults
  BY DEF RepeatInv, Accounted
<1>4. \/ /\ L' = L /\ K' = K /\ mailed'[r] = mailed[r]
         /\ r \in stamped => r \in stamped'
      \/ /\ L' = L \cup {c} /\ K' = K /\ c \notin L \cup K /\ mailed'[r] = mailed[r]
         /\ r \notin stamped /\ status[r] = "TRIGGERED" /\ stamped' = stamped
      \/ /\ c \in L /\ L' = L \ {c} /\ stamped' = stamped
         /\ \/ K' = K \cup {c} /\ c \notin K /\ mailed'[r] = mailed[r] + 1
            \/ K' = K /\ mailed'[r] = mailed[r] + 1 /\ faults' = faults + 1
            \/ K' = K /\ mailed'[r] = mailed[r]
      \/ /\ c \in K /\ K' = K \ {c} /\ L' = L /\ mailed'[r] = mailed[r]
         /\ \/ r \in stamped' \/ ~Exists(r)
            \/ stamped' = stamped /\ faults' = faults + 1
  BY DigestMoves DEF RepeatInv
<1>5. Grows
  BY CheckRows DEF RepeatInv, ReminderInv
<1> HIDE DEF L, K
<1>6. /\ Cardinality(L) \in Nat /\ Cardinality(K) \in Nat /\ C \in Nat
      /\ Cardinality(L \cup {c}) = IF c \in L THEN Cardinality(L) ELSE Cardinality(L) + 1
      /\ Cardinality(K \cup {c}) = IF c \in K THEN Cardinality(K) ELSE Cardinality(K) + 1
      /\ Cardinality(L \ {c}) = IF c \in L THEN Cardinality(L) - 1 ELSE Cardinality(L)
      /\ Cardinality(K \ {c}) = IF c \in K THEN Cardinality(K) - 1 ELSE Cardinality(K)
  BY <1>1, Counts
<1>7. L \cap K = {} /\ c \notin L \cup K => Cardinality(L) + 1 + Cardinality(K) <= C
  <2> SUFFICES ASSUME c \notin L \cup K PROVE Cardinality(L) + 1 + Cardinality(K) <= C
    BY <1>1
  <2>1. (L \cup {c}) \in SUBSET Checker /\ (L \cup {c}) \cap K = {}
    BY <1>1
  <2>2. Cardinality(L \cup {c}) + Cardinality(K) <= C
    BY <1>1, <2>1, TwoKinds
  <2> QED BY <1>6, <2>2
<1> HIDE DEF C
<1>8. L' \cup K' # {} => status'[r] # "NONE"
  <2>1. L' \cup K' # {} => status[r] # "NONE"
    BY <1>3, <1>4
  <2> QED BY <1>5, <2>1 DEF Grows
<1>9. C = Cardinality(Checker)
  BY DEF C
<1>10. status'[r] # "DELETED" => status[r] # "DELETED" /\ (c \in K => Exists(r))
  BY <1>2, <1>3 DEF Exists
<1>a. CASE /\ L' = L /\ K' = K /\ mailed'[r] = mailed[r]
           /\ r \in stamped => r \in stamped'
  <2>1. Cardinality(L') = Cardinality(L) /\ Cardinality(K') = Cardinality(K)
    BY <1>a
  <2>2. mailed'[r] + Cardinality(L') <= C + faults'
    BY <1>2, <1>3, <1>6, <1>a, <2>1
  <2>3. r \notin stamped' /\ status'[r] # "DELETED" => mailed[r] <= faults + Cardinality(K)
    BY <1>3, <1>10, <1>a
  <2>4. mailed[r] <= faults + Cardinality(K) => mailed'[r] <= faults' + Cardinality(K')
    BY <1>2, <1>6, <1>a, <2>1
  <2> QED BY <1>8, <1>9, <2>2, <2>3, <2>4 DEF Accounted, L, K
<1>b. CASE /\ L' = L \cup {c} /\ K' = K /\ c \notin L \cup K /\ mailed'[r] = mailed[r]
           /\ r \notin stamped /\ status[r] = "TRIGGERED" /\ stamped' = stamped
  <2>1. Cardinality(L') = Cardinality(L) + 1 /\ Cardinality(K') = Cardinality(K)
    BY <1>6, <1>b
  <2>2. mailed[r] <= faults + Cardinality(K) /\ Cardinality(L) + 1 + Cardinality(K) <= C
    BY <1>1, <1>3, <1>7, <1>b
  <2>3. mailed'[r] + Cardinality(L') <= C + faults'
    BY <1>2, <1>6, <1>b, <2>1, <2>2
  <2>4. mailed'[r] <= faults' + Cardinality(K')
    BY <1>2, <1>6, <1>b, <2>1, <2>2
  <2> QED BY <1>8, <1>9, <2>3, <2>4 DEF Accounted, L, K
<1>c. CASE /\ c \in L /\ L' = L \ {c} /\ stamped' = stamped
           /\ \/ K' = K \cup {c} /\ c \notin K /\ mailed'[r] = mailed[r] + 1
              \/ K' = K /\ mailed'[r] = mailed[r] + 1 /\ faults' = faults + 1
              \/ K' = K /\ mailed'[r] = mailed[r]
  <2>1. Cardinality(L') = Cardinality(L) - 1
    BY <1>6, <1>c
  <2>2. \/ Cardinality(K') = Cardinality(K) + 1 /\ mailed'[r] = mailed[r] + 1
        \/ Cardinality(K') = Cardinality(K) /\ mailed'[r] = mailed[r] + 1 /\ faults' = faults + 1
        \/ Cardinality(K') = Cardinality(K) /\ mailed'[r] = mailed[r]
    BY <1>6, <1>c
  <2>3. mailed'[r] + Cardinality(L') <= C + faults'
    BY <1>2, <1>3, <1>6, <2>1, <2>2
  <2>4. r \notin stamped' /\ status'[r] # "DELETED" => mailed[r] <= faults + Cardinality(K)
    BY <1>3, <1>10, <1>c
  <2>5. mailed[r] <= faults + Cardinality(K) => mailed'[r] <= faults' + Cardinality(K')
    BY <1>2, <1>6, <2>2
  <2> QED BY <1>8, <1>9, <2>3, <2>4, <2>5 DEF Accounted, L, K
<1>d. CASE /\ c \in K /\ K' = K \ {c} /\ L' = L /\ mailed'[r] = mailed[r]
           /\ \/ r \in stamped' \/ ~Exists(r)
              \/ stamped' = stamped /\ faults' = faults + 1
  <2>1. Cardinality(L') = Cardinality(L) /\ Cardinality(K') = Cardinality(K) - 1
    BY <1>6, <1>d
  <2>2. mailed'[r] + Cardinality(L') <= C + faults'
    BY <1>2, <1>3, <1>6, <1>d, <2>1
  <2>3. ASSUME r \notin stamped', status'[r] # "DELETED"
        PROVE  mailed[r] <= faults + Cardinality(K) /\ faults' = faults + 1
    BY <1>3, <1>10, <1>d, <2>3
  <2>4. mailed[r] <= faults + Cardinality(K) /\ faults' = faults + 1
          => mailed'[r] <= faults' + Cardinality(K')
    BY <1>2, <1>6, <1>d, <2>1
  <2> QED BY <1>8, <1>9, <2>2, <2>3, <2>4 DEF Accounted, L, K
<1> QED BY <1>4, <1>a, <1>b, <1>c, <1>d

LEMMA RepeatStep ==
  ASSUME IsFiniteSet(Checker), RepeatInv, [Next]_vars
  PROVE  RepeatInv'
<1>1. ReminderInv'
  BY InvStep DEF RepeatInv
<1>2. ASSUME NEW c \in Checker, Check(c) \/ Crash(c), NEW r \in Reminder
      PROVE  Accounted(r)'
  BY <1>1, <1>2, ChecksAccount
<1>3. ASSUME \/ \E s \in Sender, t \in Thread : FindOpen(s, t)
             \/ \E s \in Sender : CreateRow(s)
             \/ \E r \in Reminder : Dismiss(r)
             \/ \E r \in Reminder, d \in SnoozeDays : Snooze(r, d)
             \/ Tick
             \/ \E t \in Thread, at \in Time : StoreInbound(t, at)
             \/ \E t \in Thread : DeleteThread(t)
             \/ UNCHANGED vars,
             NEW r \in Reminder
      PROVE  Accounted(r)'
  <2>1. Grows /\ \A c \in Checker : Untouched(c)
    BY <1>1, <1>3, RowsStep DEF RepeatInv, ReminderInv
  <2>2. (mailed' = mailed /\ stamped' = stamped) \/ \E q \in Reminder, d \in SnoozeDays : Snooze(q, d)
    BY <1>3 DEF FindOpen, CreateRow, Dismiss, Tick, StoreInbound, DeleteThread, vars, rowVars
  <2>3. faults <= faults'
    BY GoneForGood DEF RepeatInv
  <2> QED BY <1>1, <2>1, <2>2, <2>3, RequestsAccount
<1>4. \A r \in Reminder : Accounted(r)'
  BY <1>2, <1>3 DEF Next
<1> QED BY <1>1, <1>4 DEF RepeatInv

\* A digest names a reminder again only as often as there are overlapping
\* checks and failures to blame, for any number of reminders.
THEOREM RepeatsCounted ==
  ASSUME IsFiniteSet(Checker)
  PROVE  Spec => []RepeatsBounded
<1>1. Init => RepeatInv
  <2> SUFFICES ASSUME Init PROVE RepeatInv
    OBVIOUS
  <2>1. \A r \in Reminder : Holding(r, "mail") = {} /\ Holding(r, "mark") = {}
    BY DEF Init, Holding
  <2>2. Cardinality({}) = 0 /\ Cardinality(Checker) \in Nat
    BY FS_EmptySet, FS_CardinalityType
  <2>3. \A r \in Reminder : mailed[r] = 0 /\ faults = 0
    BY DEF Init
  <2>4. ASSUME NEW r \in Reminder PROVE Accounted(r)
    <3>1. Holding(r, "mail") = {} /\ Holding(r, "mark") = {} /\ mailed[r] = 0 /\ faults = 0
      BY <2>1, <2>3
    <3>2. Cardinality(Holding(r, "mail")) = 0 /\ Cardinality(Holding(r, "mark")) = 0
      BY <2>2, <3>1
    <3>3. Holding(r, "mail") \cup Holding(r, "mark") = {}
      BY <3>1
    <3>4. mailed[r] <= faults + Cardinality(Holding(r, "mark"))
      BY <3>1, <3>2
    <3>5. mailed[r] + Cardinality(Holding(r, "mail")) <= Cardinality(Checker) + faults
      BY <2>2, <3>1, <3>2
    <3> QED BY <3>3, <3>4, <3>5 DEF Accounted
  <2> QED BY <2>4, InvInit DEF RepeatInv
<1>2. RepeatInv /\ [Next]_vars => RepeatInv'
  BY RepeatStep
<1>3. RepeatInv => RepeatsBounded
  <2> SUFFICES ASSUME RepeatInv, NEW r \in Reminder
               PROVE  mailed[r] <= Cardinality(Checker) + faults
    BY DEF RepeatsBounded
  <2> DEFINE L == Holding(r, "mail")
  <2>1. mailed[r] + Cardinality(L) <= Cardinality(Checker) + faults
    BY DEF RepeatInv, Accounted
  <2>2. L \in SUBSET Checker
    BY DEF Holding
  <2> HIDE DEF L
  <2>3. Cardinality(L) \in Nat
    BY <2>2, FS_Subset, FS_CardinalityType
  <2>4. mailed[r] \in Nat /\ faults \in Nat /\ Cardinality(Checker) \in Nat
    BY FollowUpAssumption, FS_CardinalityType DEF RepeatInv, ReminderInv, TypeOK
  <2> QED BY <2>1, <2>3, <2>4
<1> QED BY <1>1, <1>2, <1>3, PTL DEF Spec

(***************************************************************************)
(* One open reminder on a thread.  Nothing in the schema sees to it: the   *)
(* look and the insert of a send are two statements, and a snooze names    *)
(* its row by id.  Two things are enough, and without either TLC finds a   *)
(* thread with two (FollowUps_hazards.cfg): that no two sends are between  *)
(* look and insert on one thread, and that no closed reminder is snoozed.  *)
(***************************************************************************)

SendsAlone ==
  \A s, q \in Sender, t \in Thread : FindOpen(s, t) /\ q # s => sending[q] # t
SnoozesOpen ==
  \A r \in Reminder, d \in SnoozeDays : Snooze(r, d) => status[r] \in Open

\* A sender that looked is the only one on its thread, which has none open.
LookStands(s) ==
  sending[s] # NoThread =>
    OpenOn(sending[s]) = {} /\ \A q \in Sender \ {s} : sending[q] # sending[s]
AtMostOne(t) == \A r, q \in OpenOn(t) : r = q

OneOpenInv ==
  /\ \A r \in Reminder : status[r] \in Open => thread[r] # NoThread
  /\ \A s \in Sender : LookStands(s)
  /\ \A t \in Thread : AtMostOne(t)

\* A step that opens no row and no look.
LEMMA NoneOpened ==
  ASSUME OneOpenInv, UNCHANGED thread,
         \A r \in Reminder : status'[r] \in Open => status[r] \in Open,
         UNCHANGED sending
  PROVE  OneOpenInv'
<1>1. \A t : OpenOn(t)' \subseteq OpenOn(t)
  BY DEF OpenOn
<1>2. \A t \in Thread : AtMostOne(t)'
  BY <1>1 DEF OneOpenInv, AtMostOne
<1>3. \A s \in Sender : LookStands(s)'
  BY <1>1 DEF OneOpenInv, LookStands
<1> QED BY <1>2, <1>3 DEF OneOpenInv

LEMMA OneOpenStep ==
  ASSUME ReminderInv, OneOpenInv, [Next]_vars, SendsAlone, SnoozesOpen
  PROVE  OneOpenInv'
<1>t. TypeOK
  BY DEF ReminderInv
<1>1. ASSUME NEW s \in Sender, NEW t \in Thread, FindOpen(s, t)
      PROVE  OneOpenInv'
  <2>1. /\ UNCHANGED <<status, thread>> /\ OpenOn(t) = {}
        /\ sending' = [sending EXCEPT ![s] = t]
        /\ \A q \in Sender \ {s} : sending[q] # t
    BY <1>1 DEF FindOpen, SendsAlone, rowVars
  <2>2. \A u : OpenOn(u)' = OpenOn(u)
    BY <2>1 DEF OpenOn
  <2>3. \A q \in Sender : sending'[q] = IF q = s THEN t ELSE sending[q]
    BY <1>t, <2>1 DEF TypeOK
  <2>4. ASSUME NEW q \in Sender PROVE LookStands(q)'
    BY <2>1, <2>2, <2>3 DEF OneOpenInv, LookStands
  <2>5. \A u \in Thread : AtMostOne(u)'
    BY <2>2 DEF OneOpenInv, AtMostOne
  <2> QED BY <2>1, <2>4, <2>5 DEF OneOpenInv
<1>2. ASSUME NEW s \in Sender, CreateRow(s)
      PROVE  OneOpenInv'
  <2> DEFINE t == sending[s]
  <2>1. t # NoThread /\ OpenOn(t) = {} /\ \A q \in Sender \ {s} : sending[q] # t
    BY <1>2 DEF CreateRow, OneOpenInv, LookStands
  <2>2. \A q \in Sender : sending'[q] = IF q = s THEN NoThread ELSE sending[q]
    BY <1>2, <1>t DEF CreateRow, TypeOK
  <2>3. PICK new \in SUBSET Reminder :
          /\ \A r, q \in new : r = q
          /\ \A u : OpenOn(u)' = IF u = t THEN OpenOn(u) \cup new ELSE OpenOn(u)
          /\ \A r \in Reminder : status'[r] \in Open => thread'[r] # NoThread
    <3>1. CASE UNCHANGED <<status, thread>>
      <4>1. \A u : OpenOn(u)' = OpenOn(u)
        BY <3>1 DEF OpenOn
      <4> WITNESS {} \in SUBSET Reminder
      <4> QED BY <3>1, <4>1 DEF OneOpenInv
    <3>2. CASE ~UNCHANGED <<status, thread>>
      <4>1. PICK r \in Reminder : /\ status[r] = "NONE"
                                  /\ status' = [status EXCEPT ![r] = "PENDING"]
                                  /\ thread' = [thread EXCEPT ![r] = t]
        BY <1>2, <3>2 DEF CreateRow
      <4>2. \A q \in Reminder : /\ status'[q] = IF q = r THEN "PENDING" ELSE status[q]
                                /\ thread'[q] = IF q = r THEN t ELSE thread[q]
        BY <1>t, <4>1 DEF TypeOK
      <4>3. \A u : OpenOn(u)' = IF u = t THEN OpenOn(u) \cup {r} ELSE OpenOn(u)
        BY <4>1, <4>2 DEF OpenOn, Open
      <4>4. \A q \in Reminder : status'[q] \in Open => thread'[q] # NoThread
        BY <2>1, <4>2 DEF OneOpenInv
      <4> WITNESS {r} \in SUBSET Reminder
      <4> QED BY <4>3, <4>4
    <3> QED BY <3>1, <3>2
  <2> HIDE DEF t
  <2>4. ASSUME NEW u \in Thread PROVE AtMostOne(u)'
    BY <2>1, <2>3 DEF OneOpenInv, AtMostOne
  <2>5. ASSUME NEW q \in Sender, q # s, sending[q] # NoThread PROVE LookStands(q)'
    <3>1. sending'[q] = sending[q] /\ sending[q] # t
      BY <2>1, <2>2, <2>5
    <3>2. OpenOn(sending[q])' = {}
      BY <2>3, <2>5, <3>1 DEF OneOpenInv, LookStands
    <3>3. \A p \in Sender \ {q} : sending'[p] # sending[q]
      BY <2>2, <2>5 DEF OneOpenInv, LookStands
    <3> QED BY <3>1, <3>2, <3>3 DEF LookStands, OpenOn
  <2>6. ASSUME NEW q \in Sender PROVE LookStands(q)'
    <3>1. CASE q = s \/ sending[q] = NoThread
      BY <2>2, <3>1 DEF LookStands
    <3> QED BY <2>5, <3>1
  <2> QED BY <2>3, <2>4, <2>6 DEF OneOpenInv
<1>3. ASSUME NEW r \in Reminder, Dismiss(r) \/ \E d \in SnoozeDays : Snooze(r, d)
      PROVE  OneOpenInv'
  <2>1. UNCHANGED <<thread, sending>>
    BY <1>3 DEF Dismiss, Snooze, senderVars
  <2>2. \/ status' = [status EXCEPT ![r] = "DISMISSED"]
        \/ status' = [status EXCEPT ![r] = "SNOOZED"] /\ status[r] \in Open
    BY <1>3 DEF Dismiss, Snooze, SnoozesOpen
  <2>3. \A q \in Reminder : status'[q] \in Open => status[q] \in Open
    BY <1>t, <2>2 DEF TypeOK, Open
  <2> QED BY <2>1, <2>3, NoneOpened
<1>4. ASSUME NEW c \in Checker, Check(c) \/ Crash(c)
      PROVE  OneOpenInv'
  <2>1. UNCHANGED <<thread, sending>>
    BY <1>4 DEF Check, Begin, Snapshot, Look, Resolve, Trigger, Finish, DigestRead,
                DigestMail, DigestMark, Crash, rowVars, senderVars
  <2>2. \A q \in Reminder : status'[q] \in Open => status[q] \in Open
    BY <1>4, CheckMoves DEF Open
  <2> QED BY <2>1, <2>2, NoneOpened
<1>5. ASSUME NEW t \in Thread, DeleteThread(t)
      PROVE  OneOpenInv'
  <2>1. UNCHANGED <<thread, sending>>
    BY <1>5 DEF DeleteThread, senderVars
  <2>2. \A q \in Reminder : status'[q] \in Open => status[q] \in Open
    BY <1>5 DEF DeleteThread, Open
  <2> QED BY <2>1, <2>2, NoneOpened
<1>6. CASE UNCHANGED <<status, thread, sending>>
  BY <1>6, NoneOpened
<1>7. CASE Tick \/ UNCHANGED vars \/ \E t \in Thread, at \in Time : StoreInbound(t, at)
  BY <1>6, <1>7 DEF Tick, StoreInbound, vars, rowVars, senderVars
<1> QED BY <1>1, <1>2, <1>3, <1>4, <1>5, <1>7 DEF Next

\* createFollowUpReminder leaves one open reminder on a thread at most, as long
\* as no two sends look at once and nobody snoozes a closed one.
THEOREM OneOpenUnlessRaced ==
  Spec => ([][SendsAlone /\ SnoozesOpen]_vars => [](\A t \in Thread : AtMostOne(t)))
<1>1. Init => OneOpenInv
  BY DEF Init, OneOpenInv, LookStands, AtMostOne, OpenOn, Open
<1>2. ReminderInv /\ OneOpenInv /\ [Next]_vars /\ [SendsAlone /\ SnoozesOpen]_vars
        => OneOpenInv'
  <2>1. CASE UNCHANGED vars
    BY <2>1, NoneOpened DEF vars, rowVars, senderVars
  <2> QED BY <2>1, OneOpenStep
<1>3. OneOpenInv => \A t \in Thread : AtMostOne(t)
  BY DEF OneOpenInv
<1> QED BY <1>1, <1>2, <1>3, RemindersSafe, PTL DEF Spec
=============================================================================
