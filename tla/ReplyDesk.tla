----------------------------- MODULE ReplyDesk -----------------------------
(***************************************************************************)
(* One reader on the page of one thread: the composer in the browser       *)
(* (components/thread/ReplyComposer.tsx), the requests it makes, and what  *)
(* the API does with a reply (services/send.ts).  A request goes through   *)
(* a proxy that stops waiting long before the API stops working            *)
(* (lib/apiClient.ts), so a handler may outlive the answer.                *)
(*                                                                         *)
(* A text is one of the drafts as it was offered, or one of the words the  *)
(* reader may have in the box instead, or nothing.                         *)
(***************************************************************************)
EXTENDS Addressing

CONSTANTS
  Words,     \* what the reader may write
  Batch,     \* the generations of drafts: 1, 2, ...
  Choice,    \* the drafts of a generation
  First,     \* the first of them
  Letter,    \* the messages that may be the newest of the thread
  Request,   \* the sends one may confirm: 1, 2, ...
  MaxFaults, \* bound on failures and crashes
  Nothing, None

ASSUME DeskAssumption ==
  /\ Batch \subseteq Nat /\ Request \subseteq Nat /\ MaxFaults \in Nat
  /\ First \in Choice
  /\ Nothing \notin Words \cup (Batch \X Choice)
  /\ None \notin (Batch \X Choice) \cup Request \cup Words \cup {Nothing}
  /\ Words \cap (Batch \X Choice) = {}

VARIABLES
  \* the composer
  box, offered, selected, pendingPick, confirming, scheduling, expectsReply,
  drafting,  \* the generation being asked for, or None
  sending,   \* the send being waited for, or None
  booking,   \* whether a text is being scheduled
  asked,     \* auxiliary: the text a confirmation that is open was asked for
  shown,     \* the recipients on the page
  \* the system
  newest,    \* the newest message of the thread
  req,       \* the handler of each send
  mails,     \* the mails the provider took
  acked,     \* the sends whose mail the provider acknowledged
  watched,   \* the send the reminder of the thread watches, or None
  used,      \* the text each draft was used for, or None
  batch, faults

composer == <<box, offered, selected, pendingPick, confirming, asked, scheduling, expectsReply>>
waits == <<drafting, sending, booking>>
records == <<mails, acked, watched, used>>
vars == <<composer, waits, shown, newest, req, records, batch, faults>>

Draft == Batch \X Choice
Text == Draft \cup Words \cup {Nothing}

\* The stages of sendReply; "answered" and "failed" have an answer on its way.
Stage == {"unused", "arrived", "loaded", "posted", "reminded", "answered", "failed", "lost"}

\* What a confirmed send carries: the text, the draft it came from, the reminder,
\* what was on the screen at the click, and at the one before it.
Handler == [pc: Stage, body: Text, draft: Draft \cup {None}, remind: BOOLEAN, seen: Text,
            asked: Text]

Unused == [pc |-> "unused", body |-> Nothing, draft |-> None, remind |-> FALSE,
           seen |-> Nothing, asked |-> Nothing]

TypeOK ==
  /\ box \in Text /\ offered \subseteq Draft
  /\ selected \in Draft \cup {None} /\ pendingPick \in Draft \cup {None}
  /\ confirming \in BOOLEAN /\ scheduling \in BOOLEAN /\ expectsReply \in BOOLEAN
  /\ asked \in Text
  /\ drafting \in Batch \cup {None} /\ sending \in Request \cup {None}
  /\ booking \in BOOLEAN
  /\ newest \in Letter
  /\ req \in [Request -> Handler]
  /\ mails \subseteq [by: Request, nth: 1..2, text: Text]
  /\ acked \subseteq Request /\ watched \in Request \cup {None}
  /\ used \in [Draft -> Text \cup {None}]
  /\ batch \subseteq Batch /\ faults \in 0..MaxFaults

Init ==
  /\ box = Nothing /\ offered = {} /\ selected = None /\ pendingPick = None
  /\ confirming = FALSE /\ asked = Nothing /\ scheduling = FALSE /\ expectsReply = FALSE
  /\ drafting = None /\ sending = None /\ booking = FALSE
  /\ newest \in Letter /\ shown = Recipients(newest)
  /\ req = [h \in Request |-> Unused]
  /\ mails = {} /\ acked = {} /\ watched = None
  /\ used = [d \in Draft |-> None]
  /\ batch = {} /\ faults = 0

\* The composer is there when there is somebody to reply to.
Open == shown # Nobody

(***************************************************************************)
(* Writing.                                                                *)
(***************************************************************************)

Unasked == confirming' = FALSE /\ asked' = Nothing

\* Mutant of Type: an edit leaves a confirmation open.
TypeUnder ==
  /\ Open
  /\ \E w \in Words \cup {Nothing} : w # box /\ box' = w
  /\ UNCHANGED <<offered, selected, pendingPick, confirming, asked, scheduling,
                 expectsReply, waits, shown, newest, req, records, batch, faults>>

\* The text area: an edit takes a confirmation back.
Type ==
  /\ Open
  /\ \E w \in Words \cup {Nothing} : w # box /\ box' = w
  /\ Unasked
  /\ UNCHANGED <<offered, selected, pendingPick, scheduling, expectsReply, waits, shown,
                 newest, req, records, batch, faults>>

\* generate.mutate
AskDrafts ==
  /\ Open /\ drafting = None
  /\ \E b \in Batch \ batch :
       /\ \A c \in Batch : c < b => c \in batch
       /\ drafting' = b /\ batch' = batch \cup {b}
  /\ UNCHANGED <<composer, sending, booking, shown, newest, req, records, faults>>

\* The first draft lands in the box only when the box is empty.  The library
\* renews the options of a pending mutation at every render, so the answer finds
\* the box as it is, and not as it was at the click.
Fill(b) ==
  IF box = Nothing THEN box' = <<b, First>> /\ selected' = <<b, First>>
                   ELSE UNCHANGED <<box, selected>>

\* generate.onSuccess
DraftsArrive ==
  /\ drafting # None /\ drafting' = None
  /\ offered' = {drafting} \X Choice
  /\ Fill(drafting)
  /\ UNCHANGED <<pendingPick, confirming, asked, scheduling, expectsReply, sending,
                 booking, shown, newest, req, records, batch, faults>>

DraftsFail ==
  /\ drafting # None /\ drafting' = None
  /\ faults < MaxFaults /\ faults' = faults + 1
  /\ UNCHANGED <<composer, sending, booking, shown, newest, req, records, batch>>

\* What the composer takes for an edit: of a draft that is on offer.
Edited == selected \in offered /\ box # selected

Choose(d) == selected' = d /\ box' = d /\ pendingPick' = None

\* pick: one click when there is nothing to lose, as the composer sees it.
Pick(d) ==
  /\ Open /\ d \in offered
  /\ IF box # Nothing /\ d # selected /\ Edited
       THEN pendingPick' = d /\ UNCHANGED <<selected, box>>
       ELSE Choose(d)
  /\ UNCHANGED <<offered, confirming, asked, scheduling, expectsReply, waits, shown,
                 newest, req, records, batch, faults>>

\* Mutant of AnswerPick: there may be no pick to answer.
AnswerNoPick ==
  /\ Open /\ offered # {}
  /\ Choose(pendingPick) \/ (pendingPick' = None /\ UNCHANGED <<selected, box>>)
  /\ UNCHANGED <<offered, confirming, asked, scheduling, expectsReply, waits, shown,
                 newest, req, records, batch, faults>>

\* confirmPick, or "Keep mine".
AnswerPick ==
  /\ Open /\ offered # {} /\ pendingPick # None
  /\ Choose(pendingPick) \/ (pendingPick' = None /\ UNCHANGED <<selected, box>>)
  /\ UNCHANGED <<offered, confirming, asked, scheduling, expectsReply, waits, shown,
                 newest, req, records, batch, faults>>

(***************************************************************************)
(* Sending, in the browser.                                                *)
(***************************************************************************)

\* "Send reply", then "Cancel".
AskConfirm ==
  /\ Open
  /\ \/ /\ ~confirming /\ box # Nothing /\ sending = None
        /\ confirming' = TRUE /\ asked' = box
     \/ confirming /\ Unasked
  /\ UNCHANGED <<box, offered, selected, pendingPick, scheduling, expectsReply, waits,
                 shown, newest, req, records, batch, faults>>

\* send.mutate, of the text that is in the box.
Confirm ==
  /\ Open /\ confirming /\ sending = None
  /\ \E h \in Request :
       /\ req[h].pc = "unused" /\ \A g \in Request : g < h => req[g].pc # "unused"
       /\ sending' = h
       /\ req' = [req EXCEPT ![h] = [pc |-> "arrived", body |-> box, draft |-> selected,
                                     remind |-> expectsReply, seen |-> box,
                                     asked |-> asked]]
  /\ UNCHANGED <<composer, drafting, booking, shown, newest, records, batch, faults>>

Cleared == box' = Nothing /\ offered' = {} /\ selected' = None

\* send.onSuccess, and the refresh of the page.
SendAnswered ==
  /\ sending # None /\ req[sending].pc = "answered"
  /\ sending' = None
  /\ Cleared /\ Unasked
  /\ shown' = Recipients(newest)
  /\ UNCHANGED <<pendingPick, scheduling, expectsReply, drafting, booking, newest, req,
                 records, batch, faults>>

\* "Not sent": the API said so, or nobody answered in time.
SendFails ==
  /\ sending # None /\ sending' = None
  /\ \/ req[sending].pc \in {"failed", "lost"} /\ UNCHANGED faults
     \/ req[sending].pc \notin {"failed", "lost"} /\ faults < MaxFaults /\ faults' = faults + 1
  /\ UNCHANGED <<composer, drafting, booking, shown, newest, req, records, batch>>

(***************************************************************************)
(* Scheduling, in the browser: what becomes of the row is ScheduledSend's.  *)
(***************************************************************************)

\* "Send later", the check box of the panel, and "Cancel".
Panel ==
  /\ Open
  /\ \/ /\ scheduling \/ (~confirming /\ box # Nothing)
        /\ scheduling' = ~scheduling /\ UNCHANGED expectsReply
     \/ /\ scheduling
        /\ expectsReply' = ~expectsReply /\ UNCHANGED scheduling
  /\ UNCHANGED <<box, offered, selected, pendingPick, confirming, asked, waits, shown,
                 newest, req, records, batch, faults>>

\* schedule.mutate; one without a text is refused, and changes nothing.
Schedule ==
  /\ Open /\ scheduling /\ ~booking /\ box # Nothing
  /\ booking' = TRUE
  /\ UNCHANGED <<composer, drafting, sending, shown, newest, req, records, batch, faults>>

\* schedule.onSuccess: a text is scheduled, and the composer is cleared.
Scheduled ==
  /\ booking /\ booking' = FALSE
  /\ Cleared /\ scheduling' = FALSE
  /\ shown' = Recipients(newest)
  /\ UNCHANGED <<pendingPick, confirming, asked, expectsReply, drafting, sending, newest,
                 req, records, batch, faults>>

\* The request is refused, or not answered in time.
ScheduleFails ==
  /\ booking /\ booking' = FALSE
  /\ faults < MaxFaults /\ faults' = faults + 1
  /\ UNCHANGED <<composer, drafting, sending, shown, newest, req, records, batch>>

(***************************************************************************)
(* Sending, in the API: sendReply.                                         *)
(***************************************************************************)

Step(h, from, to) == req[h].pc = from /\ req' = [req EXCEPT ![h].pc = to]

\* Mutant of Load: the reminder is made before the mail is sent.
LoadReminds(h) ==
  /\ Step(h, "arrived", "loaded") /\ req[h].body # Nothing /\ Recipients(newest) # Nobody
  /\ watched' = IF req[h].remind /\ watched = None THEN h ELSE watched
  /\ UNCHANGED <<composer, waits, shown, newest, mails, acked, used, batch, faults>>

\* The thread is read, and its newest message says whom to answer.
Load(h) ==
  /\ \/ Step(h, "arrived", "loaded") /\ req[h].body # Nothing /\ Recipients(newest) # Nobody
     \/ /\ Step(h, "arrived", "failed")
        /\ req[h].body = Nothing \/ Recipients(newest) = Nobody
  /\ UNCHANGED <<composer, waits, shown, newest, records, batch, faults>>

\* Mutant of Sent: the draft the request names is sent.
SentDraft(h) == IF req[h].draft # None THEN req[h].draft ELSE req[h].body

\* The text that leaves: the one the request carries.
Sent(h) == req[h].body

\* The first mail of a request, or another.
Take(h) ==
  LET n == IF \E m \in mails : m.by = h THEN 2 ELSE 1
  IN mails' = mails \cup {[by |-> h, nth |-> n, text |-> Sent(h)]}

\* provider.sendMessage succeeds.
Post(h) ==
  /\ Step(h, "loaded", "posted")
  /\ Take(h) /\ acked' = acked \cup {h}
  /\ UNCHANGED <<composer, waits, shown, newest, watched, used, batch, faults>>

\* Mutant of PostFails: what failed is tried again.
PostRetried(h) ==
  /\ req[h].pc = "loaded"
  /\ faults < MaxFaults /\ faults' = faults + 1
  /\ UNCHANGED req
  /\ UNCHANGED mails \/ Take(h)
  /\ UNCHANGED <<composer, waits, shown, newest, acked, watched, used, batch>>

\* It throws: nothing left, or the mail left and the answer did not come back.
PostFails(h) ==
  /\ Step(h, "loaded", "failed")
  /\ faults < MaxFaults /\ faults' = faults + 1
  /\ UNCHANGED mails \/ Take(h)
  /\ UNCHANGED <<composer, waits, shown, newest, acked, watched, used, batch>>

\* Mutant of Remind: the reminder is not caught.
RemindThrows(h) ==
  /\ \/ /\ Step(h, "posted", "reminded")
        /\ watched' = IF req[h].remind /\ watched = None THEN h ELSE watched
        /\ UNCHANGED faults
     \/ /\ Step(h, "posted", "failed") /\ req[h].remind
        /\ faults < MaxFaults /\ faults' = faults + 1 /\ UNCHANGED watched
  /\ UNCHANGED <<composer, waits, shown, newest, mails, acked, used, batch>>

\* tryCreateReminder: none is added to an open one, and a failure is logged.
Remind(h) ==
  /\ Step(h, "posted", "reminded")
  /\ \/ /\ watched' = IF req[h].remind /\ watched = None THEN h ELSE watched
        /\ UNCHANGED faults
     \/ /\ req[h].remind
        /\ faults < MaxFaults /\ faults' = faults + 1 /\ UNCHANGED watched
  /\ UNCHANGED <<composer, waits, shown, newest, mails, acked, used, batch>>

\* recordDraftFeedback: the text goes beside the draft only when it differs.
Feedback(h) ==
  LET d == req[h].draft IN
  IF d = None THEN used
  ELSE [used EXCEPT ![d] = IF req[h].body = d /\ @ # None THEN @ ELSE req[h].body]

\* Then the handler answers.
Record(h) ==
  /\ Step(h, "reminded", "answered")
  /\ \/ used' = Feedback(h) /\ UNCHANGED faults
     \/ /\ req[h].draft # None
        /\ faults < MaxFaults /\ faults' = faults + 1 /\ UNCHANGED used
  /\ UNCHANGED <<composer, waits, shown, newest, mails, acked, watched, batch>>

\* The process of the API ends, and every handler with it.
Working == {h \in Request : req[h].pc \in {"arrived", "loaded", "posted", "reminded"}}

Crash ==
  /\ Working # {}
  /\ req' = [h \in Request |-> IF h \in Working THEN [req[h] EXCEPT !.pc = "lost"] ELSE req[h]]
  /\ faults < MaxFaults /\ faults' = faults + 1
  /\ UNCHANGED <<composer, waits, shown, newest, records, batch>>

\* A sync brings a message.
Arrive ==
  /\ newest' \in Letter \ {newest}
  /\ UNCHANGED <<composer, waits, shown, req, records, batch, faults>>

(***************************************************************************)
(* The specification.                                                      *)
(***************************************************************************)

Next ==
  \/ Type \/ AskDrafts \/ DraftsArrive \/ DraftsFail
  \/ \E d \in Draft : Pick(d)
  \/ AnswerPick \/ AskConfirm \/ Confirm \/ SendAnswered \/ SendFails
  \/ Panel \/ Schedule \/ Scheduled \/ ScheduleFails
  \/ \E h \in Request : \/ Load(h) \/ Post(h) \/ PostFails(h)
                        \/ Remind(h) \/ Record(h)
  \/ Crash \/ Arrive

Spec == Init /\ [][Next]_vars

(***************************************************************************)
(* Properties.                                                             *)
(***************************************************************************)

\* Rule 1: one mail at most leaves for a click on "Confirm send", and its text is
\* what the box showed at that click, whatever becomes of the box, of the drafts
\* and of the page while the API works (send.ts:10-23).
RuleOne ==
  /\ \A m, n \in mails : m.by = n.by => m = n
  /\ \A m \in mails : m.text = req[m.by].seen /\ m.text # Nothing

\* "Any edit invalidates a pending confirmation: the thing being confirmed was
\* 'send this text'" (ReplyComposer.tsx:419): the reader's own words leave only as
\* he asked to send them, whatever drafts, answers, failures and a scheduled text
\* come between his two clicks.
WordsWereConfirmed == \A m \in mails : m.text \in Words => m.text = req[m.by].asked

\* The API reports no failure for a mail the provider acknowledged, though the
\* reminder and the feedback, which come after, may fail (send.ts:270-300).
FailureIsTrue == \A h \in Request : req[h].pc = "failed" => h \notin acked

\* What is kept of a send is true: a reminder watches a mail that left, and a draft
\* is marked as used for a text that was sent from it (send.ts:270-280, 338-395).
RecordsAreTrue ==
  /\ watched # None => watched \in acked
  /\ \A d \in Draft : used[d] # None =>
       \E m \in mails : m.by \in acked /\ req[m.by].draft = d /\ used[d] = m.text

(***************************************************************************)
(* What does not hold: see the README.                                     *)
(***************************************************************************)

\* The same of a text that is not his own: a draft that is picked, or lands in the
\* box, under a confirmation that is open goes out at one click.
TextsWereConfirmed == \A m \in mails : m.text = req[m.by].asked

\* "The first would silently discard the user's own words" (ReplyComposer.tsx:283):
\* what the reader wrote leaves the box only at his own second click, or sent.
PickKeepsWords ==
  [][(box \in Words /\ box' \in Draft) => pendingPick # None]_vars

\* The box is cleared of nothing but what was sent.
ClearedWasSent ==
  [][sending # None /\ sending' = None /\ box # box' => box = req[sending].body]_vars

\* The mail goes to the people on the page (send.ts:29-35).
ToWhomShown == [][\A h \in Request : req[h].pc = "arrived" /\ req'[h].pc = "loaded" =>
                    Recipients(newest) = shown]_vars

\* A text leaves once.
SentOnce == \A m, n \in mails : m.text = n.text => m = n
=============================================================================
