-------------------------- MODULE ReplyDeskProofs --------------------------
(***************************************************************************)
(* Proofs about the reply desk, for any number of texts, drafts, sends and *)
(* faults.  A mail is tied to the request it came from, whose record does  *)
(* not change once it is made but for its stage (Handled); the rest is a   *)
(* walk of the stages.                                                     *)
(***************************************************************************)
EXTENDS ReplyDesk, TLAPS, SequenceTheorems

(***************************************************************************)
(* The helpers.                                                            *)
(***************************************************************************)

\* The References header never names more than twenty messages, and a chain that
\* fits goes out whole (send.ts:135-160).
THEOREM ChainBounded ==
  ASSUME NEW Id, Absent \notin Id,
         NEW references \in Seq(Id), NEW parent \in Id \cup {Absent}
  PROVE  /\ Chain(references, parent) \in Seq(Id)
         /\ Len(Chain(references, parent)) <= MaxChain
         /\ parent \in Id /\ Len(references) < MaxChain =>
              Chain(references, parent) = Append(references, parent)
<1> DEFINE whole == IF parent = Absent THEN references ELSE Append(references, parent)
           n == Len(whole)
<1>1. whole \in Seq(Id) /\ n \in Nat
  OBVIOUS
<1>2. CASE n <= MaxChain
  <2>1. Chain(references, parent) = whole
    BY <1>2 DEF Chain
  <2> QED
    BY <1>1, <1>2, <2>1
<1>3. CASE ~(n <= MaxChain)
  <2>1. n > 20 /\ MaxChain = 20 /\ Oldest = 3
    BY <1>1, <1>3 DEF MaxChain, Oldest
  <2>2. /\ SubSeq(whole, 1, 3) \in Seq(Id) /\ Len(SubSeq(whole, 1, 3)) = 3
        /\ SubSeq(whole, n - 17 + 1, n) \in Seq(Id)
        /\ Len(SubSeq(whole, n - 17 + 1, n)) = 17
    BY <1>1, <2>1
  <2>3. Chain(references, parent) = SubSeq(whole, 1, 3) \o SubSeq(whole, n - 17 + 1, n)
    BY <1>3, <2>1 DEF Chain
  <2>4. PICK a, b \in Seq(Id) : /\ Len(a) = 3 /\ Len(b) = 17
                              /\ Chain(references, parent) = a \o b
    BY <2>2, <2>3
  <2>5. a \o b \in Seq(Id) /\ Len(a \o b) = Len(a) + Len(b)
    BY ConcatProperties
  <2>6. ~(parent \in Id /\ Len(references) < MaxChain)
    BY <1>1, <2>1
  <2> QED
    BY <2>1, <2>4, <2>5, <2>6
<1> QED
  BY <1>2, <1>3

(***************************************************************************)
(* Types.                                                                  *)
(***************************************************************************)

LEMMA DraftsAreTexts == Draft \subseteq Text /\ Nothing \in Text /\ Words \subseteq Text
  BY DEF Text

LEMMA InitTypes == Init => TypeOK
<1> SUFFICES ASSUME Init PROVE TypeOK
  OBVIOUS
<1>1. Unused \in Handler
  BY DEF Unused, Handler, Stage, Text
<1>2. req \in [Request -> Handler] /\ used \in [Draft -> Text \cup {None}]
  BY <1>1 DEF Init
<1>3. confirming \in BOOLEAN /\ scheduling \in BOOLEAN /\ expectsReply \in BOOLEAN
      /\ booking \in BOOLEAN
  BY Zenon DEF Init
<1> QED
  BY <1>2, <1>3, DeskAssumption DEF Init, TypeOK, Text

\* What the reader does to the composer keeps it of its type.
LEMMA ComposerTypes ==
  ASSUME TypeOK,
         \/ Type \/ AskDrafts \/ DraftsArrive \/ DraftsFail \/ AnswerPick \/ AskConfirm
         \/ SendAnswered \/ SendFails \/ Panel \/ Schedule \/ Scheduled \/ ScheduleFails
         \/ Arrive \/ \E d \in Draft : Pick(d)
  PROVE  TypeOK'
<1> USE DraftsAreTexts DEF composer, waits, records
<1>1. CASE Type
  BY <1>1 DEF Type, Unasked, TypeOK
<1>2. CASE AskDrafts
  BY <1>2 DEF AskDrafts, TypeOK
<1>3. CASE DraftsArrive
  <2>1. drafting \in Batch /\ {drafting} \X Choice \subseteq Draft
    BY <1>3 DEF DraftsArrive, TypeOK, Draft
  <2>2. <<drafting, First>> \in Draft
    BY <2>1, DeskAssumption DEF Draft
  <2> QED
    BY <1>3, <2>1, <2>2 DEF DraftsArrive, Fill, TypeOK
<1>4. CASE DraftsFail
  BY <1>4, DeskAssumption DEF DraftsFail, TypeOK
<1>5. CASE AnswerPick
  BY <1>5 DEF AnswerPick, Choose, TypeOK
<1>6. CASE AskConfirm
  BY <1>6 DEF AskConfirm, Unasked, TypeOK
<1>7. CASE SendAnswered
  BY <1>7 DEF SendAnswered, Cleared, Unasked, TypeOK
<1>8. CASE SendFails
  BY <1>8, DeskAssumption DEF SendFails, TypeOK
<1>9. CASE Panel
  BY <1>9 DEF Panel, TypeOK
<1>10. CASE Schedule
  BY <1>10 DEF Schedule, TypeOK
<1>11. CASE Scheduled
  BY <1>11 DEF Scheduled, Cleared, TypeOK
<1>12. CASE ScheduleFails
  <2>1. booking' \in BOOLEAN
    BY <1>12, Zenon DEF ScheduleFails
  <2>2. faults' \in 0..MaxFaults
    BY <1>12, DeskAssumption DEF ScheduleFails, TypeOK
  <2> QED
    BY <1>12, <2>1, <2>2 DEF ScheduleFails, TypeOK
<1>13. CASE Arrive
  BY <1>13 DEF Arrive, TypeOK
<1>14. CASE \E d \in Draft : Pick(d)
  <2>1. PICK d \in Draft : Pick(d)
    BY <1>14
  <2>2. d \in Text
    OBVIOUS
  <2>3. box' \in Text /\ selected' \in Draft \cup {None} /\ pendingPick' \in Draft \cup {None}
    BY <2>1, <2>2 DEF Pick, Choose, TypeOK
  <2> QED
    BY <2>1, <2>3 DEF Pick, TypeOK
<1> QED
  BY <1>1, <1>2, <1>3, <1>4, <1>5, <1>6, <1>7, <1>8, <1>9, <1>10, <1>11, <1>12, <1>13,
     <1>14

(***************************************************************************)
(* The handlers.                                                           *)
(***************************************************************************)

Before == {"unused", "arrived", "loaded"}
After == {"posted", "reminded", "answered"}

\* A request carries what was on the screen, and a mail is the only one of a
\* request that got as far as the provider, in its words.
Handled ==
  /\ \A h \in Request : /\ req[h].body = req[h].seen
                        /\ req[h].pc \in After \cup {"loaded"} => req[h].body # Nothing
  /\ \A m \in mails : /\ m.nth = 1 /\ m.text = req[m.by].body /\ m.text # Nothing
                      /\ req[m.by].pc \notin Before
  /\ \A h \in Request : req[h].pc \in After => h \in acked
  /\ \A h \in acked : /\ req[h].pc \notin Before \cup {"failed"}
                      /\ \E m \in mails : m.by = h
  /\ RecordsAreTrue

\* While a confirmation is open the reader's own words in the box are those it
\* was asked for, and a request has taken them along.
Confirmed ==
  /\ confirming /\ box \in Words => box = asked
  /\ \A h \in Request : req[h].body \in Words => req[h].body = req[h].asked

Inv == TypeOK /\ Handled /\ Confirmed

LEMMA InitHandled == Init => Handled
  BY DEF Init, Handled, RecordsAreTrue, Unused, Before, After

\* What a step of a handler does to its record: a stage, and nothing else.
LEMMA Steps ==
  ASSUME TypeOK, NEW h \in Request, NEW a \in Stage, NEW b \in Stage, Step(h, a, b)
  PROVE  /\ req' \in [Request -> Handler]
         /\ req[h].pc = a /\ req'[h].pc = b
         /\ \A g \in Request : /\ req'[g].body = req[g].body /\ req'[g].seen = req[g].seen
                               /\ req'[g].draft = req[g].draft
                               /\ req'[g].remind = req[g].remind
                               /\ req'[g].asked = req[g].asked
                               /\ g # h => req'[g] = req[g]
  BY DEF Step, TypeOK, Handler

\* Each step of a handler keeps the types.
LEMMA HandlerTypes ==
  ASSUME TypeOK, NEW h \in Request,
         Load(h) \/ Post(h) \/ PostFails(h) \/ Remind(h) \/ Record(h)
  PROVE  TypeOK'
<1> USE DEF composer, waits, records
<1> DEFINE Rest == /\ req' \in [Request -> Handler] /\ faults' \in 0..MaxFaults
                   /\ mails' \subseteq [by: Request, nth: 1..2, text: Text]
                   /\ acked' \subseteq Request /\ watched' \in Request \cup {None}
                   /\ used' \in [Draft -> Text \cup {None}]
<1>0. Step(h, "arrived", "loaded") \/ Step(h, "arrived", "failed") \/ Step(h, "loaded", "posted")
      \/ Step(h, "loaded", "failed") \/ Step(h, "posted", "reminded")
      \/ Step(h, "reminded", "answered") => req' \in [Request -> Handler]
  BY Steps DEF Stage
<1>1. Take(h) => mails' \subseteq [by: Request, nth: 1..2, text: Text]
  <2> SUFFICES ASSUME Take(h) PROVE mails' \subseteq [by: Request, nth: 1..2, text: Text]
    OBVIOUS
  <2>1. PICK n \in 1..2 : mails' = mails \cup {[by |-> h, nth |-> n, text |-> Sent(h)]}
    BY 1 \in 1..2, 2 \in 1..2 DEF Take
  <2>2. Sent(h) \in Text
    BY DEF Sent, TypeOK, Handler
  <2>3. [by |-> h, nth |-> n, text |-> Sent(h)] \in [by: Request, nth: 1..2, text: Text]
    BY <2>2
  <2> QED
    BY <2>1, <2>3 DEF TypeOK
<1>2. CASE Load(h)
  <2>1. Rest
    BY <1>0, <1>2 DEF Load, TypeOK
  <2> QED
    BY <1>2, <2>1 DEF Load, TypeOK
<1>3. CASE Post(h)
  <2>1. Rest
    BY <1>0, <1>1, <1>3 DEF Post, TypeOK
  <2> QED
    BY <1>3, <2>1 DEF Post, TypeOK
<1>4. CASE PostFails(h)
  <2>1. Rest
    BY <1>0, <1>1, <1>4, DeskAssumption DEF PostFails, TypeOK
  <2> QED
    BY <1>4, <2>1 DEF PostFails, TypeOK
<1>5. CASE Remind(h)
  <2>1. Rest
    BY <1>0, <1>5, DeskAssumption DEF Remind, TypeOK
  <2> QED
    BY <1>5, <2>1 DEF Remind, TypeOK
<1>6. CASE Record(h)
  <2>1. req[h].draft \in Draft \cup {None} /\ req[h].body \in Text
    BY DEF TypeOK, Handler
  <2>2. Feedback(h) \in [Draft -> Text \cup {None}]
    BY <2>1 DEF Feedback, TypeOK
  <2>3. Rest
    BY <1>0, <1>6, <2>2, DeskAssumption DEF Record, TypeOK
  <2> QED
    BY <1>6, <2>3 DEF Record, TypeOK
<1> QED
  BY <1>2, <1>3, <1>4, <1>5, <1>6

LEMMA ConfirmTypes ==
  ASSUME TypeOK, Confirm
  PROVE  TypeOK'
<1> USE DEF composer, waits, records
<1>1. PICK h \in Request :
        /\ sending' = h
        /\ req' = [req EXCEPT ![h] = [pc |-> "arrived", body |-> box, draft |-> selected,
                                     remind |-> expectsReply, seen |-> box,
                                     asked |-> asked]]
  BY DEF Confirm
<1>2. [pc |-> "arrived", body |-> box, draft |-> selected, remind |-> expectsReply,
       seen |-> box, asked |-> asked] \in Handler
  BY DEF TypeOK, Handler, Stage
<1>3. req' \in [Request -> Handler] /\ sending' \in Request \cup {None}
  BY <1>1, <1>2 DEF TypeOK
<1> QED
  BY <1>3 DEF Confirm, TypeOK

\* What an end of the process does to the records.
LEMMA Crashed ==
  ASSUME TypeOK, Crash
  PROVE  /\ req' \in [Request -> Handler]
         /\ \A g \in Request : /\ req'[g].body = req[g].body /\ req'[g].seen = req[g].seen
                               /\ req'[g].draft = req[g].draft
                               /\ req'[g].asked = req[g].asked
                               /\ req'[g].pc = req[g].pc
                                  \/ (req[g].pc # "unused" /\ req'[g].pc = "lost")
<1> SUFFICES ASSUME NEW g \in Request
             PROVE  /\ IF g \in Working THEN [req[g] EXCEPT !.pc = "lost"] \in Handler
                                         ELSE req[g] \in Handler
                    /\ req'[g].body = req[g].body /\ req'[g].seen = req[g].seen
                    /\ req'[g].draft = req[g].draft /\ req'[g].asked = req[g].asked
                    /\ \/ req'[g].pc = req[g].pc
                       \/ req[g].pc # "unused" /\ req'[g].pc = "lost"
  BY DEF Crash
<1>1. req[g] \in Handler
  BY DEF TypeOK
<1> QED
  BY <1>1 DEF Crash, Working, Handler, Stage

LEMMA CrashTypes ==
  ASSUME TypeOK, Crash
  PROVE  TypeOK'
  BY Crashed, DeskAssumption DEF Crash, TypeOK, composer, waits, records

LEMMA StepTypes ==
  ASSUME TypeOK, [Next]_vars
  PROVE  TypeOK'
<1>1. CASE UNCHANGED vars
  BY <1>1 DEF vars, composer, waits, records, TypeOK
<1> QED
  BY <1>1, ComposerTypes, HandlerTypes, ConfirmTypes, CrashTypes DEF Next

\* Every variable of the desk has its type, whatever the texts, drafts and sends.
THEOREM Types == Spec => []TypeOK
  BY InitTypes, StepTypes, PTL DEF Spec

(***************************************************************************)
(* The handlers keep their promises.                                       *)
(***************************************************************************)

\* Nothing is said of a step that leaves the requests and their traces alone.
LEMMA Untouched ==
  ASSUME Handled, UNCHANGED <<req, mails, acked, watched, used>>
  PROVE  Handled'
  BY DEF Handled, RecordsAreTrue

LEMMA ConfirmHandled ==
  ASSUME TypeOK, Handled, Confirm
  PROVE  Handled'
<1> USE DEF records
<1>1. PICK h \in Request :
        /\ req[h].pc = "unused"
        /\ req' = [req EXCEPT ![h] = [pc |-> "arrived", body |-> box, draft |-> selected,
                                     remind |-> expectsReply, seen |-> box,
                                     asked |-> asked]]
  BY DEF Confirm
<1>2. \A g \in Request : g # h => req'[g] = req[g]
  BY <1>1 DEF TypeOK
<1>3. req'[h].pc = "arrived" /\ req'[h].body = req'[h].seen
  BY <1>1 DEF TypeOK
<1>4. h \notin acked /\ \A m \in mails : m.by \in Request /\ m.by # h
  BY <1>1 DEF Handled, Before, TypeOK
<1>5. UNCHANGED <<mails, acked, watched, used>>
  BY DEF Confirm
<1>6. \A g \in Request : req'[g].body = req'[g].seen
        /\ (req'[g].pc \in After \cup {"loaded"} => req'[g].body # Nothing)
        /\ (req'[g].pc \in After => g \in acked)
  BY <1>2, <1>3 DEF Handled, After
<1>7. \A m \in mails : m.nth = 1 /\ m.text = req'[m.by].body /\ m.text # Nothing
                       /\ req'[m.by].pc \notin Before
  BY <1>2, <1>4 DEF Handled
<1>8. \A g \in acked : req'[g].pc \notin Before \cup {"failed"} /\ \E m \in mails : m.by = g
  BY <1>2, <1>4 DEF Handled, TypeOK
<1>9. RecordsAreTrue'
  BY <1>2, <1>4, <1>5 DEF Handled, RecordsAreTrue
<1> QED
  BY <1>5, <1>6, <1>7, <1>8, <1>9 DEF Handled

\* A mail that is taken is the first of its request, in the words it carries.
LEMMA Taken ==
  ASSUME Handled, NEW h \in Request, req[h].pc = "loaded", Take(h)
  PROVE  mails' = mails \cup {[by |-> h, nth |-> 1, text |-> req[h].body]}
<1>1. \A m \in mails : m.by # h
  BY DEF Handled, Before
<1> QED
  BY <1>1 DEF Take, Sent

LEMMA LoadHandled ==
  ASSUME TypeOK, Handled, NEW h \in Request, Load(h)
  PROVE  Handled'
<1> USE DEF records
<1>1. PICK b \in {"loaded", "failed"} :
        Step(h, "arrived", b) /\ (b = "loaded" => req[h].body # Nothing)
  BY DEF Load
<1>2. /\ req[h].pc = "arrived" /\ req'[h].pc \in {"loaded", "failed"}
      /\ req'[h].pc = "loaded" => req[h].body # Nothing
      /\ \A g \in Request : /\ req'[g].body = req[g].body /\ req'[g].seen = req[g].seen
                            /\ req'[g].draft = req[g].draft
                            /\ g # h => req'[g] = req[g]
  BY <1>1, Steps DEF Stage
<1>3. UNCHANGED <<mails, acked, watched, used>>
  BY DEF Load
<1>4. h \notin acked /\ \A m \in mails : m.by \in Request /\ m.by # h
  BY <1>2 DEF Handled, Before, TypeOK
<1>5. \A g \in Request : req'[g].body = req'[g].seen
        /\ (req'[g].pc \in After \cup {"loaded"} => req'[g].body # Nothing)
        /\ (req'[g].pc \in After => g \in acked)
  BY <1>2 DEF Handled, After
<1>6. \A m \in mails : m.nth = 1 /\ m.text = req'[m.by].body /\ m.text # Nothing
                       /\ req'[m.by].pc \notin Before
  BY <1>2, <1>4 DEF Handled
<1>7. \A g \in acked : req'[g].pc \notin Before \cup {"failed"} /\ \E m \in mails : m.by = g
  BY <1>2, <1>4 DEF Handled, TypeOK
<1>8. RecordsAreTrue'
  BY <1>2, <1>3, <1>4 DEF Handled, RecordsAreTrue
<1> QED
  BY <1>3, <1>5, <1>6, <1>7, <1>8 DEF Handled

LEMMA PostHandled ==
  ASSUME TypeOK, Handled, NEW h \in Request, Post(h) \/ PostFails(h)
  PROVE  Handled'
<1> USE DEF records
<1> DEFINE mail == [by |-> h, nth |-> 1, text |-> req[h].body]
<1>1. \/ /\ Step(h, "loaded", "posted") /\ Take(h) /\ acked' = acked \cup {h}
      \/ /\ Step(h, "loaded", "failed") /\ (UNCHANGED mails \/ Take(h))
         /\ UNCHANGED acked
  BY DEF Post, PostFails
<1>2. /\ req[h].pc = "loaded" /\ req'[h].pc \in {"posted", "failed"}
      /\ \A g \in Request : /\ req'[g].body = req[g].body /\ req'[g].seen = req[g].seen
                            /\ req'[g].draft = req[g].draft
                            /\ g # h => req'[g] = req[g]
  BY <1>1, Steps DEF Stage
<1>3. \/ req'[h].pc = "posted" /\ mails' = mails \cup {mail} /\ acked' = acked \cup {h}
      \/ req'[h].pc = "failed" /\ mails' \in {mails, mails \cup {mail}} /\ acked' = acked
  BY <1>1, <1>2, Taken, Steps DEF Stage
<1>4. UNCHANGED <<watched, used>>
  BY DEF Post, PostFails
<1>5. /\ h \notin acked /\ req[h].body # Nothing
      /\ \A m \in mails : m.by \in Request /\ m.by # h
  BY <1>2 DEF Handled, Before, After, TypeOK
<1>6. \A g \in Request : req'[g].body = req'[g].seen
        /\ (req'[g].pc \in After \cup {"loaded"} => req'[g].body # Nothing)
        /\ (req'[g].pc \in After => g \in acked')
  BY <1>2, <1>3, <1>5 DEF Handled, After
<1>7. /\ mail.nth = 1 /\ mail.by = h /\ mail.text = req[h].body
      /\ \A m \in mails' : m \in mails \/ m = mail
      /\ mails \subseteq mails'
  BY <1>3
<1> HIDE DEF mail
<1>8. \A m \in mails' : m.nth = 1 /\ m.text = req'[m.by].body /\ m.text # Nothing
                        /\ req'[m.by].pc \notin Before
  BY <1>2, <1>5, <1>7 DEF Handled, Before
<1>9. \A g \in acked' : req'[g].pc \notin Before \cup {"failed"} /\ \E m \in mails' : m.by = g
  <2>1. \A g \in acked : req'[g].pc \notin Before \cup {"failed"} /\ \E m \in mails' : m.by = g
    BY <1>2, <1>5, <1>7 DEF Handled, TypeOK
  <2>2. h \in acked' => req'[h].pc = "posted" /\ mail \in mails'
    BY <1>3, <1>5
  <2> QED
    BY <1>3, <1>7, <2>1, <2>2 DEF Before
<1>10. RecordsAreTrue'
  <2>1. watched' # None => watched' \in acked'
    BY <1>3, <1>4 DEF Handled, RecordsAreTrue
  <2>2. ASSUME NEW d \in Draft, used[d] # None
        PROVE  \E m \in mails' : m.by \in acked' /\ req'[m.by].draft = d /\ used[d] = m.text
    <3>1. PICK m \in mails : m.by \in acked /\ req[m.by].draft = d /\ used[d] = m.text
      BY <2>2 DEF Handled, RecordsAreTrue
    <3> QED
      BY <3>1, <1>2, <1>3, <1>5, <1>7
  <2> QED
    BY <1>4, <2>1, <2>2 DEF RecordsAreTrue
<1> QED
  BY <1>6, <1>8, <1>9, <1>10 DEF Handled

\* The bookkeeping after the send, and its failures.
LEMMA LaterHandled ==
  ASSUME TypeOK, Handled, NEW h \in Request, Remind(h) \/ Record(h)
  PROVE  Handled'
<1> USE DEF records
<1>1. \/ Step(h, "posted", "reminded") \/ Step(h, "reminded", "answered")
  BY DEF Remind, Record
<1>2. /\ req[h].pc \in {"posted", "reminded"} /\ req'[h].pc \in {"reminded", "answered"}
      /\ \A g \in Request : /\ req'[g].body = req[g].body /\ req'[g].seen = req[g].seen
                            /\ req'[g].draft = req[g].draft
                            /\ g # h => req'[g] = req[g]
  BY <1>1, Steps DEF Stage
<1>3. /\ UNCHANGED <<mails, acked>>
      /\ watched' \in {watched, h}
      /\ used' \in {used, Feedback(h)}
  BY DEF Remind, Record
<1>4. h \in acked /\ req[h].body # Nothing
  BY <1>2 DEF Handled, After
<1>5. \A g \in Request : req'[g].body = req'[g].seen
        /\ (req'[g].pc \in After \cup {"loaded"} => req'[g].body # Nothing)
        /\ (req'[g].pc \in After => g \in acked)
  BY <1>2, <1>4 DEF Handled, After
<1>6. \A m \in mails : m.nth = 1 /\ m.text = req'[m.by].body /\ m.text # Nothing
                       /\ req'[m.by].pc \notin Before
  BY <1>2 DEF Handled, TypeOK, Before
<1>7. \A g \in acked : req'[g].pc \notin Before \cup {"failed"} /\ \E m \in mails : m.by = g
  BY <1>2 DEF Handled, TypeOK, Before
<1>8. RecordsAreTrue'
  <2>1. watched' # None => watched' \in acked
    BY <1>3, <1>4 DEF Handled, RecordsAreTrue
  <2>2. ASSUME NEW d \in Draft, used'[d] # None
        PROVE  \E m \in mails : m.by \in acked /\ req'[m.by].draft = d /\ used'[d] = m.text
    <3>1. CASE used'[d] = used[d]
      <4>1. PICK m \in mails : m.by \in acked /\ req[m.by].draft = d /\ used[d] = m.text
        BY <2>2, <3>1 DEF Handled, RecordsAreTrue
      <4> QED
        BY <3>1, <4>1, <1>2 DEF TypeOK
    <3>2. CASE used'[d] # used[d]
      <4>1. used'[d] = req[h].body /\ req[h].draft = d
        BY <1>3, <3>2 DEF Feedback, TypeOK
      <4>2. PICK m \in mails : m.by = h /\ m.text = req[h].body
        BY <1>4 DEF Handled
      <4> QED
        BY <4>1, <4>2, <1>2, <1>4
    <3> QED
      BY <3>1, <3>2
  <2> QED
    BY <1>3, <2>1, <2>2 DEF RecordsAreTrue
<1> QED
  BY <1>3, <1>5, <1>6, <1>7, <1>8 DEF Handled

LEMMA CrashHandled ==
  ASSUME TypeOK, Handled, Crash
  PROVE  Handled'
<1> USE DEF records
<1>1. UNCHANGED <<mails, acked, watched, used>>
  BY DEF Crash
<1>2. \A g \in Request : /\ req'[g].body = req[g].body /\ req'[g].seen = req[g].seen
                         /\ req'[g].draft = req[g].draft
                         /\ req'[g].pc = req[g].pc
                            \/ (req[g].pc # "unused" /\ req'[g].pc = "lost")
  BY Crashed
<1>3. (\A m \in mails : m.by \in Request) /\ acked \subseteq Request
  BY DEF TypeOK
<1>4. \A g \in Request : req'[g].body = req'[g].seen
        /\ (req'[g].pc \in After \cup {"loaded"} => req'[g].body # Nothing)
        /\ (req'[g].pc \in After => g \in acked)
  BY <1>2 DEF Handled, After
<1>5. \A m \in mails : m.nth = 1 /\ m.text = req'[m.by].body /\ m.text # Nothing
                       /\ req'[m.by].pc \notin Before
  BY <1>2, <1>3 DEF Handled, Before
<1>6. \A g \in acked : req'[g].pc \notin Before \cup {"failed"} /\ \E m \in mails : m.by = g
  BY <1>2, <1>3 DEF Handled, Before
<1>7. RecordsAreTrue'
  BY <1>1, <1>2, <1>3 DEF Handled, RecordsAreTrue
<1> QED
  BY <1>1, <1>4, <1>5, <1>6, <1>7 DEF Handled

LEMMA StepHandled ==
  ASSUME TypeOK, Handled, [Next]_vars
  PROVE  Handled'
<1>1. CASE UNCHANGED vars
  BY <1>1, Untouched DEF vars, records
<1>2. ASSUME \/ Type \/ AskDrafts \/ DraftsArrive \/ DraftsFail \/ AnswerPick \/ AskConfirm
             \/ SendAnswered \/ SendFails \/ Panel \/ Schedule \/ Scheduled
             \/ ScheduleFails \/ Arrive \/ \E d \in Draft : Pick(d)
      PROVE  Handled'
  <2>1. UNCHANGED <<req, mails, acked, watched, used>>
    BY <1>2 DEF Type, AskDrafts, DraftsArrive, DraftsFail, AnswerPick, AskConfirm,
         SendAnswered, SendFails, Panel, Schedule, Scheduled, ScheduleFails, Arrive, Pick,
         records
  <2> QED
    BY <2>1, Untouched
<1> QED
  BY <1>1, <1>2, ConfirmHandled, LoadHandled, PostHandled, LaterHandled, CrashHandled
     DEF Next

(***************************************************************************)
(* What was asked for.  Only a click on "Send reply" opens a confirmation, *)
(* and only typing puts words into the box: it closes it.                  *)
(***************************************************************************)

LEMMA InitConfirmed == Init => Confirmed
  BY DeskAssumption DEF Init, Confirmed, Unused

\* A step that leaves the requests, and may put no words of his into the box.
LEMMA ConfirmedKept ==
  ASSUME Confirmed, \A h \in Request : /\ req'[h].body = req[h].body
                                       /\ req'[h].asked = req[h].asked,
         \/ ~confirming'
         \/ confirming' = confirming /\ asked' = asked /\ (box' = box \/ box' \notin Words)
  PROVE  Confirmed'
  BY DEF Confirmed

LEMMA StepConfirmed ==
  ASSUME TypeOK, Confirmed, [Next]_vars
  PROVE  Confirmed'
<1> USE DEF composer
<1>d. \A d \in Draft \cup {Nothing, None} : d \notin Words
  BY DeskAssumption DEF Draft
<1>1. ASSUME \/ Type \/ SendAnswered \/ DraftsArrive \/ AnswerPick \/ Scheduled
             \/ \E d \in Draft : Pick(d)
      PROVE  Confirmed'
  <2>1. req' = req
    BY <1>1 DEF Type, SendAnswered, DraftsArrive, AnswerPick, Scheduled, Pick
  <2>2. Type \/ SendAnswered => ~confirming'
    BY DEF Type, SendAnswered, Unasked
  <2>3. DraftsArrive => UNCHANGED <<confirming, asked>> /\ (box' = box \/ box' \notin Words)
    <3>1. drafting # None => <<drafting, First>> \in Draft
      BY DeskAssumption DEF TypeOK, Draft
    <3> QED BY <1>d, <3>1 DEF DraftsArrive, Fill
  <2>4. AnswerPick => UNCHANGED <<confirming, asked>> /\ (box' = box \/ box' \notin Words)
    BY <1>d DEF AnswerPick, Choose, TypeOK
  <2>5. Scheduled => UNCHANGED <<confirming, asked>> /\ box' \notin Words
    BY <1>d DEF Scheduled, Cleared
  <2>6. ASSUME NEW d \in Draft, Pick(d)
        PROVE  UNCHANGED <<confirming, asked>> /\ (box' = box \/ box' \notin Words)
    BY <1>d, <2>6 DEF Pick, Choose
  <2> QED
    BY <1>1, <2>1, <2>2, <2>3, <2>4, <2>5, <2>6, ConfirmedKept
<1>2. CASE AskConfirm
  BY <1>2 DEF AskConfirm, Unasked, Confirmed
<1>3. CASE Confirm
  <2>1. PICK h \in Request :
          req' = [req EXCEPT ![h] = [pc |-> "arrived", body |-> box, draft |-> selected,
                                     remind |-> expectsReply, seen |-> box,
                                     asked |-> asked]]
    BY <1>3 DEF Confirm
  <2>2. req'[h].body = box /\ req'[h].asked = asked /\ \A g \in Request \ {h} : req'[g] = req[g]
    BY <2>1 DEF TypeOK
  <2>3. confirming /\ UNCHANGED composer
    BY <1>3 DEF Confirm
  <2> QED
    BY <2>2, <2>3 DEF Confirmed
<1>4. ASSUME NEW h \in Request,
             Load(h) \/ Post(h) \/ PostFails(h) \/ Remind(h) \/ Record(h)
      PROVE  Confirmed'
  <2>1. PICK a \in Stage, b \in Stage : Step(h, a, b)
    BY <1>4 DEF Load, Post, PostFails, Remind, Record, Stage
  <2>2. UNCHANGED composer
    BY <1>4 DEF Load, Post, PostFails, Remind, Record
  <2> QED
    BY <2>1, <2>2, Steps, ConfirmedKept
<1>5. CASE Crash
  BY <1>5, Crashed, ConfirmedKept DEF Crash
<1>6. CASE UNCHANGED <<req, box, confirming, asked>>
  BY <1>6, ConfirmedKept
<1> QED
  BY <1>1, <1>2, <1>3, <1>4, <1>5, <1>6
     DEF Next, vars, AskDrafts, DraftsFail, SendFails, Panel, Schedule, ScheduleFails, Arrive

LEMMA Invariant == Spec => []Inv
<1>1. Init => Inv
  BY InitTypes, InitHandled, InitConfirmed DEF Inv
<1>2. Inv /\ [Next]_vars => Inv'
  BY StepTypes, StepHandled, StepConfirmed DEF Inv
<1> QED
  BY <1>1, <1>2, PTL DEF Spec

\* At most one mail leaves for a confirmation, in the words the reader had on the
\* screen, however many sends, drafts, failures and crashes there are.
THEOREM OneInItsWords == Spec => []RuleOne
<1>1. Inv => RuleOne
  <2> SUFFICES ASSUME Inv PROVE RuleOne
    OBVIOUS
  <2>1. \A m \in mails : m \in [by: Request, nth: 1..2, text: Text]
    BY DEF Inv, TypeOK
  <2>2. ASSUME NEW m \in mails, NEW n \in mails, m.by = n.by PROVE m = n
    <3>1. m.nth = n.nth /\ m.text = n.text
      BY <2>2 DEF Inv, Handled
    <3> QED
      BY <2>1, <2>2, <3>1
  <2>3. \A m \in mails : m.text = req[m.by].seen /\ m.text # Nothing
    BY <2>1 DEF Inv, Handled
  <2> QED
    BY <2>2, <2>3 DEF RuleOne
<1> QED
  BY <1>1, Invariant, PTL

\* A send the API reports as failed is one the provider did not acknowledge.
THEOREM FailuresAreTrue == Spec => []FailureIsTrue
<1>1. Inv => FailureIsTrue
  BY DEF Inv, Handled, FailureIsTrue
<1> QED
  BY <1>1, Invariant, PTL

\* Reminders watch, and drafts are marked as used for, mails that left.
THEOREM TrueRecords == Spec => []RecordsAreTrue
<1>1. Inv => RecordsAreTrue
  BY DEF Inv, Handled
<1> QED
  BY <1>1, Invariant, PTL

\* The reader's own words leave only as he asked to send them: what the composer
\* does between the two clicks of a send puts no others of his under the second.
THEOREM NoWordsUnasked == Spec => []WordsWereConfirmed
<1>1. Inv => WordsWereConfirmed
  BY DEF Inv, TypeOK, Handled, Confirmed, WordsWereConfirmed
<1> QED
  BY <1>1, Invariant, PTL
=============================================================================
