------------------------------- MODULE Outbox -------------------------------
(***************************************************************************)
(* What the scheduled-send component promises its user, with no queue, no  *)
(* worker, no sweeper and no clock: a mail accepted for later is either    *)
(* withdrawn, and then never delivered, or committed once, and then        *)
(* delivered at most once.  What the user is told afterwards is true, and  *)
(* final but for one thing: a mail reported sent may yet be reported       *)
(* failed, which says nothing either way, and never the other way round.   *)
(* ScheduledSend is shown to implement this module.                        *)
(***************************************************************************)
EXTENDS Naturals

CONSTANT Mail

VARIABLES
  phase,     \* what the user sees of each mail
  committed, \* mails past the point of no return
  delivered  \* how many times the provider accepted each mail

vars == <<phase, committed, delivered>>

Phase ==
  {"NONE", "SCHEDULED", "SENDING", "SENT", "FAILED", "CANCELLED", "DELETED"}

TypeOK ==
  /\ phase \in [Mail -> Phase]
  /\ committed \in SUBSET Mail
  /\ delivered \in [Mail -> 0..1]

Init ==
  /\ phase = [m \in Mail |-> "NONE"]
  /\ committed = {}
  /\ delivered = [m \in Mail |-> 0]

Become(m, from, to) ==
  /\ phase[m] = from
  /\ phase' = [phase EXCEPT ![m] = to]

Accept(m) ==
  /\ Become(m, "NONE", "SCHEDULED")
  /\ UNCHANGED <<committed, delivered>>

\* Only a mail nobody has started to send can be withdrawn.
Withdraw(m) ==
  /\ Become(m, "SCHEDULED", "CANCELLED")
  /\ UNCHANGED <<committed, delivered>>

Commit(m) ==
  /\ Become(m, "SCHEDULED", "SENDING")
  /\ committed' = committed \cup {m}
  /\ UNCHANGED delivered

\* A committed mail may reach the provider even after its record is gone.
Deliver(m) ==
  /\ m \in committed
  /\ phase[m] \in {"SENDING", "DELETED"}
  /\ delivered[m] = 0
  /\ delivered' = [delivered EXCEPT ![m] = 1]
  /\ UNCHANGED <<phase, committed>>

\* "Sent" is said only of a delivered mail; "failed" says nothing either way,
\* and replaces even "sent" when that was written and its answer lost.
Report(m) ==
  /\ \/ Become(m, "SENDING", "SENT") /\ delivered[m] = 1
     \/ Become(m, "SENDING", "FAILED")
     \/ Become(m, "SENT", "FAILED")
  /\ UNCHANGED <<committed, delivered>>

\* The mailbox is deleted: all of its records go at once.
Forget ==
  /\ phase' = [m \in Mail |-> IF phase[m] = "NONE" THEN "NONE" ELSE "DELETED"]
  /\ UNCHANGED <<committed, delivered>>

Next ==
  \/ \E m \in Mail :
       \/ Accept(m)
       \/ Withdraw(m)
       \/ Commit(m)
       \/ Deliver(m)
       \/ Report(m)
  \/ Forget

Spec == Init /\ [][Next]_vars
=============================================================================
