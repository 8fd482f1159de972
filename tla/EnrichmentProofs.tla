-------------------------- MODULE EnrichmentProofs --------------------------
(***************************************************************************)
(* What the AI pipeline guarantees for every thread, every number of       *)
(* workers, every cap and every choice of settings and faults: the types,  *)
(* that the cap of a day is passed by less than the number of workers,     *)
(* that nothing is paid for twice while nothing fails, and what the        *)
(* verdicts of the phishing analysis promise.                              *)
(***************************************************************************)
EXTENDS Enrichment, Verdict, JobQueueProofs, FiniteSetTheorems, TLAPS

\* The initial state of a worker and of a thread, and what a settings record is.
LEMMA Values ==
  /\ 0 \in Body /\ Empty \in ThreadState /\ Rest \in Run
  /\ Choices \subseteq Settings
  /\ \A r \in Run : ToSummary(r) \in Step /\ ToThreat(r) \in Step /\ ToClassify(r) \in Step
<1>1. 0 \in Body
  BY EnrichAssumption DEF Body
<1>2. Empty \in ThreadState
  BY <1>1 DEF Empty, ThreadState
<1>3. AllOn \in Settings /\ Choices \subseteq Settings
  BY EnrichAssumption
<1>4. Rest \in Run
  BY <1>1, <1>2, <1>3 DEF Rest, Run, Step, Level
<1>5. \A r \in Run : ToSummary(r) \in Step /\ ToThreat(r) \in Step /\ ToClassify(r) \in Step
  BY DEF ToSummary, ToThreat, ToClassify, Step
<1> QED BY <1>1, <1>2, <1>3, <1>4, <1>5

\* What a step of a worker leaves in run is a run again.
LEMMA MoveType ==
  ASSUME TypeOK, NEW w \in Worker, NEW step \in Step, Move(w, step)
  PROVE  TypeOK'
<1>1. run[w] \in Run
  BY DEF TypeOK
<1>2. [run[w] EXCEPT !.pc = step] \in Run
  BY <1>1 DEF Run
<1>3. run' \in [Worker -> Run]
  BY <1>2 DEF TypeOK, Move, Goto
<1>4. QueueTypeOK'
  BY IdleQueueType DEF TypeOK, Move
<1> QED BY <1>3, <1>4 DEF TypeOK, Move, dataVars, jobVars, countVars

\* The initial state is well typed.
LEMMA InitTypes == Init => TypeOK
<1> SUFFICES ASSUME Init PROVE TypeOK
  OBVIOUS
<1>1. QueueTypeOK
  BY QueueAssumption DEF Init, QueueInit, QueueTypeOK, JobState
<1>2. run \in [Worker -> Run]
  BY Values DEF Init
<1>3. row \in [Id -> Row]
  BY Values DEF Init, Row, Level
<1>4. settings \in Choices /\ body \in ThreadState
  BY Values, EnrichAssumption DEF Init
<1>5. /\ ask \in [Id -> [force: BOOLEAN, again: BOOLEAN]]
      /\ tries \in [Id -> 0..(Attempts - 1)]
      /\ forces \in 0..MaxForces /\ faults \in 0..MaxFaults
  BY EnrichAssumption DEF Init
<1> QED BY <1>1, <1>2, <1>3, <1>4, <1>5 DEF Init, TypeOK, Level

\* Producers, settings, days and the queue's own steps keep the types.
LEMMA ProducerTypes ==
  ASSUME TypeOK,
         \/ \E m \in Id : Store(m) \/ PromoteJob(m) \/ StallJob(m) \/ LoseJob(m)
         \/ \E o \in orders : Enqueue(o) \/ Forget(o)
         \/ \E l \in locks : Lapse(l)
         \/ Sweep \/ Recompute \/ NewDay \/ ChangeSettings
  PROVE  TypeOK'
<1>0. 0 \in 0..Horizon /\ Horizon \in 0..Horizon
  BY QueueAssumption
<1>i. UNCHANGED queueVars => QueueTypeOK'
  BY IdleQueueType DEF TypeOK
<1>f. \A kind : Fault(kind) => faults' \in 0..MaxFaults /\ forces' \in 0..MaxForces
  BY EnrichAssumption DEF Fault, TypeOK
<1>p. \A m \in Id, force, again \in BOOLEAN :
        [msg |-> m, force |-> force, again |-> again] \in Order
  BY DEF Order
<1>q. \A m \in Id : Plain(m) \in Order
  BY <1>p DEF Plain
<1>n. \A S, n : Newest(S, n) \subseteq S
  BY DEF Newest
<1>1. ASSUME NEW m \in Id, Store(m) PROVE TypeOK'
  <2>1. body' \in ThreadState
    BY <1>1, EnrichAssumption DEF Store, TypeOK, ThreadState, Body
  <2>2. orders' \subseteq Order
    BY <1>1, <1>q DEF Store, TypeOK
  <2> QED BY <1>1, <1>i, <2>1, <2>2 DEF Store, TypeOK, jobVars, countVars
<1>2. ASSUME NEW m \in Id, PromoteJob(m) \/ StallJob(m) \/ LoseJob(m) PROVE TypeOK'
  <2>1. QueueTypeOK'
    BY <1>2, <1>0, PromoteType, StallType, ClearType
    DEF TypeOK, PromoteJob, StallJob, LoseJob
  <2> QED BY <1>2, <1>f, <2>1
    DEF TypeOK, PromoteJob, StallJob, LoseJob, enrichVars, dataVars, jobVars, countVars
<1>3. ASSUME NEW o \in orders, Enqueue(o) \/ Forget(o) PROVE TypeOK'
  <2>1. o \in Order /\ o.msg \in Id /\ o.force \in BOOLEAN /\ o.again \in BOOLEAN
    BY DEF TypeOK, Order
  <2>2. QueueTypeOK'
    BY <1>3, <1>0, <1>i, <2>1, InsertType DEF TypeOK, Enqueue, Forget
  <2>3. ask' \in [Id -> [force: BOOLEAN, again: BOOLEAN]] /\ tries' \in [Id -> 0..(Attempts - 1)]
    BY <1>3, <2>1, EnrichAssumption DEF TypeOK, Enqueue, Forget, jobVars
  <2>4. orders' \subseteq Order /\ faults' \in 0..MaxFaults /\ forces' \in 0..MaxForces
    BY <1>3, <1>f DEF TypeOK, Enqueue, Forget, countVars
  <2> QED BY <1>3, <2>2, <2>3, <2>4 DEF TypeOK, Enqueue, Forget, dataVars
<1>4. ASSUME NEW l \in locks, Lapse(l) PROVE TypeOK'
  BY <1>4, <1>i, <1>f DEF TypeOK, Lapse, dataVars, jobVars, countVars
<1>5. CASE Sweep
  <2>1. Gaps(Cap - used) \subseteq Id
    BY <1>n DEF Gaps, Missing, Unsummarized, Unassessed, Stored
  <2>2. orders' \subseteq Order
    BY <1>5, <1>q, <2>1 DEF Sweep, TypeOK
  <2> QED BY <1>5, <1>i, <2>2 DEF Sweep, TypeOK, dataVars, jobVars, countVars
<1>6. CASE Recompute
  <2>1. Newest(Stored, Cap - used) \subseteq Id
    BY <1>n DEF Stored
  <2>i. \A m : IsNewest(m) \in BOOLEAN
    BY DEF IsNewest
  <2>2. orders' \subseteq Order
    BY <1>6, <1>p, <2>1, <2>i DEF Recompute, TypeOK
  <2>3. forces' \in 0..MaxForces
    BY <1>6, EnrichAssumption DEF Recompute, TypeOK
  <2> QED BY <1>6, <1>i, <2>2, <2>3 DEF Recompute, TypeOK, dataVars, jobVars
<1>7. CASE NewDay
  BY <1>7, <1>i DEF NewDay, TypeOK, dataVars, jobVars, countVars
<1>8. CASE ChangeSettings
  BY <1>8, <1>i DEF ChangeSettings, TypeOK, dataVars, jobVars, countVars
<1> QED BY <1>1, <1>2, <1>3, <1>4, <1>5, <1>6, <1>7, <1>8

\* A worker that takes a job, or goes on with one, keeps the types.
LEMMA WorkTypes ==
  ASSUME TypeOK, NEW w \in Worker,
         (\E m \in Id : Take(w, m)) \/ Work(w) \/ GiveUp(w)
  PROVE  TypeOK'
<1> DEFINE r == run[w]
<1>r. /\ r \in Run /\ r.msg \in Id \cup {0} /\ r.pc \in Step /\ r.set \in Settings
      /\ r.body \in Body /\ r.state \in ThreadState /\ r.level \in Level
      /\ r.force \in BOOLEAN /\ r.again \in BOOLEAN
  BY DEF TypeOK, Run
<1>i. UNCHANGED queueVars => QueueTypeOK'
  BY IdleQueueType DEF TypeOK
<1>s. ToSummary(r) \in Step /\ ToThreat(r) \in Step
  BY <1>r, Values
<1>g. \A step \in Step : Goto(w, step) => run' \in [Worker -> Run]
  BY DEF Goto, TypeOK, Run
<1>m. \A step \in Step : Move(w, step) => TypeOK'
  BY MoveType
<1>l. Mine(w) \in [state: ThreadState, by: Worker \cup {NoWorker}]
  BY <1>r DEF Mine
<1>f. \A kind : Fault(kind) => faults' \in 0..MaxFaults /\ forces' \in 0..MaxForces
  BY EnrichAssumption DEF Fault, TypeOK
<1>1. ASSUME NEW m \in Id, Take(w, m) PROVE TypeOK'
  <2> DEFINE taken == [Rest EXCEPT !.msg = m, !.force = ask[m].force, !.again = ask[m].again,
                                   !.set = settings, !.body = body[m]]
  <2>1. settings \in Settings /\ body[m] \in Body
        /\ ask[m].force \in BOOLEAN /\ ask[m].again \in BOOLEAN
    BY Values DEF TypeOK, ThreadState
  <2>2. taken \in Run
    BY <2>1, Values DEF Run
  <2>3. ToClassify(taken) \in Step
    BY <2>2, Values
  <2>4. [taken EXCEPT !.pc = ToClassify(taken)] \in Run
    BY <2>2, <2>3 DEF Run
  <2>5. run' \in [Worker -> Run]
    BY <1>1, <2>4 DEF Take, TypeOK
  <2>6. QueueTypeOK'
    BY <1>1, AcquireType DEF Take, TypeOK
  <2> QED BY <1>1, <2>5, <2>6 DEF Take, TypeOK, dataVars, jobVars, countVars
<1>2. CASE Classify(w)
  BY <1>2, <1>m DEF Classify, Step
<1>3. CASE Answer(w)
  <2>1. run' \in [Worker -> Run]
    <3>1. CASE At(w, "classifying") /\ Goto(w, "classified")
      BY <3>1, <1>g DEF Step
    <3>2. CASE At(w, "summing") /\ Goto(w, "summed")
      BY <3>2, <1>g DEF Step
    <3>3. ASSUME NEW a \in {1, 2},
                 run' = [run EXCEPT ![w].pc = "assessed", ![w].level = Worse(Floor(r.msg), a)]
          PROVE  run' \in [Worker -> Run]
      <4>1. Worse(Floor(r.msg), a) \in Level
        BY DEF Worse, Floor, Level
      <4>2. [r EXCEPT !.pc = "assessed", !.level = Worse(Floor(r.msg), a)] \in Run
        BY <4>1, <1>r DEF Run, Step
      <4> QED BY <3>3, <4>2 DEF TypeOK
    <3> QED BY <1>3, <3>1, <3>2, <3>3 DEF Answer
  <2>2. used' \in Nat
    BY <1>3 DEF Answer, TypeOK
  <2> QED BY <1>3, <1>i, <2>1, <2>2 DEF Answer, TypeOK, dataVars, jobVars, countVars
<1>4. CASE Classified(w)
  <2>e. [hash |-> r.body, sorted |-> r.body, level |-> 0] \in Row
    BY <1>r DEF Row, Level
  <2>1. row' \in [Id -> Row]
    BY <1>4, <2>e DEF Classified, TypeOK
  <2>2. run' \in [Worker -> Run]
    BY <1>4, <1>g DEF Classified, Step
  <2> QED BY <1>4, <1>i, <2>1, <2>2 DEF Classified, TypeOK, jobVars, countVars
<1>5. CASE LookNewest(w)
  BY <1>5, <1>m, <1>s DEF LookNewest, Step
<1>6. CASE Headline(w)
  <2>1. run' \in [Worker -> Run]
    BY <1>6, <1>g, <1>s DEF Headline
  <2> QED BY <1>6, <1>i, <1>r, <2>1 DEF Headline, TypeOK, jobVars, countVars
<1>7. CASE Assess(w)
  <2>1. [r EXCEPT !.pc = "roll"] \in Run /\ [r EXCEPT !.pc = "assessing"] \in Run
    BY <1>r DEF Run, Step
  <2>f. Floor(r.msg) \in Level
    BY DEF Floor, Level
  <2>2. [r EXCEPT !.pc = "assessed", !.level = Floor(r.msg)] \in Run
    BY <1>r, <2>f DEF Run, Step
  <2>3. run' \in [Worker -> Run]
    BY <1>7, <2>1, <2>2 DEF Assess, TypeOK
  <2> QED BY <1>7, <1>i, <2>3 DEF Assess, TypeOK, dataVars, jobVars, countVars
<1>8. CASE Assessed(w)
  <2>1. row' \in [Id -> Row]
    BY <1>8, <1>r DEF Assessed, TypeOK, Row
  <2>2. run' \in [Worker -> Run]
    BY <1>8, <1>g DEF Assessed, Step
  <2> QED BY <1>8, <1>i, <2>1, <2>2 DEF Assessed, TypeOK, jobVars, countVars
<1>9. CASE Roll(w)
  <2>1. PICK l \in Level : run' = [run EXCEPT ![w].pc = "rolled", ![w].level = l]
    BY <1>9 DEF Roll
  <2>2. [r EXCEPT !.pc = "rolled", !.level = l] \in Run
    BY <1>r DEF Run, Step
  <2>3. run' \in [Worker -> Run]
    BY <2>1, <2>2 DEF TypeOK
  <2> QED BY <1>9, <1>i, <2>3 DEF Roll, TypeOK, dataVars, jobVars, countVars
<1>10. CASE Rolled(w)
  <2>1. run' \in [Worker -> Run]
    BY <1>10, <1>g, <1>s DEF Rolled
  <2> QED BY <1>10, <1>i, <1>r, <2>1 DEF Rolled, TypeOK, jobVars, countVars
<1>11. CASE Gather(w)
  <2>1. \A step \in {"end", "lock"}, s \in ThreadState :
          [r EXCEPT !.pc = step, !.state = s] \in Run
    BY <1>r DEF Run, Step
  <2>2. body \in ThreadState /\ Empty \in ThreadState
    BY Values DEF TypeOK
  <2>3. run' \in [Worker -> Run]
    BY <1>11, <2>1, <2>2 DEF Gather, TypeOK
  <2> QED BY <1>11, <1>i, <2>3 DEF Gather, TypeOK, dataVars, jobVars, countVars
<1>12. CASE Lock(w)
  <2>1. run' \in [Worker -> Run]
    BY <1>12, <1>g DEF Lock, Step
  <2> QED BY <1>12, <1>i, <1>l, <2>1 DEF Lock, TypeOK, dataVars, jobVars, countVars
<1>13. CASE GiveUp(w)
  <2>1. run' \in [Worker -> Run]
    BY <1>13, <1>g DEF GiveUp, Step
  <2>2. faults' \in 0..MaxFaults /\ forces' \in 0..MaxForces
    BY <1>13, <1>f DEF GiveUp, TypeOK, countVars
  <2> QED BY <1>13, <1>i, <2>1, <2>2 DEF GiveUp, TypeOK, dataVars, jobVars
<1>14. CASE Recheck(w)
  BY <1>14, <1>m DEF Recheck, Step
<1>15. CASE Summed(w)
  <2>1. run' \in [Worker -> Run]
    BY <1>15, <1>g DEF Summed, Step
  <2> QED BY <1>15, <1>i, <1>r, <2>1 DEF Summed, TypeOK, jobVars, countVars
<1>16. CASE Leave(w)
  <2>1. run' \in [Worker -> Run]
    BY <1>16, <1>g DEF Leave, Step
  <2> QED BY <1>16, <1>i, <2>1 DEF Leave, TypeOK, dataVars, jobVars, countVars
<1>17. CASE End(w)
  <2>1. run' \in [Worker -> Run]
    BY <1>17, Values DEF End, TypeOK
  <2>2. QueueTypeOK'
    BY <1>17, <1>r DEF End, Release, TypeOK, QueueTypeOK, JobState, queueVars
  <2> QED BY <1>17, <2>1, <2>2 DEF End, TypeOK, dataVars, jobVars, countVars
<1> QED
  BY <1>1, <1>2, <1>3, <1>4, <1>5, <1>6, <1>7, <1>8, <1>9, <1>10, <1>11, <1>12, <1>13,
     <1>14, <1>15, <1>16, <1>17 DEF Work

\* An attempt that fails, is aborted, or dies with its process keeps the types.
LEMMA FailureTypes ==
  ASSUME TypeOK, NEW w \in Worker, Throw(w) \/ Abort(w) \/ Crash(w)
  PROVE  TypeOK'
<1>r. run[w] \in Run /\ run[w].msg \in Id \cup {0} /\ ToSummary(run[w]) \in Step
  BY Values DEF TypeOK, Run
<1>f. \A kind : Fault(kind) => faults' \in 0..MaxFaults /\ forces' \in 0..MaxForces
  BY EnrichAssumption DEF Fault, TypeOK
<1>1. faults' \in 0..MaxFaults /\ forces' \in 0..MaxForces
  BY <1>f DEF Throw, Abort, Crash
<1>2. ASSUME Fail(w) PROVE TypeOK'
  <2> DEFINE m == run[w].msg
  <2>1. run' \in [Worker -> Run]
    BY <1>2, Values DEF Fail, TypeOK
  <2>2. locks' \subseteq [state: ThreadState, by: Worker \cup {NoWorker}]
    BY <1>2 DEF Fail, TypeOK
  <2>3. QueueTypeOK'
    BY <1>2, <1>r DEF Fail, Release, Retry, TypeOK, QueueTypeOK, JobState, queueVars
  <2>4. tries' \in [Id -> 0..(Attempts - 1)]
    <3>1. CASE LastAttempt(m) /\ UNCHANGED tries
      BY <3>1 DEF TypeOK
    <3>2. CASE /\ ~LastAttempt(m)
               /\ tries' = IF lock[m] = w THEN [tries EXCEPT ![m] = @ + 1] ELSE tries
      <4>1. ASSUME m \in Id PROVE tries[m] + 1 \in 0..(Attempts - 1)
        <5>1. tries[m] \in 0..(Attempts - 1)
          BY <4>1 DEF TypeOK
        <5> QED BY <3>2, <5>1, EnrichAssumption DEF LastAttempt
      <4> QED BY <3>2, <4>1 DEF TypeOK
    <3> QED BY <1>2, <3>1, <3>2 DEF Fail
  <2> QED BY <1>1, <1>2, <2>1, <2>2, <2>3, <2>4 DEF Fail, TypeOK, dataVars
<1>3. CASE Throw(w) /\ run[w].pc \in Threatening
  <2>1. run' \in [Worker -> Run]
    BY <1>3, <1>r DEF Throw, Goto, TypeOK, Run
  <2>2. QueueTypeOK'
    BY <1>3, IdleQueueType DEF Throw, TypeOK
  <2> QED BY <1>1, <1>3, <2>1, <2>2 DEF Throw, TypeOK, dataVars, jobVars
<1>4. CASE Crash(w)
  <2>1. run' \in [Worker -> Run]
    BY <1>4, Values DEF Crash, TypeOK
  <2>2. locks' \subseteq [state: ThreadState, by: Worker \cup {NoWorker}]
    BY <1>4 DEF Crash, TypeOK
  <2>3. QueueTypeOK'
    BY <1>4 DEF Crash, Abandon, TypeOK, QueueTypeOK
  <2> QED BY <1>1, <1>4, <2>1, <2>2, <2>3 DEF Crash, TypeOK, dataVars, jobVars
<1> QED BY <1>2, <1>3, <1>4 DEF Throw, Abort

\* Every step keeps the types.
LEMMA StepTypes == TypeOK /\ [Next]_vars => TypeOK'
<1> SUFFICES ASSUME TypeOK, [Next]_vars PROVE TypeOK'
  OBVIOUS
<1>1. CASE UNCHANGED vars
  BY <1>1, IdleQueueType DEF vars, enrichVars, dataVars, jobVars, countVars, TypeOK
<1>2. CASE Next
  BY <1>2, ProducerTypes, WorkTypes, FailureTypes DEF Next
<1> QED BY <1>1, <1>2

\* Every variable keeps its type, for every instance.
THEOREM Types == Spec => []TypeOK
BY InitTypes, StepTypes, PTL DEF Spec

(***************************************************************************)
(* The cap.  A step bills a call that was under way, starts one below the  *)
(* cap, or does neither.                                                   *)
(***************************************************************************)

\* The workers with a call under way are finitely many.
LEMMA FlightFinite ==
  /\ IsFiniteSet(InFlight) /\ Cardinality(InFlight) \in Nat
  /\ Cardinality(InFlight) <= Cardinality(Worker)
  /\ Cardinality(Worker) \in Nat
BY EnrichAssumption, FS_Subset, FS_CardinalityType DEF InFlight

\* A step that leaves a worker outside of a call leaves no more calls under way.
LEMMA FlightShrinks ==
  ASSUME TypeOK, NEW w \in Worker,
         \A v \in Worker \ {w} : run'[v] = run[v],
         run'[w].pc \notin Calling
  PROVE  InFlight' = InFlight \ {w}
BY DEF InFlight, Calling

\* What a step does to the ledger and to the calls under way.
LEMMA CallEffect ==
  ASSUME TypeOK, [Next]_vars
  PROVE  \/ used < Cap /\ used' = used
         \/ used' <= used /\ InFlight' \subseteq InFlight
         \/ /\ used' = used + 1
            /\ \E w \in InFlight : InFlight' = InFlight \ {w}
<1> USE DEF Calling
<1>0. used \in Nat
  BY DEF TypeOK
<1>u. (run' = run /\ used' = used) => InFlight' = InFlight
  BY DEF InFlight
<1>1. ASSUME NEW w \in Worker, NEW step \in Step, Move(w, step),
             step \in Calling => MayCall
      PROVE  \/ used < Cap /\ used' = used
             \/ used' <= used /\ InFlight' \subseteq InFlight
  <2>1. CASE step \in Calling
    BY <1>1, <2>1 DEF Move, MayCall
  <2>2. CASE step \notin Calling
    BY <1>0, <1>1, <2>2 DEF Move, Goto, InFlight, TypeOK
  <2> QED BY <2>1, <2>2
<1>2. ASSUME NEW w \in Worker, used' = used,
             \A v \in Worker \ {w} : run'[v] = run[v], run'[w].pc \notin Calling
      PROVE  used' <= used /\ InFlight' \subseteq InFlight
  BY <1>0, <1>2, FlightShrinks
<1>3. ASSUME NEW w \in Worker, Answer(w)
      PROVE  used' = used + 1 /\ w \in InFlight /\ InFlight' = InFlight \ {w}
  <2>1. w \in InFlight /\ used' = used + 1
    BY <1>3 DEF Answer, InFlight
  <2>2. run'[w].pc \notin Calling /\ \A v \in Worker \ {w} : run'[v] = run[v]
    BY <1>3 DEF Answer, At, Goto, TypeOK, Run
  <2> QED BY <2>1, <2>2, FlightShrinks
<1>4. ASSUME NEW w \in Worker, Assess(w)
      PROVE  \/ used < Cap /\ used' = used
             \/ used' <= used /\ InFlight' \subseteq InFlight
  <2>1. CASE MayCall
    BY <1>4, <2>1 DEF Assess, MayCall
  <2>2. CASE ~MayCall
    BY <1>2, <1>4, <2>2 DEF Assess, TypeOK, Run
  <2> QED BY <2>1, <2>2
<1>5. ASSUME NEW w \in Worker, Classify(w) \/ LookNewest(w) \/ Recheck(w)
      PROVE  \/ used < Cap /\ used' = used
             \/ used' <= used /\ InFlight' \subseteq InFlight
  <2>1. ToThreat(run[w]) \notin Calling
    BY DEF ToThreat, ToSummary
  <2> QED BY <1>1, <1>5, <2>1 DEF Classify, LookNewest, Recheck, Step, ToThreat, ToSummary
<1>6. ASSUME NEW w \in Worker,
             \/ \E m \in Id : Take(w, m)
             \/ Classified(w) \/ Headline(w) \/ Assessed(w) \/ Roll(w) \/ Rolled(w)
             \/ Gather(w) \/ Lock(w) \/ Summed(w) \/ Leave(w) \/ End(w) \/ GiveUp(w)
             \/ Throw(w) \/ Abort(w) \/ Crash(w)
      PROVE  used' <= used /\ InFlight' \subseteq InFlight
  <2>1. used' = used
    BY <1>6 DEF Take, Classified, Headline, Assessed, Roll, Rolled, Gather, Lock, Summed,
                Leave, End, GiveUp, Throw, Abort, Crash, Fail
  <2>2. /\ ToThreat(run[w]) \notin Calling /\ ToSummary(run[w]) \notin Calling
        /\ \A r : ToClassify(r) \notin Calling
    BY DEF ToThreat, ToSummary, ToClassify
  <2>3. \A v \in Worker \ {w} : run'[v] = run[v]
    BY <1>6 DEF Take, Classified, Headline, Assessed, Roll, Rolled, Gather, Lock, Summed,
                Leave, End, GiveUp, Throw, Abort, Crash, Fail, Goto, TypeOK
  <2>4. run[w] \in Run /\ Rest \in Run /\ run \in [Worker -> Run]
    BY Values DEF TypeOK
  <2>5. run'[w].pc \notin Calling
    <3>1. CASE \E m \in Id : Take(w, m)
      BY <3>1, <2>2, <2>4 DEF Take, Run, Rest
    <3>2. CASE Classified(w) \/ Headline(w) \/ Assessed(w) \/ Roll(w) \/ Rolled(w)
      BY <3>2, <2>2, <2>4 DEF Classified, Headline, Assessed, Roll, Rolled, Goto, Run
    <3>3. CASE Gather(w) \/ Lock(w) \/ Summed(w) \/ Leave(w) \/ End(w) \/ GiveUp(w)
      BY <3>3, <2>2, <2>4 DEF Gather, Lock, Summed, Leave, End, GiveUp, Goto, Run, Rest
    <3>4. CASE Throw(w) \/ Abort(w) \/ Crash(w)
      BY <3>4, <2>2, <2>4 DEF Throw, Abort, Crash, Fail, Goto, Run, Rest
    <3> QED BY <1>6, <3>1, <3>2, <3>3, <3>4
  <2> QED BY <1>2, <2>1, <2>3, <2>5
<1>7. CASE NewDay
  BY <1>0, <1>7 DEF NewDay, InFlight
<1>8. CASE \/ \E m \in Id : Store(m) \/ PromoteJob(m) \/ StallJob(m) \/ LoseJob(m)
           \/ \E o \in orders : Enqueue(o) \/ Forget(o)
           \/ \E l \in locks : Lapse(l)
           \/ Sweep \/ Recompute \/ ChangeSettings \/ UNCHANGED vars
  <2>1. run' = run /\ used' = used
    BY <1>8 DEF Store, PromoteJob, StallJob, LoseJob, Enqueue, Forget, Lapse, Sweep,
                Recompute, ChangeSettings, vars, enrichVars
  <2> QED BY <1>0, <1>u, <2>1
<1> QED BY <1>3, <1>4, <1>5, <1>6, <1>7, <1>8 DEF Next, Work

\* "Two concurrent workers can both pass the check at cap-1 and land one call
\* over" (usage.ts): the cap is passed by fewer calls than there are workers.
THEOREM CapKept == Spec => []CapHolds
<1>1. Init => CapHolds
  <2> SUFFICES ASSUME Init PROVE CapHolds
    OBVIOUS
  <2>1. InFlight = {} /\ used = 0
    BY DEF Init, InFlight, Calling, Rest
  <2>2. Cardinality({}) = 0 /\ Cardinality(Worker) \in Nat /\ Cardinality(Worker) # 0
    BY EnrichAssumption, FS_EmptySet, FlightFinite
  <2> QED BY <2>1, <2>2, EnrichAssumption DEF CapHolds
<1>2. TypeOK /\ CapHolds /\ [Next]_vars => CapHolds'
  <2> SUFFICES ASSUME TypeOK, CapHolds, [Next]_vars PROVE CapHolds'
    OBVIOUS
  <2> DEFINE flying == Cardinality(InFlight)
             workers == Cardinality(Worker)
  <2>0. used \in Nat /\ used' \in Nat /\ Cap \in Nat
    BY StepTypes, EnrichAssumption DEF TypeOK
  <2>1. /\ IsFiniteSet(InFlight) /\ flying \in Nat /\ flying <= workers /\ workers \in Nat
        /\ flying' \in Nat /\ flying' <= workers
    <3>1. InFlight' \subseteq Worker
      BY DEF InFlight
    <3> QED BY <3>1, FlightFinite, EnrichAssumption, FS_Subset, FS_CardinalityType
  <2>2. CASE used < Cap /\ used' = used
    BY <2>0, <2>1, <2>2 DEF CapHolds
  <2>3. CASE used' <= used /\ InFlight' \subseteq InFlight
    <3>1. flying' <= flying
      BY <2>1, <2>3, FS_Subset
    <3> QED BY <2>0, <2>1, <2>3, <3>1 DEF CapHolds
  <2>4. ASSUME used' = used + 1, NEW w \in InFlight, InFlight' = InFlight \ {w}
        PROVE  CapHolds'
    <3>1. flying' = flying - 1
      BY <2>1, <2>4, FS_RemoveElement
    <3> QED BY <2>0, <2>1, <2>4, <3>1 DEF CapHolds
  <2> QED BY <2>2, <2>3, <2>4, CallEffect
<1> QED BY <1>1, <1>2, Types, PTL DEF Spec

(***************************************************************************)
(* What is paid for.  While nothing failed, a busy worker has the job of   *)
(* its message to itself, and one at a summary the lock of its state; so   *)
(* what it found missing is missing until it has written the answer.       *)
(***************************************************************************)

\* A worker that runs a job holds its lock in the queue.
Held(w) ==
  ~At(w, "idle") =>
    run[w].msg \in Id /\ job[run[w].msg] = "active" /\ lock[run[w].msg] = w

Inside == {"recheck", "summing", "summed", "leave"}

\* No lock is left by the dead, none is taken twice, and whoever is inside has one.
LocksAlone ==
  /\ \A l \in locks : l.by # NoWorker
  /\ \A k, l \in locks : k.state = l.state => k = l
  /\ \A w \in Worker : run[w].pc \in Inside => Mine(w) \in locks

\* What a worker asks the model for is not stored.
News(w) == w \in InFlight /\ ~Forced(w) => ~Known(w)

Alone == faults = 0 => LocksAlone /\ \A w \in Worker : Held(w) /\ News(w)

\* The steps that note what they read.
LEMMA Written ==
  ASSUME TypeOK, NEW w \in Worker, Assess(w) \/ Roll(w) \/ Gather(w)
  PROVE  \E to \in Run : /\ run' = [run EXCEPT ![w] = to]
                         /\ to.pc \in {"roll", "assessing", "assessed", "rolled", "end", "lock"}
                         /\ to.msg = run[w].msg /\ to.body = run[w].body
                         /\ to.force = run[w].force /\ to.again = run[w].again
<1>1. run \in [Worker -> Run] /\ run[w] \in Run /\ body \in ThreadState
  BY DEF TypeOK
<1>2. Floor(run[w].msg) \in Level /\ Empty \in ThreadState
  BY Values DEF Floor, Level
<1>3. CASE Assess(w)
  <2> DEFINE r == run[w]
             to == IF ~r.force /\ row[r.msg].hash = r.body /\ row[r.msg].level # 0
                     THEN [r EXCEPT !.pc = "roll"]
                   ELSE IF MayCall THEN [r EXCEPT !.pc = "assessing"]
                   ELSE [r EXCEPT !.pc = "assessed", !.level = Floor(r.msg)]
  <2>1. run' = [run EXCEPT ![w] = to]
    BY <1>3 DEF Assess
  <2>2. /\ to \in Run /\ to.pc \in {"roll", "assessing", "assessed"}
        /\ to.msg = r.msg /\ to.body = r.body /\ to.force = r.force /\ to.again = r.again
    BY <1>1, <1>2 DEF Run, Step
  <2> HIDE DEF to
  <2> QED BY <2>1, <2>2
<1>4. CASE Roll(w)
  <2>1. PICK l \in Level : run' = [run EXCEPT ![w].pc = "rolled", ![w].level = l]
    BY <1>4 DEF Roll
  <2> DEFINE to == [run[w] EXCEPT !.pc = "rolled", !.level = l]
  <2>2. run' = [run EXCEPT ![w] = to]
    BY <1>1, <2>1
  <2>3. /\ to \in Run /\ to.pc = "rolled" /\ to.msg = run[w].msg /\ to.body = run[w].body
        /\ to.force = run[w].force /\ to.again = run[w].again
    BY <1>1 DEF Run, Step
  <2> HIDE DEF to
  <2> QED BY <2>2, <2>3
<1>5. CASE Gather(w)
  <2>1. PICK pc \in {"end", "lock"}, s \in ThreadState :
          run' = [run EXCEPT ![w].pc = pc, ![w].state = s]
    BY <1>1, <1>2, <1>5 DEF Gather
  <2> DEFINE to == [run[w] EXCEPT !.pc = pc, !.state = s]
  <2>2. run' = [run EXCEPT ![w] = to]
    BY <1>1, <2>1
  <2>3. /\ to \in Run /\ to.pc = pc /\ to.msg = run[w].msg /\ to.body = run[w].body
        /\ to.force = run[w].force /\ to.again = run[w].again
    BY <1>1 DEF Run, Step
  <2> HIDE DEF to
  <2> QED BY <2>2, <2>3
<1> QED BY <1>3, <1>4, <1>5

\* What a step of a worker does to its progress.
LEMMA WorkRun ==
  ASSUME TypeOK, NEW w \in Worker, Work(w)
  PROVE  /\ run' \in [Worker -> Run] /\ \A v \in Worker \ {w} : run'[v] = run[v]
         /\ ~At(w, "idle")
         /\ \/ /\ run'[w].pc # "idle" /\ UNCHANGED queueVars
               /\ run'[w].msg = run[w].msg /\ run'[w].body = run[w].body
               /\ run'[w].force = run[w].force /\ run'[w].again = run[w].again
            \/ run'[w].pc = "idle" /\ Release(run[w].msg, w, "completed")
<1>1. run \in [Worker -> Run] /\ run[w] \in Run /\ Rest \in Run
  BY Values DEF TypeOK
<1>2. run' \in [Worker -> Run]
  <2>1. TypeOK'
    BY StepTypes DEF Next
  <2> QED BY <2>1 DEF TypeOK
<1>3. ASSUME NEW step, step # "idle", Goto(w, step), UNCHANGED queueVars, ~At(w, "idle")
      PROVE  /\ \A v \in Worker \ {w} : run'[v] = run[v]
             /\ run'[w].pc # "idle" /\ UNCHANGED queueVars
             /\ run'[w].msg = run[w].msg /\ run'[w].body = run[w].body
             /\ run'[w].force = run[w].force /\ run'[w].again = run[w].again
  BY <1>1, <1>3 DEF Goto, Run
<1>4. ToThreat(run[w]) # "idle" /\ ToSummary(run[w]) # "idle"
  BY DEF ToThreat, ToSummary
<1>5. CASE Classify(w) \/ LookNewest(w) \/ Recheck(w)
  BY <1>2, <1>3, <1>4, <1>5 DEF Classify, LookNewest, Recheck, Move, At
<1>6. CASE Classified(w) \/ Headline(w) \/ Assessed(w) \/ Rolled(w)
  BY <1>2, <1>3, <1>4, <1>6 DEF Classified, Headline, Assessed, Rolled, At
<1>7. CASE Lock(w) \/ Summed(w) \/ Leave(w)
  BY <1>2, <1>3, <1>7 DEF Lock, Summed, Leave, At, queueVars
<1>8. CASE Assess(w) \/ Roll(w) \/ Gather(w)
  <2>1. UNCHANGED queueVars /\ ~At(w, "idle")
    BY <1>8 DEF Assess, Roll, Gather, At
  <2>2. PICK to \in Run : /\ run' = [run EXCEPT ![w] = to] /\ to.pc # "idle"
                          /\ to.msg = run[w].msg /\ to.body = run[w].body
                          /\ to.force = run[w].force /\ to.again = run[w].again
    BY <1>1, <1>8, Written
  <2> QED BY <1>1, <1>2, <2>1, <2>2
<1>9. CASE Answer(w)
  <2>1. ~At(w, "idle")
    BY <1>9 DEF Answer, Calling, At
  <2>2. CASE Goto(w, "classified") \/ Goto(w, "summed")
    BY <1>2, <1>3, <1>9, <2>1, <2>2 DEF Answer
  <2>3. CASE ~(Goto(w, "classified") \/ Goto(w, "summed"))
    BY <1>1, <1>2, <1>9, <2>1, <2>3 DEF Answer, Run
  <2> QED BY <2>2, <2>3
<1>10. CASE End(w)
  <2>1. run' = [run EXCEPT ![w] = Rest] /\ Release(run[w].msg, w, "completed")
    BY <1>10 DEF End
  <2>2. run'[w].pc = "idle" /\ \A v \in Worker \ {w} : run'[v] = run[v]
    BY <1>1, <2>1 DEF Rest
  <2>3. ~At(w, "idle")
    BY <1>10 DEF End, At
  <2> QED BY <1>2, <2>1, <2>2, <2>3
<1> QED BY <1>5, <1>6, <1>7, <1>8, <1>9, <1>10 DEF Work

\* What it does to the locks.
LEMMA WorkLocks ==
  ASSUME TypeOK, NEW w \in Worker, Work(w)
  PROVE  \/ /\ locks' = locks
            /\ run'[w].pc \in Inside => run[w].pc \in Inside /\ run'[w].state = run[w].state
         \/ /\ At(w, "lock") /\ ~Locked(run[w].state) /\ locks' = locks \cup {Mine(w)}
            /\ run'[w].state = run[w].state
         \/ locks' = locks \ {Mine(w)} /\ run'[w].pc = "end"
<1>1. run \in [Worker -> Run] /\ run[w] \in Run
  BY DEF TypeOK
<1>2. ToThreat(run[w]) \notin Inside /\ ToSummary(run[w]) \notin Inside
  BY DEF ToThreat, ToSummary, Inside
<1>3. CASE Classify(w) \/ LookNewest(w) \/ Recheck(w)
  BY <1>1, <1>2, <1>3 DEF Classify, LookNewest, Recheck, Move, Goto, At, Inside, Run
<1>4. CASE Classified(w) \/ Headline(w) \/ Assessed(w) \/ Rolled(w)
  BY <1>1, <1>2, <1>4 DEF Classified, Headline, Assessed, Rolled, Goto, At, Inside, Run
<1>5. CASE Lock(w) \/ Summed(w) \/ Leave(w)
  BY <1>1, <1>5 DEF Lock, Summed, Leave, Goto, At, Inside, Run
<1>6. CASE Assess(w) \/ Roll(w) \/ Gather(w)
  <2>1. locks' = locks
    BY <1>6 DEF Assess, Roll, Gather
  <2>2. run'[w].pc \notin Inside
    BY <1>1, <1>6, Written DEF Inside
  <2> QED BY <2>1, <2>2
<1>7. CASE Answer(w)
  BY <1>1, <1>7 DEF Answer, Goto, At, Inside, Run
<1>8. CASE End(w)
  BY <1>1, <1>8 DEF End, Rest, Inside
<1> QED BY <1>3, <1>4, <1>5, <1>6, <1>7, <1>8 DEF Work

\* What it writes, and what it found before it asks the model.
LEMMA WorkData ==
  ASSUME TypeOK, NEW w \in Worker, Work(w)
  PROVE  /\ \A m \in Id : m # run[w].msg => row'[m] = row[m]
         /\ \/ summaries' = summaries
            \/ At(w, "summed") /\ summaries' = summaries \cup {run[w].state}
         /\ News(w)'
         /\ faults' = faults
<1>1. run \in [Worker -> Run] /\ run[w] \in Run /\ row \in [Id -> Row]
  BY DEF TypeOK
<1>2. ToThreat(run[w]) \notin Calling /\ ToSummary(run[w]) \notin Calling
  BY DEF ToThreat, ToSummary, Calling
<1>3. CASE Classified(w) \/ Assessed(w)
  BY <1>1, <1>2, <1>3 DEF Classified, Assessed, Goto, News, InFlight, Calling, countVars, Run
<1>4. CASE LookNewest(w) \/ Headline(w) \/ Rolled(w) \/ Roll(w) \/ Gather(w) \/ Lock(w)
           \/ Leave(w) \/ Answer(w) \/ End(w)
  <2>1. row' = row /\ summaries' = summaries /\ faults' = faults
    BY <1>4 DEF LookNewest, Headline, Rolled, Roll, Gather, Lock, Leave, Answer, End, Move,
                dataVars, countVars
  <2>2. run'[w].pc \notin Calling
    <3>1. CASE LookNewest(w) \/ Headline(w) \/ Rolled(w) \/ Lock(w) \/ Leave(w)
      BY <1>1, <1>2, <3>1 DEF LookNewest, Headline, Rolled, Lock, Leave, Move, Goto, Calling, Run
    <3>2. CASE Roll(w) \/ Gather(w) \/ Answer(w) \/ End(w)
      BY <1>1, <3>2 DEF Roll, Gather, Answer, End, Goto, Calling, Run, Rest
    <3> QED BY <1>4, <3>1, <3>2
  <2> QED BY <2>1, <2>2 DEF News, InFlight
<1>5. CASE Summed(w)
  BY <1>1, <1>5 DEF Summed, Goto, News, InFlight, Calling, countVars, Run
<1>6. CASE Classify(w)
  <2>1. row' = row /\ summaries' = summaries /\ faults' = faults
    BY <1>6 DEF Classify, Move, dataVars, countVars
  <2>2. ASSUME run'[w].pc \in Calling, ~Forced(w)'
        PROVE  run'[w].pc = "classifying" /\ row[run[w].msg].hash # run[w].body
               /\ run'[w].msg = run[w].msg /\ run'[w].body = run[w].body
    BY <1>1, <1>6, <2>2 DEF Classify, Move, Goto, Forced, Calling, Run
  <2> QED BY <2>1, <2>2 DEF News, InFlight, Known
<1>7. CASE Assess(w)
  <2>1. row' = row /\ summaries' = summaries /\ faults' = faults
    BY <1>7 DEF Assess, dataVars, countVars
  <2>2. ASSUME run'[w].pc \in Calling, ~Forced(w)'
        PROVE  /\ run'[w].pc = "assessing"
               /\ ~(row[run[w].msg].hash = run[w].body /\ row[run[w].msg].level # 0)
               /\ run'[w].msg = run[w].msg /\ run'[w].body = run[w].body
    BY <1>1, <1>7, <2>2 DEF Assess, Forced, Calling, Run
  <2> QED BY <2>1, <2>2 DEF News, InFlight, Known
<1>8. CASE Recheck(w)
  <2>1. row' = row /\ summaries' = summaries /\ faults' = faults
    BY <1>8 DEF Recheck, Move, dataVars, countVars
  <2>2. ASSUME run'[w].pc \in Calling, ~Forced(w)'
        PROVE  /\ run'[w].pc = "summing" /\ run[w].state \notin summaries
               /\ run'[w].state = run[w].state
    BY <1>1, <1>8, <2>2 DEF Recheck, Move, Goto, Forced, Calling, Run
  <2> QED BY <2>1, <2>2 DEF News, InFlight, Known
<1> QED BY <1>3, <1>4, <1>5, <1>6, <1>7, <1>8 DEF Work

\* Nobody else's step disturbs what a worker holds and knows.
LEMMA AloneWork ==
  ASSUME TypeOK, Alone, faults = 0, NEW w \in Worker, Work(w)
  PROVE  LocksAlone' /\ \A v \in Worker : Held(v)' /\ News(v)'
<1>1. LocksAlone /\ \A v \in Worker : Held(v) /\ News(v)
  BY DEF Alone
<1>2. run' \in [Worker -> Run] /\ ~At(w, "idle") /\ \A v \in Worker \ {w} : run'[v] = run[v]
  BY WorkRun
<1>3. \A v \in Worker \ {w} : ~At(v, "idle") => run[v].msg # run[w].msg
  BY <1>1, <1>2 DEF Held
<1>4. ASSUME NEW v \in Worker PROVE Held(v)'
  <2>1. CASE run'[w].pc # "idle" /\ UNCHANGED queueVars /\ run'[w].msg = run[w].msg
    <3>1. run'[v].msg = run[v].msg /\ (~At(v, "idle")' => ~At(v, "idle"))
      BY <1>2, <2>1 DEF At
    <3> QED BY <1>1, <2>1, <3>1 DEF Held, queueVars
  <2>2. CASE run'[w].pc = "idle" /\ Release(run[w].msg, w, "completed")
    <3>1. CASE v = w
      BY <2>2, <3>1 DEF Held, At
    <3>2. CASE v # w
      <4>1. run'[v] = run[v]
        BY <1>2, <3>2
      <4>2. \A i \in Id : i # run[w].msg => job'[i] = job[i] /\ lock'[i] = lock[i]
        BY <2>2 DEF Release, queueVars, TypeOK, QueueTypeOK
      <4> QED BY <1>1, <1>3, <3>2, <4>1, <4>2 DEF Held, At
    <3> QED BY <3>1, <3>2
  <2> QED BY <2>1, <2>2, WorkRun
<1>5. ASSUME NEW v \in Worker PROVE News(v)'
  <2>1. CASE v = w
    BY <2>1, WorkData
  <2>2. CASE v # w
    <3>1. run'[v] = run[v] /\ run[v] \in Run
      BY <1>2, <2>2 DEF TypeOK
    <3> SUFFICES ASSUME v \in InFlight, ~Forced(v) PROVE ~Known(v)'
      BY <3>1 DEF News, InFlight, Forced
    <3>2. ~Known(v) /\ ~At(v, "idle")
      BY <1>1 DEF News, InFlight, Calling, At
    <3>3. row'[run[v].msg] = row[run[v].msg]
      BY <1>1, <1>3, <2>2, <3>2, WorkData DEF Held
    <3>4. run[v].pc = "summing" => (run[v].state \in summaries' => run[v].state \in summaries)
      <4> SUFFICES ASSUME run[v].pc = "summing", At(w, "summed"),
                          run[v].state = run[w].state
                   PROVE  FALSE
        BY WorkData
      <4>1. Mine(v) \in locks /\ Mine(w) \in locks
        BY <1>1 DEF LocksAlone, Inside, At
      <4>2. Mine(v) = Mine(w)
        BY <1>1, <4>1 DEF LocksAlone, Mine
      <4> QED BY <2>2, <4>2 DEF Mine
    <3> QED BY <3>1, <3>2, <3>3, <3>4 DEF Known, InFlight, Calling
  <2> QED BY <2>1, <2>2
<1>6. LocksAlone'
  <2>1. \A v \in Worker \ {w} : Mine(v)' = Mine(v) /\ Mine(v) # Mine(w)
    BY <1>2 DEF Mine
  <2>2. CASE /\ locks' = locks
             /\ run'[w].pc \in Inside => run[w].pc \in Inside /\ run'[w].state = run[w].state
    <3>1. \A v \in Worker : run'[v].pc \in Inside => run[v].pc \in Inside /\ Mine(v)' = Mine(v)
      BY <1>2, <2>1, <2>2 DEF Mine
    <3> QED BY <1>1, <2>2, <3>1 DEF LocksAlone
  <2>3. CASE /\ At(w, "lock") /\ ~Locked(run[w].state) /\ locks' = locks \cup {Mine(w)}
             /\ run'[w].state = run[w].state
    <3>1. Mine(w)' = Mine(w) /\ Mine(w).by = w /\ Mine(w).state = run[w].state
      BY <2>3 DEF Mine
    <3>2. \A l \in locks : l.state # run[w].state
      BY <2>3 DEF Locked
    <3>3. \A k, l \in locks' : k.state = l.state => k = l
      BY <1>1, <2>3, <3>1, <3>2 DEF LocksAlone
    <3>4. \A l \in locks' : l.by # NoWorker
      BY <1>1, <2>3, <3>1, QueueAssumption DEF LocksAlone
    <3>5. \A v \in Worker : run'[v].pc \in Inside => Mine(v)' \in locks'
      BY <1>1, <1>2, <2>1, <2>3, <3>1 DEF LocksAlone
    <3> QED BY <3>3, <3>4, <3>5 DEF LocksAlone
  <2>4. CASE locks' = locks \ {Mine(w)} /\ run'[w].pc = "end"
    <3>1. \A v \in Worker : run'[v].pc \in Inside => v # w
      BY <2>4 DEF Inside
    <3>2. \A v \in Worker : run'[v].pc \in Inside => Mine(v)' \in locks'
      BY <1>1, <1>2, <2>1, <2>4, <3>1 DEF LocksAlone
    <3> QED BY <1>1, <2>4, <3>2 DEF LocksAlone
  <2> QED BY <2>2, <2>3, <2>4, WorkLocks
<1> QED BY <1>4, <1>5, <1>6

\* A job is taken by a worker that had none.
LEMMA AloneTake ==
  ASSUME TypeOK, Alone, faults = 0, NEW w \in Worker, NEW m \in Id, Take(w, m)
  PROVE  LocksAlone' /\ \A v \in Worker : Held(v)' /\ News(v)'
<1>1. LocksAlone /\ \A v \in Worker : Held(v) /\ News(v)
  BY DEF Alone
<1>2. run \in [Worker -> Run] /\ \A v \in Worker \ {w} : run'[v] = run[v]
  BY DEF Take, TypeOK
<1>3. run'[w].msg = m /\ run'[w].pc \notin Calling \cup Inside
  <2>1. \A r : ToClassify(r) \notin Calling \cup Inside
    BY DEF ToClassify, ToThreat, ToSummary, Calling, Inside
  <2> QED BY <1>2, <2>1 DEF Take, Rest
<1>4. /\ row' = row /\ summaries' = summaries /\ locks' = locks
      /\ job[m] = "waiting" /\ job'[m] = "active" /\ lock'[m] = w
      /\ \A i \in Id \ {m} : job'[i] = job[i] /\ lock'[i] = lock[i]
  BY DEF Take, Acquire, dataVars, TypeOK, QueueTypeOK
<1>5. ASSUME NEW v \in Worker PROVE Held(v)'
  <2>1. CASE v = w
    BY <1>3, <1>4, <2>1 DEF Held
  <2>2. CASE v # w
    BY <1>1, <1>2, <1>4, <2>2 DEF Held, At
  <2> QED BY <2>1, <2>2
<1>6. ASSUME NEW v \in Worker PROVE News(v)'
  <2>1. CASE v = w
    BY <1>3, <2>1 DEF News, InFlight
  <2>2. CASE v # w
    BY <1>1, <1>2, <1>4, <2>2 DEF News, InFlight, Forced, Known
  <2> QED BY <2>1, <2>2
<1>7. \A v \in Worker : run'[v].pc \in Inside => run[v].pc \in Inside /\ Mine(v)' = Mine(v)
  BY <1>2, <1>3 DEF Mine
<1>8. LocksAlone'
  BY <1>1, <1>4, <1>7 DEF LocksAlone
<1> QED BY <1>5, <1>6, <1>8

\* Producers, the user, the day and the queue's own steps touch no job that is
\* being run.
LEMMA AloneWorld ==
  ASSUME TypeOK, Alone, faults = 0, faults' = 0,
         \/ \E m \in Id : Store(m) \/ PromoteJob(m) \/ StallJob(m)
         \/ \E o \in orders : Enqueue(o)
         \/ Sweep \/ Recompute \/ NewDay \/ ChangeSettings \/ UNCHANGED vars
  PROVE  LocksAlone' /\ \A v \in Worker : Held(v)' /\ News(v)'
<1>1. LocksAlone /\ \A v \in Worker : Held(v) /\ News(v)
  BY DEF Alone
<1>2. run' = run /\ row' = row /\ summaries' = summaries /\ locks' = locks
  BY DEF Store, PromoteJob, StallJob, Enqueue, Sweep, Recompute, NewDay, ChangeSettings,
         vars, enrichVars, dataVars
<1>3. ASSUME NEW i \in Id, job[i] = "active", lock[i] # NoWorker
      PROVE  job'[i] = job[i] /\ lock'[i] = lock[i]
  <2>1. CASE UNCHANGED queueVars
    BY <2>1 DEF queueVars
  <2>2. ASSUME NEW m \in Id, PromoteJob(m) PROVE job'[i] = job[i] /\ lock'[i] = lock[i]
    BY <1>3, <2>2 DEF PromoteJob, Promote, TypeOK, QueueTypeOK
  <2>3. ASSUME NEW m \in Id, StallJob(m) PROVE job'[i] = job[i] /\ lock'[i] = lock[i]
    <3>1. lock[m] = NoWorker /\ Stall(m)
      BY <2>3 DEF StallJob, Fault
    <3> QED BY <1>3, <3>1 DEF Stall, TypeOK, QueueTypeOK
  <2>4. ASSUME NEW o \in orders, Enqueue(o) PROVE job'[i] = job[i] /\ lock'[i] = lock[i]
    <3>1. CASE Joined(o)
      BY <2>1, <2>4, <3>1 DEF Enqueue
    <3>2. CASE ~Joined(o)
      <4>1. job[o.msg] # "active" /\ Insert(o.msg, 0, 0)
        BY <2>4, <3>2 DEF Enqueue, Joined
      <4> QED BY <1>3, <4>1 DEF Insert, TypeOK, QueueTypeOK
    <3> QED BY <3>1, <3>2
  <2> QED BY <2>1, <2>2, <2>3, <2>4
          DEF Store, Sweep, Recompute, NewDay, ChangeSettings, vars
<1>4. \A v \in Worker : Held(v)'
  BY <1>1, <1>2, <1>3, QueueAssumption DEF Held, At
<1>5. \A v \in Worker : News(v)'
  BY <1>1, <1>2 DEF News, InFlight, Forced, Known
<1>6. LocksAlone'
  BY <1>1, <1>2 DEF LocksAlone, Mine
<1> QED BY <1>4, <1>5, <1>6

\* Every other step is a fault.
LEMMA AloneStep ==
  ASSUME TypeOK, Alone, [Next]_vars PROVE Alone'
<1> SUFFICES ASSUME faults' = 0
             PROVE  LocksAlone' /\ \A w \in Worker : Held(w)' /\ News(w)'
  BY DEF Alone
<1>1. faults \in Nat
  BY EnrichAssumption DEF TypeOK
<1>2. ~(\E kind : Fault(kind))
  BY <1>1 DEF Fault
<1>3. ASSUME NEW w \in Worker, Work(w) \/ \E m \in Id : Take(w, m) PROVE faults = 0
  BY <1>3, WorkData DEF Take, countVars
<1>4. ASSUME NEW w \in Worker PROVE ~(Throw(w) \/ Abort(w) \/ Crash(w))
  BY <1>2 DEF Throw, Abort, Crash
<1>5. ASSUME NEW m \in Id PROVE ~LoseJob(m)
  BY <1>2 DEF LoseJob
<1>6. ASSUME NEW o \in orders PROVE ~Forget(o)
  BY <1>2 DEF Forget
<1>7. ASSUME NEW w \in Worker, GiveUp(w) PROVE FALSE
  <2>1. [state |-> run[w].state, by |-> NoWorker] \in locks /\ faults = 0
    BY <1>2, <1>7 DEF GiveUp, countVars
  <2> QED BY <2>1 DEF Alone, LocksAlone
<1>8. ASSUME NEW l \in locks, Lapse(l) PROVE FALSE
  <2>1. l.by = NoWorker /\ faults = 0
    BY <1>2, <1>8 DEF Lapse, countVars
  <2> QED BY <2>1 DEF Alone, LocksAlone
<1>9. CASE \/ \E m \in Id : Store(m) \/ PromoteJob(m) \/ StallJob(m)
           \/ \E o \in orders : Enqueue(o)
           \/ Sweep \/ Recompute \/ NewDay \/ ChangeSettings \/ UNCHANGED vars
  <2>1. faults = 0
    BY <1>2, <1>9 DEF Store, PromoteJob, StallJob, Enqueue, Sweep, Recompute, NewDay,
                      ChangeSettings, vars, enrichVars, countVars
  <2> QED BY <1>9, <2>1, AloneWorld
<1> QED BY <1>3, <1>4, <1>5, <1>6, <1>7, <1>8, <1>9, AloneWork, AloneTake DEF Next

\* "A cache miss must be the only reason this application spends a token": while
\* nothing failed, nobody pays for an answer that is stored or being paid for,
\* for any number of workers and messages (ai/cache.ts).
THEOREM PaidOnce == Spec => []NothingPaidTwice
<1>1. Init => Alone
  BY DEF Init, Alone, LocksAlone, Held, News, InFlight, Calling, Inside, At, Rest
<1>2. TypeOK /\ Alone /\ [Next]_vars => Alone'
  BY AloneStep
<1>3. TypeOK /\ Alone => NothingPaidTwice
  <2> SUFFICES ASSUME TypeOK, Alone, faults = 0, NEW w \in InFlight
               PROVE  /\ ~Forced(w) => ~Known(w)
                      /\ \A v \in InFlight \ {w} :
                           ~Forced(v) /\ ~Forced(w) => CallOf(v) # CallOf(w)
    BY DEF NothingPaidTwice
  <2>1. LocksAlone /\ \A u \in Worker : Held(u) /\ News(u)
    BY DEF Alone
  <2>2. w \in Worker
    BY DEF InFlight
  <2>3. ASSUME NEW v \in InFlight \ {w}, CallOf(v) = CallOf(w) PROVE FALSE
    <3>1. v \in Worker /\ v # w /\ ~At(v, "idle") /\ ~At(w, "idle")
      BY DEF InFlight, Calling, At
    <3>2. CASE run[v].pc = "summing" /\ run[w].pc = "summing"
      <4>1. run[v].state = run[w].state
        BY <2>3, <3>2 DEF CallOf
      <4>2. Mine(v) \in locks /\ Mine(w) \in locks
        BY <2>1, <2>2, <3>1, <3>2 DEF LocksAlone, Inside
      <4>3. Mine(v) = Mine(w)
        BY <2>1, <4>1, <4>2 DEF LocksAlone, Mine
      <4> QED BY <3>1, <4>3 DEF Mine
    <3>3. CASE run[v].pc # "summing" /\ run[w].pc # "summing"
      <4>1. run[v].msg = run[w].msg
        BY <2>3, <3>3 DEF CallOf
      <4> QED BY <2>1, <2>2, <3>1, <4>1 DEF Held
    <3>4. CASE (run[v].pc = "summing") # (run[w].pc = "summing")
      BY <2>3, <3>4 DEF CallOf
    <3> QED BY <3>2, <3>3, <3>4
  <2> QED BY <2>1, <2>2, <2>3 DEF News
<1> QED BY <1>1, <1>2, <1>3, Types, PTL DEF Spec

(***************************************************************************)
(* What a verdict of services/security/phishing.ts promises of every       *)
(* message, every reading of it and every thread.                          *)
(***************************************************************************)

USE DEF ThreatLevel, Severity

LEMMA SeverityType == \A l \in ThreatLevel : Severity[l] \in Nat
  OBVIOUS

LEMMA MoreSevereType ==
  ASSUME NEW a \in ThreatLevel, NEW b \in ThreatLevel
  PROVE  /\ MoreSevere(a, b) \in {a, b}
         /\ Severity[MoreSevere(a, b)] >= Severity[a]
         /\ Severity[MoreSevere(a, b)] >= Severity[b]
  BY SeverityType DEF MoreSevere

LEMMA WhenType == ASSUME NEW c \in BOOLEAN, NEW w \in Nat PROVE When(c, w) \in 0..w
  BY DEF When

LEMMA HeaderWeightType ==
  ASSUME NEW h \in Header
  PROVE  DmarcWeight(h) + SpfDkimWeight(h) + PartyWeight(h) \in Nat
<1>1. DmarcWeight(h) \in Nat
  BY DEF DmarcWeight, When
<1>2. SpfDkimWeight(h) \in Nat
  BY DEF SpfDkimWeight, When
<1>3. PartyWeight(h) \in Nat
  BY DEF PartyWeight, When
<1> QED BY <1>1, <1>2, <1>3

LEMMA WeightType == ASSUME NEW s \in Signals PROVE Weight(s) \in Nat
<1>1. /\ s.header \in Header
      /\ s.sender \in Sender
      /\ s.urls \in Links
      /\ s.attachments \in Attachments
  BY DEF Signals
<1>2. DmarcWeight(s.header) \in Nat
  BY DEF DmarcWeight, When
<1>3. SpfDkimWeight(s.header) \in Nat
  BY DEF SpfDkimWeight, When
<1>4. PartyWeight(s.header) \in Nat
  BY DEF PartyWeight, When
<1>5. SenderWeight(s.sender) \in Nat
  BY DEF SenderWeight, When
<1>6. LinkWeight(s.urls) \in Nat
  BY <1>1 DEF Links, LinkWeight
<1>7. AttachmentWeight(s.attachments) \in Nat
  BY <1>1 DEF Attachments, AttachmentWeight
<1> QED BY <1>2, <1>3, <1>4, <1>5, <1>6, <1>7 DEF Weight

\* The rules alone: a score in range, and a level that is never PHISHING, since
\* naming an attack takes a reading of the text.
THEOREM RulesInRange ==
  ASSUME NEW s \in Signals
  PROVE  Rules(s).score \in 0..100 /\ Rules(s).floor \in {"SAFE", "SUSPICIOUS"}
BY WeightType DEF Rules, Score

LEMMA UnionLevel ==
  ASSUME NEW s \in Signals, NEW reading \in Reading \cup {Unread}
  PROVE  /\ Union(Rules(s), reading).level \in ThreatLevel
         /\ Severity[Union(Rules(s), reading).level] >= Severity[Rules(s).floor]
         /\ reading # Unread =>
              Severity[Union(Rules(s), reading).level] >= Severity[reading]
         /\ Union(Rules(s), reading).level \in {Rules(s).floor, reading}
<1>1. Rules(s).floor \in ThreatLevel
  BY RulesInRange
<1>2. CASE reading = Unread
  BY <1>1, <1>2 DEF Union
<1>3. CASE reading # Unread
  <2>1. reading \in ThreatLevel
    BY <1>3 DEF Reading, ModelLevelScore
  <2> QED BY <1>1, <1>3, <2>1, MoreSevereType DEF Union
<1> QED BY <1>2, <1>3

\* The floor: what the checks require, no reading takes back, neither the level
\* nor the score; and the reading is not lost either.
THEOREM FloorHolds ==
  ASSUME NEW s \in Signals, NEW reading \in Reading \cup {Unread}
  PROVE  /\ Severity[Union(Rules(s), reading).level] >= Severity[Rules(s).floor]
         /\ reading # Unread =>
              Severity[Union(Rules(s), reading).level] >= Severity[reading]
         /\ Union(Rules(s), reading).score \in Rules(s).score..100
<1>1. Rules(s).score \in 0..100
  BY RulesInRange
<1>2. CASE reading = Unread
  BY <1>1, <1>2, UnionLevel DEF Union
<1>3. CASE reading # Unread
  <2>1. reading \in Reading
    BY <1>3
  <2>2. ModelLevelScore[reading] \in 0..100
    BY <2>1 DEF Reading, ModelLevelScore
  <2>3. Union(Rules(s), reading).score \in Rules(s).score..100
    BY <1>1, <1>3, <2>2 DEF Union
  <2> QED BY <2>3, UnionLevel
<1> QED BY <1>2, <1>3

\* A message with damning evidence is shown as suspicious at least, however
\* fluent its text, and also when the cap leaves it unread.
THEOREM NeverTalkedDown ==
  ASSUME NEW s \in Signals, Damning(s), NEW reading \in Reading \cup {Unread}
  PROVE  Union(Rules(s), reading).level \in {"SUSPICIOUS", "PHISHING"}
<1>1. Rules(s).floor = "SUSPICIOUS"
  BY DEF Rules
<1> QED BY <1>1, UnionLevel

\* An attack is named by the model and by nothing else.
THEOREM OnlyTheModelAccuses ==
  ASSUME NEW s \in Signals, NEW reading \in Reading \cup {Unread}
  PROVE  Union(Rules(s), reading).level = "PHISHING" <=> reading = "PHISHING"
<1>1. Rules(s).floor \in {"SAFE", "SUSPICIOUS"}
  BY RulesInRange
<1>2. CASE reading = Unread
  BY <1>1, <1>2 DEF Union, Unread
<1>3. CASE reading # Unread
  BY <1>1, <1>3 DEF Union, MoreSevere, Reading, ModelLevelScore
<1> QED BY <1>2, <1>3

\* A disagreement is told: the level shown differs from the reading exactly when
\* the banner says that the checks stand regardless of it.
THEOREM DisagreementIsTold ==
  ASSUME NEW s \in Signals, NEW reading \in Reading
  PROVE  Union(Rules(s), reading).level # reading <=>
           Union(Rules(s), reading).remark = "stands"
<1>1. Rules(s).floor \in {"SAFE", "SUSPICIOUS"}
  BY RulesInRange
<1>2. reading \in ThreatLevel /\ reading # Unread
  BY DEF Reading, ModelLevelScore, Unread
<1> QED BY <1>1, <1>2 DEF Union, Remark, MoreSevere, Reading, ModelLevelScore, Unread

\* s is evidence that t has too, finding for finding.
AtLeast(t, s) ==
  /\ t.header = s.header /\ t.sender = s.sender
  /\ \A k \in {"rawIpHosts", "punycodeHosts", "lookalikeHosts", "displayMismatches"} :
       t.urls[k] >= s.urls[k]
  /\ \A k \in {"executable", "macro", "archive"} : t.attachments[k] >= s.attachments[k]

\* More links and attachments to complain of never make a milder verdict.
THEOREM MoreEvidenceNeverMilder ==
  ASSUME NEW s \in Signals, NEW t \in Signals, AtLeast(t, s)
  PROVE  /\ Rules(t).score >= Rules(s).score
         /\ Severity[Rules(t).floor] >= Severity[Rules(s).floor]
<1>1. s.urls \in Links /\ t.urls \in Links
  BY DEF Signals
<1>2. s.attachments \in Attachments /\ t.attachments \in Attachments
  BY DEF Signals
<1>3. /\ t.urls.rawIpHosts >= s.urls.rawIpHosts
      /\ t.urls.punycodeHosts >= s.urls.punycodeHosts
      /\ t.urls.lookalikeHosts >= s.urls.lookalikeHosts
      /\ t.urls.displayMismatches >= s.urls.displayMismatches
  BY <1>1 DEF AtLeast, Links
<1>4. /\ t.attachments.executable >= s.attachments.executable
      /\ t.attachments.macro >= s.attachments.macro
      /\ t.attachments.archive >= s.attachments.archive
  BY <1>2 DEF AtLeast, Attachments
<1>5. LinkWeight(s.urls) \in Nat /\ LinkWeight(t.urls) \in Nat
      /\ LinkWeight(t.urls) >= LinkWeight(s.urls)
  BY <1>1, <1>3 DEF LinkWeight, Links
<1>6. AttachmentWeight(s.attachments) \in Nat /\ AttachmentWeight(t.attachments) \in Nat
      /\ AttachmentWeight(t.attachments) >= AttachmentWeight(s.attachments)
  BY <1>2, <1>4 DEF AttachmentWeight, Attachments
<1>7. t.header = s.header /\ t.sender = s.sender
  BY DEF AtLeast
<1>8. DmarcWeight(s.header) \in Nat /\ SpfDkimWeight(s.header) \in Nat
      /\ PartyWeight(s.header) \in Nat /\ SenderWeight(s.sender) \in Nat
  <2>1. DmarcWeight(s.header) \in Nat
    BY DEF DmarcWeight, When
  <2>2. SpfDkimWeight(s.header) \in Nat
    BY DEF SpfDkimWeight, When
  <2>3. PartyWeight(s.header) \in Nat
    BY DEF PartyWeight, When
  <2>4. SenderWeight(s.sender) \in Nat
    BY DEF SenderWeight, When
  <2> QED BY <2>1, <2>2, <2>3, <2>4
<1>9. Weight(t) >= Weight(s)
  BY <1>5, <1>6, <1>7, <1>8 DEF Weight
<1>10. Score(t) >= Score(s) /\ Score(s) \in Nat /\ Score(t) \in Nat
  BY <1>9, WeightType DEF Score
<1>11. Damning(s) => Damning(t)
  BY <1>1, <1>2, <1>3, <1>4, <1>7 DEF Damning, Links, Attachments
<1>12. Rules(t).score >= Rules(s).score
  BY <1>10 DEF Rules
<1>13. Rules(s).floor = "SUSPICIOUS" => Rules(t).floor = "SUSPICIOUS"
  BY <1>10, <1>11 DEF Rules, RULE_SUSPICION_THRESHOLD
<1>14. Severity[Rules(t).floor] >= Severity[Rules(s).floor]
  BY <1>13, RulesInRange
<1> QED BY <1>12, <1>14

LEMMA WorstExists ==
  ASSUME NEW levels \in SUBSET ThreatLevel
  PROVE  \E l \in levels \cup {"UNKNOWN"} :
           \A m \in levels \cup {"UNKNOWN"} : Severity[l] >= Severity[m]
<1>1. CASE "PHISHING" \in levels BY <1>1
<1>2. CASE "PHISHING" \notin levels /\ "SUSPICIOUS" \in levels BY <1>2
<1>3. CASE /\ "PHISHING" \notin levels /\ "SUSPICIOUS" \notin levels
           /\ "SPAM" \in levels
  BY <1>3
<1>4. CASE /\ "PHISHING" \notin levels /\ "SUSPICIOUS" \notin levels
           /\ "SPAM" \notin levels
  BY <1>4
<1> QED BY <1>1, <1>2, <1>3, <1>4

\* A thread is as bad as the worst of its messages, and as one of them.
THEOREM RollupIsWorst ==
  ASSUME NEW levels \in SUBSET ThreatLevel
  PROVE  /\ Rollup(levels) \in levels \cup {"UNKNOWN"}
         /\ \A m \in levels : Severity[Rollup(levels)] >= Severity[m]
BY WorstExists DEF Rollup

\* A benign answer does not clear a thread: with more messages it is no milder.
THEOREM RollupMonotone ==
  ASSUME NEW levels \in SUBSET ThreatLevel, NEW more \in SUBSET ThreatLevel, levels \subseteq more
  PROVE  Severity[Rollup(more)] >= Severity[Rollup(levels)]
<1>1. Rollup(levels) \in levels \cup {"UNKNOWN"}
  BY RollupIsWorst
<1>2. \A m \in more \cup {"UNKNOWN"} : Severity[Rollup(more)] >= Severity[m]
  <2>1. \A m \in more : Severity[Rollup(more)] >= Severity[m]
    BY RollupIsWorst
  <2>2. Rollup(more) \in ThreatLevel
    BY RollupIsWorst
  <2>3. Severity[Rollup(more)] >= Severity["UNKNOWN"]
    BY <2>2
  <2> QED BY <2>1, <2>3
<1> QED BY <1>1, <1>2
=============================================================================
