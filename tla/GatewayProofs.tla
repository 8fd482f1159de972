---------------------------- MODULE GatewayProofs ----------------------------
(***************************************************************************)
(* What holds of Gateway for any number of attempts, lanes and senders, and *)
(* any units and delays.                                                    *)
(***************************************************************************)
EXTENDS Gateway, FiniteSetTheorems, TLAPS

\* The callers are finitely many, and so are those of any set of them.
LEMMA FiniteCallers == ASSUME NEW S \in SUBSET Caller PROVE IsFiniteSet(S)
<1>1. IsFiniteSet(Attempt \X Lane)
  BY FS_Product, GatewayAssumption
<1>2. IsFiniteSet(Caller)
  BY <1>1, FS_Union, GatewayAssumption DEF Caller
<1> QED BY <1>2, FS_Subset

\* What a caller pays is a number of units that the bucket can hold.
LEMMA UnitsType == ASSUME NEW c PROVE Units(c) \in Nat /\ Units(c) <= Capacity
BY GatewayAssumption DEF Units

\* What a set of callers pays is a number of units.
LEMMA CostType == ASSUME NEW S \in SUBSET Caller PROVE Cost(S) \in Nat
<1>1. IsFiniteSet(S \cap Sender) /\ IsFiniteSet(S \ Sender)
  BY FiniteCallers
<1>2. Cardinality(S \cap Sender) \in Nat /\ Cardinality(S \ Sender) \in Nat
  BY <1>1, FS_CardinalityType
<1>3. Send \in Nat /\ Get \in Nat
  BY GatewayAssumption
<1> QED BY <1>2, <1>3 DEF Cost

(***************************************************************************)
(* Types.                                                                  *)
(***************************************************************************)

LEMMA RefilledType ==
  ASSUME tokens \in 0..Capacity, elapsed \in 0..Full
  PROVE  Refilled \in 0..Capacity
<1>1. Capacity \in Nat /\ Rate \in Nat /\ Full \in Nat
  BY GatewayAssumption
<1>2. elapsed * Rate \in Nat
  BY <1>1
<1> QED BY <1>1, <1>2 DEF Refilled, Least

LEMMA WaitType ==
  ASSUME NEW c, NEW have \in Int
  PROVE  WaitFor(c, have) \in Nat
<1>1. Units(c) \in Nat /\ Rate \in Nat \ {0}
  BY UnitsType, GatewayAssumption
<1> DEFINE short == Most(0, Units(c) - have) + Rate - 1
<1>2. short \in Nat
  BY <1>1 DEF Most
<1>3. short \div Rate \in Int
  BY <1>1, <1>2
<1>4. WaitFor(c, have) = Most(1, short \div Rate)
  BY DEF WaitFor
<1> HIDE DEF short
<1> QED BY <1>3, <1>4 DEF Most

WindowType == [open: BOOLEAN, age: 0..MaxAge, spent: Nat]

LEMMA SpendType ==
  ASSUME window \in WindowType, NEW units \in Nat, Spend(units)
  PROVE  window' \in WindowType
<1>1. CASE window.open
  <2>1. window' = [window EXCEPT !.spent = @ + units]
    BY <1>1 DEF Spend
  <2>2. window.spent + units \in Nat
    BY DEF WindowType
  <2> QED BY <2>1, <2>2 DEF WindowType
<1>2. CASE ~window.open
  BY <1>2 DEF Spend
<1> QED BY <1>1, <1>2

\* A caller that enters the bucket: what becomes of the bucket, and of it.
LEMMA AdmitEffect ==
  ASSUME TypeOK, NEW c \in Caller, NEW n \in 0..Tries, Admit(c, n)
  PROVE  /\ tokens' \in 0..Capacity /\ elapsed' = 0
         /\ timer' \in Nat \cup {NoTimer}
         /\ ahead' \in [Caller -> SUBSET Caller]
         /\ window' \in WindowType
         /\ \E p \in {"granted", "waiting"} :
              call' = [call EXCEPT ![c] = [@ EXCEPT !.pc = p, !.tries = n, !.left = 0]]
<1>1. Refilled \in 0..Capacity /\ Units(c) \in Nat /\ Capacity \in Nat
  BY RefilledType, UnitsType, GatewayAssumption DEF TypeOK
<1>2. window \in WindowType
  BY DEF TypeOK, WindowType
<1>3. CASE Granted(c, n)
  <2>1. window' \in WindowType
    BY <1>1, <1>2, <1>3, SpendType DEF Granted
  <2>2. tokens' \in 0..Capacity
    BY <1>1, <1>3 DEF Granted
  <2>3. call' = [call EXCEPT ![c] = [@ EXCEPT !.pc = "granted", !.tries = n, !.left = 0]]
    BY <1>3 DEF Granted, TypeOK, Call
  <2> QED BY <1>3, <2>1, <2>2, <2>3 DEF Granted, TypeOK
<1>4. CASE Queued(c, n)
  <2>1. Waiting \in SUBSET Caller
    BY DEF Waiting
  <2>2. ahead' \in [Caller -> SUBSET Caller]
    BY <1>4, <2>1 DEF Queued, TypeOK
  <2>3. timer' \in Nat \cup {NoTimer}
    BY <1>1, <1>4, WaitType DEF Queued, TypeOK
  <2>4. call' = [call EXCEPT ![c] = [@ EXCEPT !.pc = "waiting", !.tries = n, !.left = 0]]
    BY <1>4 DEF Queued, TypeOK, Call
  <2> QED BY <1>1, <1>2, <1>4, <2>2, <2>3, <2>4 DEF Queued
<1> QED BY <1>3, <1>4 DEF Admit

LEMMA CallUpdate ==
  ASSUME call \in [Caller -> Call], NEW c \in Caller, NEW r \in Call
  PROVE  [call EXCEPT ![c] = r] \in [Caller -> Call]
OBVIOUS

LEMMA SettledType == ASSUME NEW p \in Place PROVE Settled(p) \in Call
<1>1. Rest \in Call
  BY GatewayAssumption DEF Rest, Call, Place
<1> QED BY <1>1 DEF Settled, Call, Rest

\* Another request of a call is another of its tries.
LEMMA AdmitCall ==
  ASSUME call \in [Caller -> Call], NEW c \in Caller, NEW n \in 0..Tries,
         NEW p \in {"granted", "waiting"}
  PROVE  [call[c] EXCEPT !.pc = p, !.tries = n, !.left = 0] \in Call
<1>1. call[c] \in Call
  OBVIOUS
<1>2. p \in Place /\ 0 \in Nat
  BY DEF Place
<1> QED BY <1>1, <1>2 DEF Call

\* The types, and the tries that are left to whoever is asleep.
TypeInv ==
  /\ TypeOK
  /\ \A c \in Caller : At(c, "sleeping") => call[c].tries < Tries

LEMMA WithoutType ==
  ASSUME ahead \in [Caller -> SUBSET Caller], NEW S
  PROVE  Without(S) \in [Caller -> SUBSET Caller]
<1>1. \A c \in Caller : (IF c \in S THEN {} ELSE ahead[c] \ S) \in SUBSET Caller
  OBVIOUS
<1> QED BY <1>1 DEF Without

LEMMA TypeInit == Init => TypeInv
<1> SUFFICES ASSUME Init PROVE TypeInv
  OBVIOUS
<1>1. Rest \in Call /\ Shut \in [open: BOOLEAN, age: 0..MaxAge, spent: Nat]
  BY GatewayAssumption DEF Rest, Call, Place, Shut
<1>2. call \in [Caller -> Call] /\ \A c \in Caller : call[c].pc = "idle"
  BY <1>1 DEF Init, Rest
<1>3. tokens \in 0..Capacity /\ elapsed \in 0..Full /\ timer \in Nat \cup {NoTimer}
  BY GatewayAssumption DEF Init, NoTimer
<1>4. cursor \in [Attempt -> 0..Items] /\ stalls \in 0..MaxFaults /\ refusals \in 0..MaxFaults
  BY GatewayAssumption DEF Init
<1>5. ahead \in [Caller -> SUBSET Caller]
  BY DEF Init
<1>6. TypeOK
  BY <1>1, <1>2, <1>3, <1>4, <1>5 DEF Init, TypeOK
<1> QED BY <1>2, <1>6 DEF TypeInv, At

\* The part of the state that only the job changes, and the part of a step that
\* a call makes.
JobTypes ==
  /\ attempt \in [Attempt -> {"none", "going", "ended"}]
  /\ aborted \subseteq Attempt /\ inFlight \in Attempt \cup {0}
  /\ job \in {"waiting", "active", "finished"}
  /\ stalled \in BOOLEAN /\ closing \in BOOLEAN
  /\ stalls \in 0..MaxFaults

BucketTypes ==
  /\ tokens \in 0..Capacity /\ elapsed \in 0..Full
  /\ ahead \in [Caller -> SUBSET Caller]
  /\ timer \in Nat \cup {NoTimer}
  /\ window \in WindowType

CallTypes ==
  /\ call \in [Caller -> Call]
  /\ \A c \in Caller : At(c, "sleeping") => call[c].tries < Tries

LEMMA TypeParts ==
  TypeInv <=> /\ JobTypes /\ BucketTypes /\ CallTypes
              /\ cursor \in [Attempt -> 0..Items]
              /\ refusals \in 0..MaxFaults
BY DEF TypeInv, TypeOK, JobTypes, BucketTypes, CallTypes, WindowType

LEMMA Unmoved ==
  /\ JobTypes /\ UNCHANGED jobVars => JobTypes'
  /\ BucketTypes /\ UNCHANGED bucketVars => BucketTypes'
<1>1. JobTypes /\ UNCHANGED jobVars => JobTypes'
  BY DEF JobTypes, jobVars
<1>2. BucketTypes /\ UNCHANGED bucketVars => BucketTypes'
  BY DEF BucketTypes, bucketVars
<1> QED BY <1>1, <1>2

LEMMA AdmitTypes ==
  ASSUME TypeInv, NEW c \in Caller, NEW n \in 0..Tries, Admit(c, n)
  PROVE  BucketTypes' /\ CallTypes'
<1>1. TypeOK /\ CallTypes
  BY TypeParts DEF TypeInv
<1>2. BucketTypes'
  <2>1. /\ tokens' \in 0..Capacity /\ elapsed' = 0
        /\ timer' \in Nat \cup {NoTimer}
        /\ ahead' \in [Caller -> SUBSET Caller]
        /\ window' \in WindowType
    BY <1>1, AdmitEffect
  <2>2. elapsed' \in 0..Full
    BY <2>1, GatewayAssumption
  <2> QED BY <2>1, <2>2 DEF BucketTypes
<1>3. PICK p \in {"granted", "waiting"} :
        call' = [call EXCEPT ![c] = [@ EXCEPT !.pc = p, !.tries = n, !.left = 0]]
  BY <1>1, AdmitEffect
<1> DEFINE r == [call[c] EXCEPT !.pc = p, !.tries = n, !.left = 0]
<1>4. r \in Call
  BY <1>1, AdmitCall DEF CallTypes
<1>5. call' = [call EXCEPT ![c] = r]
  BY <1>3
<1>6. r.pc # "sleeping"
  <2>1. call[c] \in Call
    BY <1>1 DEF CallTypes
  <2> QED BY <2>1 DEF Call
<1> HIDE DEF r
<1>7. call' \in [Caller -> Call]
  BY <1>1, <1>4, <1>5, CallUpdate DEF CallTypes
<1>8. \A d \in Caller : At(d, "sleeping")' => call'[d].tries < Tries
  BY <1>1, <1>5, <1>6 DEF CallTypes, At
<1> QED BY <1>2, <1>7, <1>8 DEF CallTypes

\* A call that changes to r, which is not asleep, or may try again.
LEMMA OneCall ==
  ASSUME CallTypes, NEW c \in Caller, NEW r \in Call,
         r.pc = "sleeping" => r.tries < Tries,
         call' = [call EXCEPT ![c] = r]
  PROVE  CallTypes'
<1>1. call' \in [Caller -> Call]
  BY CallUpdate DEF CallTypes
<1>2. \A d \in Caller : At(d, "sleeping")' => call'[d].tries < Tries
  BY DEF CallTypes, At
<1> QED BY <1>1, <1>2 DEF CallTypes

LEMMA SettledCall ==
  ASSUME CallTypes, NEW c \in Caller, NEW p \in {"over", "broken"},
         call' = [call EXCEPT ![c] = Settled(p)]
  PROVE  CallTypes'
<1>1. p \in Place
  BY DEF Place
<1>2. Settled(p) \in Call /\ Settled(p).pc = p
  BY <1>1, SettledType DEF Settled, Rest
<1> QED BY <1>2, OneCall

LEMMA AbortTypes ==
  ASSUME TypeInv, NEW a, Abort(a)
  PROVE  BucketTypes' /\ CallTypes'
<1> DEFINE gone == {c \in {a} \X Lane : call[c].pc \in {"waiting", "sleeping", "asked"}}
<1>1. BucketTypes /\ CallTypes
  BY TypeParts
<1>2. ahead' = Without(gone) /\ UNCHANGED <<tokens, elapsed, timer, window>>
  BY DEF Abort
<1>3. call' = [c \in Caller |-> IF c \in gone THEN Settled("broken") ELSE call[c]]
  BY DEF Abort
<1>4. Settled("broken") \in Call /\ Settled("broken").pc = "broken"
  BY SettledType DEF Settled, Rest, Place
<1> HIDE DEF gone
<1>5. ahead' \in [Caller -> SUBSET Caller]
  BY <1>1, <1>2, WithoutType DEF BucketTypes
<1>6. call' \in [Caller -> Call]
  BY <1>1, <1>3, <1>4 DEF CallTypes
<1>7. \A d \in Caller : At(d, "sleeping")' => call'[d].tries < Tries
  BY <1>1, <1>3, <1>4 DEF CallTypes, At
<1> QED BY <1>1, <1>2, <1>5, <1>6, <1>7 DEF BucketTypes, CallTypes

LEMMA ServeTypes ==
  ASSUME TypeInv, NEW S \in SUBSET Waiting, Serve(S)
  PROVE  /\ tokens' \in 0..Capacity /\ elapsed' \in 0..Full
         /\ ahead' \in [Caller -> SUBSET Caller]
         /\ window' \in WindowType
         /\ CallTypes'
<1>1. BucketTypes /\ CallTypes
  BY TypeParts
<1>2. S \in SUBSET Caller
  BY DEF Waiting
<1>3. Refilled \in 0..Capacity /\ Cost(S) \in Nat /\ Capacity \in Nat /\ Full \in Nat
  BY <1>1, <1>2, RefilledType, CostType, GatewayAssumption DEF BucketTypes
<1>4. tokens' \in 0..Capacity
  <2>1. tokens' = Refilled - Cost(S) /\ Cost(S) <= Refilled
    BY DEF Serve
  <2> QED BY <1>3, <2>1
<1>5. elapsed' \in 0..Full
  BY <1>3 DEF Serve
<1>6. ahead' \in [Caller -> SUBSET Caller]
  BY <1>1, WithoutType DEF Serve, BucketTypes
<1>7. window' \in WindowType
  BY <1>1, <1>3, SpendType DEF Serve, BucketTypes
<1>8. call' = [c \in Caller |-> IF c \in S THEN [call[c] EXCEPT !.pc = "granted"] ELSE call[c]]
  BY DEF Serve
<1>9. \A c \in Caller : [call[c] EXCEPT !.pc = "granted"] \in Call
  <2> SUFFICES ASSUME NEW c \in Caller PROVE [call[c] EXCEPT !.pc = "granted"] \in Call
    OBVIOUS
  <2>1. call[c] \in Call /\ "granted" \in Place
    BY <1>1 DEF CallTypes, Place
  <2> QED BY <2>1 DEF Call
<1>10. call' \in [Caller -> Call]
  BY <1>1, <1>8, <1>9 DEF CallTypes
<1>11. \A c \in Caller : [call[c] EXCEPT !.pc = "granted"].pc = "granted"
  BY <1>1 DEF CallTypes, Call
<1>12. \A d \in Caller : At(d, "sleeping")' => call'[d].tries < Tries
  BY <1>1, <1>8, <1>11 DEF CallTypes, At
<1> QED BY <1>4, <1>5, <1>6, <1>7, <1>10, <1>12 DEF CallTypes

LEMMA TypeStep == TypeInv /\ [Next]_vars => TypeInv'
<1> SUFFICES ASSUME TypeInv, [Next]_vars PROVE TypeInv'
  OBVIOUS
<1>1. /\ JobTypes /\ BucketTypes /\ CallTypes
      /\ cursor \in [Attempt -> 0..Items] /\ refusals \in 0..MaxFaults
  BY TypeParts
<1>2. \A c \in Caller : call[c] \in Call
  BY <1>1 DEF CallTypes
<1>3. MaxFaults \in Nat /\ Items \in Nat /\ Tries \in Nat \ {0} /\ Full \in Nat
      /\ MaxAge \in Nat /\ MinDelay \in Nat /\ MaxDelay \in Nat /\ MaxAfter \in Nat
  BY GatewayAssumption
<1> SUFFICES /\ JobTypes' /\ BucketTypes' /\ CallTypes'
             /\ cursor' \in [Attempt -> 0..Items] /\ refusals' \in 0..MaxFaults
  BY TypeParts DEF TypeInv, TypeOK, JobTypes, BucketTypes, CallTypes, WindowType
<1>4. ASSUME NEW c \in Fetching, TakeItem(c)
      PROVE  /\ JobTypes' /\ BucketTypes' /\ CallTypes'
             /\ cursor' \in [Attempt -> 0..Items] /\ refusals' \in 0..MaxFaults
  <2>1. c \in Caller /\ c[1] \in Attempt
    BY DEF Caller, Fetching
  <2>2. JobTypes' /\ refusals' \in 0..MaxFaults
    BY <1>1, <1>4, Unmoved DEF TakeItem
  <2>3. CASE ~Silenced(c) /\ cursor[c[1]] < Items /\ Admit(c, 1)
             /\ cursor' = [cursor EXCEPT ![c[1]] = @ + 1]
    <3>1. BucketTypes' /\ CallTypes'
      BY <1>3, <2>1, <2>3, AdmitTypes
    <3>2. cursor' \in [Attempt -> 0..Items]
      BY <1>1, <1>3, <2>1, <2>3
    <3> QED BY <2>2, <3>1, <3>2
  <2>4. CASE /\ call' = [call EXCEPT ![c] = Settled(IF Silenced(c) THEN "broken" ELSE "over")]
             /\ UNCHANGED <<bucketVars, cursor>>
    <3>1. CallTypes'
      BY <1>1, <2>1, <2>4, SettledCall
    <3>2. BucketTypes' /\ cursor' \in [Attempt -> 0..Items]
      BY <1>1, <2>4, Unmoved
    <3> QED BY <2>2, <3>1, <3>2
  <2> QED BY <1>4, <2>3, <2>4 DEF TakeItem
<1>5. ASSUME NEW c \in Sender, SendMessage(c)
      PROVE  /\ JobTypes' /\ BucketTypes' /\ CallTypes'
             /\ cursor' \in [Attempt -> 0..Items] /\ refusals' \in 0..MaxFaults
  <2>1. BucketTypes' /\ CallTypes'
    BY <1>3, <1>5, AdmitTypes DEF SendMessage, Caller
  <2> QED BY <1>1, <1>5, <2>1, Unmoved DEF SendMessage
<1>6. ASSUME NEW c \in Caller, Fire(c)
      PROVE  /\ JobTypes' /\ BucketTypes' /\ CallTypes'
             /\ cursor' \in [Attempt -> 0..Items] /\ refusals' \in 0..MaxFaults
  <2>1. [call[c] EXCEPT !.pc = "asked"] \in Call
    BY <1>2 DEF Call, Place
  <2>2. [call[c] EXCEPT !.pc = "asked"].pc # "sleeping"
    BY <1>2 DEF Call
  <2>3. CASE Silenced(c)
    BY <1>1, <1>6, <2>3, SettledCall, Unmoved DEF Fire
  <2>4. CASE ~Silenced(c)
    <3>1. call' = [call EXCEPT ![c] = [call[c] EXCEPT !.pc = "asked"]]
      BY <1>1, <1>6, <2>4 DEF Fire, CallTypes
    <3>2. CallTypes'
      BY <1>1, <2>1, <2>2, <3>1, OneCall
    <3> QED BY <1>1, <1>6, <3>2, Unmoved DEF Fire
  <2> QED BY <2>3, <2>4
<1>7. ASSUME NEW c \in Caller, Succeed(c)
      PROVE  /\ JobTypes' /\ BucketTypes' /\ CallTypes'
             /\ cursor' \in [Attempt -> 0..Items] /\ refusals' \in 0..MaxFaults
  <2>1. Rest \in Call /\ Rest.pc = "idle"
    BY <1>3 DEF Rest, Call, Place
  <2>2. CallTypes'
    <3>1. CASE c \in Sender
      BY <1>1, <1>7, <3>1, SettledCall DEF Succeed
    <3>2. CASE c \notin Sender
      BY <1>1, <1>7, <2>1, <3>2, OneCall DEF Succeed
    <3> QED BY <3>1, <3>2
  <2> QED BY <1>1, <1>7, <2>2, Unmoved DEF Succeed
<1>8. ASSUME NEW c \in Caller, Refuse(c)
      PROVE  /\ JobTypes' /\ BucketTypes' /\ CallTypes'
             /\ cursor' \in [Attempt -> 0..Items] /\ refusals' \in 0..MaxFaults
  <2>1. refusals' \in 0..MaxFaults
    <3>1. stalls + refusals < MaxFaults /\ refusals' = refusals + 1
      BY <1>8 DEF Refuse
    <3> QED BY <1>1, <1>3, <3>1 DEF JobTypes
  <2>2. PICK after \in After \cup {NoAfter} :
          \/ call' = [call EXCEPT ![c] = Settled("broken")]
          \/ /\ call[c].tries < Tries
             /\ \E d \in Delays(call[c].tries, after) :
                  call' = [call EXCEPT ![c].pc = "sleeping", ![c].left = d,
                                       ![c].closed = Most(0, after)]
    BY <1>8 DEF Refuse
  <2>3. CASE call' = [call EXCEPT ![c] = Settled("broken")]
    BY <1>1, <1>8, <2>1, <2>3, SettledCall, Unmoved DEF Refuse
  <2>4. CASE /\ call[c].tries < Tries
             /\ \E d \in Delays(call[c].tries, after) :
                  call' = [call EXCEPT ![c].pc = "sleeping", ![c].left = d,
                                       ![c].closed = Most(0, after)]
    <3>1. PICK d \in Delays(call[c].tries, after) :
            call' = [call EXCEPT ![c].pc = "sleeping", ![c].left = d,
                                 ![c].closed = Most(0, after)]
      BY <2>4
    <3>2. after \in Int
      <4>1. after \in After \cup {NoAfter}
        BY <2>2
      <4>2. After \subseteq Nat
        BY GatewayAssumption
      <4> QED BY <4>1, <4>2 DEF NoAfter
    <3>3. d \in Nat /\ Most(0, after) \in Nat
      BY <1>3, <3>2 DEF Delays, Backoff, Most, Least
    <3> DEFINE r == [call[c] EXCEPT !.pc = "sleeping", !.left = d, !.closed = Most(0, after)]
    <3>4. r \in Call /\ r.tries = call[c].tries
      BY <1>2, <3>3 DEF Call, Place
    <3>5. call' = [call EXCEPT ![c] = r]
      BY <1>1, <3>1 DEF CallTypes
    <3> HIDE DEF r
    <3>6. CallTypes'
      BY <1>1, <2>4, <3>4, <3>5, OneCall
    <3> QED BY <1>1, <1>8, <2>1, <3>6, Unmoved DEF Refuse
  <2> QED BY <2>2, <2>3, <2>4
<1>9. ASSUME NEW c \in Caller, Reject(c)
      PROVE  /\ JobTypes' /\ BucketTypes' /\ CallTypes'
             /\ cursor' \in [Attempt -> 0..Items] /\ refusals' \in 0..MaxFaults
  <2>1. refusals' \in 0..MaxFaults
    BY <1>1, <1>3, <1>9 DEF Reject, JobTypes
  <2> QED BY <1>1, <1>9, <2>1, SettledCall, Unmoved DEF Reject
<1>10. ASSUME NEW c \in Caller, Wake(c)
      PROVE  /\ JobTypes' /\ BucketTypes' /\ CallTypes'
             /\ cursor' \in [Attempt -> 0..Items] /\ refusals' \in 0..MaxFaults
  <2>1. call[c].tries + 1 \in 0..Tries
    BY <1>1, <1>2, <1>3, <1>10 DEF Wake, CallTypes, Call
  <2>2. BucketTypes' /\ CallTypes'
    BY <1>10, <2>1, AdmitTypes DEF Wake
  <2> QED BY <1>1, <1>10, <2>2, Unmoved DEF Wake
<1>11. ASSUME NEW a \in Attempt, Start(a)
      PROVE  /\ JobTypes' /\ BucketTypes' /\ CallTypes'
             /\ cursor' \in [Attempt -> 0..Items] /\ refusals' \in 0..MaxFaults
  <2>1. JobTypes'
    BY <1>1, <1>11 DEF Start, JobTypes
  <2>2. CallTypes'
    BY <1>1, <1>11 DEF Start, CallTypes, At
  <2> QED BY <1>1, <1>11, <2>1, <2>2, Unmoved DEF Start
<1>12. ASSUME NEW a \in Attempt, End(a)
      PROVE  /\ JobTypes' /\ BucketTypes' /\ CallTypes'
             /\ cursor' \in [Attempt -> 0..Items] /\ refusals' \in 0..MaxFaults
  <2>1. BucketTypes' /\ CallTypes'
    BY <1>12, AbortTypes DEF End
  <2>2. JobTypes'
    BY <1>1, <1>12 DEF End, Abort, JobTypes
  <2> QED BY <1>1, <1>12, <2>1, <2>2 DEF End
<1>13. ASSUME AbortRegistered PROVE BucketTypes' /\ CallTypes' /\ aborted' \subseteq Attempt
  <2>1. CASE inFlight # 0 /\ Abort(inFlight)
    <3>1. BucketTypes' /\ CallTypes'
      BY <2>1, AbortTypes
    <3> QED BY <1>1, <2>1, <3>1 DEF Abort, JobTypes
  <2>2. CASE UNCHANGED <<aborted, bucketVars, call>>
    BY <1>1, <2>2, Unmoved DEF JobTypes, CallTypes, At
  <2> QED BY <1>13, <2>1, <2>2 DEF AbortRegistered
<1>14. CASE TimerFires
  <2>1. PICK S \in SUBSET Waiting :
          /\ Serve(S)
          /\ \/ (S = Waiting /\ timer' = NoTimer)
             \/ \E h \in Waiting \ S : ahead[h] \subseteq S /\ timer' = WaitFor(h, tokens')
    BY <1>14 DEF TimerFires
  <2>2. /\ tokens' \in 0..Capacity /\ elapsed' \in 0..Full
        /\ ahead' \in [Caller -> SUBSET Caller] /\ window' \in WindowType /\ CallTypes'
    BY <2>1, ServeTypes
  <2>3. tokens' \in Int
    BY <2>2
  <2>4. timer' \in Nat \cup {NoTimer}
    BY <2>1, <2>3, WaitType
  <2>5. BucketTypes'
    BY <2>2, <2>4 DEF BucketTypes
  <2> QED BY <1>1, <1>14, <2>2, <2>5, Unmoved DEF TimerFires
<1>15. CASE Stall
  <2>1. JobTypes'
    BY <1>1, <1>3, <1>15 DEF Stall, JobTypes
  <2>2. CallTypes'
    BY <1>1, <1>15 DEF Stall, CallTypes, At
  <2> QED BY <1>1, <1>15, <2>1, <2>2, Unmoved DEF Stall
<1>16. CASE StallReported
  <2>1. JobTypes'
    BY <1>1, <1>13, <1>16 DEF StallReported, JobTypes
  <2> QED BY <1>1, <1>13, <1>16, <2>1 DEF StallReported
<1>17. CASE Close
  <2>1. JobTypes'
    BY <1>1, <1>13, <1>17 DEF Close, JobTypes
  <2> QED BY <1>1, <1>13, <1>17, <2>1 DEF Close
<1>18. CASE Tick
  <2>1. elapsed' \in 0..Full /\ timer' \in Nat \cup {NoTimer}
    <3>1. /\ elapsed' = Least(Full, elapsed + 1)
          /\ timer' = IF timer = NoTimer THEN NoTimer ELSE Less(timer)
      BY <1>18 DEF Tick
    <3> QED BY <1>1, <1>3, <3>1 DEF BucketTypes, Least, Most, Less, NoTimer
  <2>2. window' \in WindowType
    <3>1. Shut \in WindowType
      BY <1>3 DEF Shut, WindowType
    <3>2. window.age < MaxAge => [window EXCEPT !.age = @ + 1] \in WindowType
      BY <1>1, <1>3 DEF BucketTypes, WindowType
    <3> QED BY <1>18, <3>1, <3>2 DEF Tick
  <2>3. BucketTypes'
    BY <1>1, <1>18, <2>1, <2>2 DEF Tick, BucketTypes
  <2>4. \A c \in Caller : /\ Less(call[c].left) \in Nat
                          /\ Less(call[c].closed) \in Nat
    BY <1>2 DEF Call, Less, Most
  <2>5. \A c \in Caller :
          /\ [call[c] EXCEPT !.left = Less(@), !.closed = Less(@)] \in Call
          /\ [call[c] EXCEPT !.left = Less(@), !.closed = Less(@)].pc = call[c].pc
          /\ [call[c] EXCEPT !.left = Less(@), !.closed = Less(@)].tries = call[c].tries
    BY <1>2, <2>4 DEF Call
  <2>6. call' = [c \in Caller |-> [call[c] EXCEPT !.left = Less(@), !.closed = Less(@)]]
    BY <1>18 DEF Tick
  <2>7. CallTypes'
    BY <1>1, <2>5, <2>6 DEF CallTypes, At
  <2> QED BY <1>1, <1>18, <2>3, <2>7, Unmoved DEF Tick
<1>19. CASE Observe
  <2>1. window' \in WindowType
    <3>1. window' = [Shut EXCEPT !.open = TRUE]
      BY <1>19 DEF Observe
    <3>2. Shut \in WindowType
      BY <1>3 DEF Shut, WindowType
    <3> QED BY <3>1, <3>2 DEF WindowType
  <2>2. BucketTypes' /\ CallTypes'
    BY <1>1, <1>19, <2>1 DEF Observe, BucketTypes, CallTypes, At
  <2> QED BY <1>1, <1>19, <2>2, Unmoved DEF Observe
<1>20. CASE UNCHANGED vars
  BY <1>1, <1>20, Unmoved DEF vars, CallTypes, At
<1>21. ASSUME NEW c \in Sender, AbortSend(c)
      PROVE  /\ JobTypes' /\ BucketTypes' /\ CallTypes'
             /\ cursor' \in [Attempt -> 0..Items] /\ refusals' \in 0..MaxFaults
  <2>1. refusals' \in 0..MaxFaults
    <3>1. stalls + refusals < MaxFaults /\ refusals' = refusals + 1
      BY <1>21 DEF AbortSend
    <3> QED BY <1>1, <1>3, <3>1 DEF JobTypes
  <2>2. BucketTypes'
    <3>1. ahead' = Without({c}) /\ UNCHANGED <<tokens, elapsed, timer, window>>
      BY <1>21 DEF AbortSend
    <3>2. ahead' \in [Caller -> SUBSET Caller]
      BY <1>1, <3>1, WithoutType DEF BucketTypes
    <3> QED BY <1>1, <3>1, <3>2 DEF BucketTypes
  <2>3. c \in Caller /\ call' = [call EXCEPT ![c] = Settled("broken")]
    BY <1>21 DEF AbortSend, Caller
  <2>4. CallTypes'
    BY <1>1, <2>3, SettledCall
  <2> QED BY <1>1, <1>21, <2>1, <2>2, <2>4, Unmoved DEF AbortSend
<1> QED
  BY <1>21, <1>4, <1>5, <1>6, <1>7, <1>8, <1>9, <1>10, <1>11, <1>12, <1>14, <1>15, <1>16, <1>17,
     <1>18, <1>19, <1>20 DEF Next, Answer

\* Every state of every behaviour has the types of TypeOK.
THEOREM Types == Spec => []TypeOK
<1>1. Spec => []TypeInv
  BY TypeInit, TypeStep, PTL DEF Spec
<1>2. TypeInv => TypeOK
  BY DEF TypeInv
<1> QED BY <1>1, <1>2, PTL

(***************************************************************************)
(* The queue and the quota.                                                *)
(***************************************************************************)

\* A step that leaves the queue alone: nobody enters it, leaves it or is served.
Quiet ==
  /\ UNCHANGED ahead
  /\ \A c \in Caller : At(c, "waiting")' <=> At(c, "waiting")
  /\ \A c \in Caller : At(c, "granted")' => At(c, "granted")
  /\ \/ /\ UNCHANGED <<tokens, elapsed, window>>
        /\ UNCHANGED Paying \/ \E c \in Paying : Paying' = Paying \ {c}
     \/ (Tick \/ Observe) /\ UNCHANGED Paying

\* A call that changes to r, and neither was in the queue nor enters it.
LEMMA QuietCall ==
  ASSUME TypeInv, NEW c \in Caller, NEW r, ~At(c, "waiting"),
         r.pc \notin {"waiting", "granted"},
         call' = [call EXCEPT ![c] = r], UNCHANGED bucketVars
  PROVE  Quiet
<1>1. call \in [Caller -> Call]
  BY DEF TypeInv, TypeOK
<1>2. \A d \in Caller : call'[d] = IF d = c THEN r ELSE call[d]
  BY <1>1
<1>3. UNCHANGED <<tokens, elapsed, window, ahead>>
  BY DEF bucketVars
<1>4. Paying' = Paying \ {c}
  BY <1>2 DEF Paying, At
<1>5. UNCHANGED Paying \/ \E d \in Paying : Paying' = Paying \ {d}
  BY <1>4
<1> QED BY <1>2, <1>3, <1>5 DEF Quiet, At

LEMMA SettledPc == ASSUME NEW p PROVE Settled(p).pc = p /\ Settled(p).closed = 0
BY DEF Settled, Rest

\* Caller c enters the bucket, from outside of it.
Entering(c, n) == ~At(c, "waiting") /\ ~At(c, "granted") /\ Admit(c, n)

\* The call of c ends, wherever it is.
Dropped(c) ==
  /\ call' = [call EXCEPT ![c] = Settled("broken")]
  /\ ahead' = Without({c})
  /\ UNCHANGED <<tokens, elapsed, window>>

\* What a step does to the queue.
LEMMA Moves ==
  ASSUME TypeInv, [Next]_vars
  PROVE  \/ \E c \in Caller, n \in Nat : Entering(c, n)
         \/ \E S \in SUBSET Waiting : Serve(S)
         \/ \E a \in Attempt : Abort(a)
         \/ \E c \in Caller : Dropped(c)
         \/ Quiet
<1>1. call \in [Caller -> Call] /\ inFlight \in Attempt \cup {0}
  BY DEF TypeInv, TypeOK
<1>2. CASE UNCHANGED <<bucketVars, call>>
  BY <1>2 DEF Quiet, bucketVars, At, Paying
<1>3. ASSUME NEW c \in Fetching, TakeItem(c) PROVE (\E n \in Nat : Entering(c, n)) \/ Quiet
  <2>1. ~At(c, "waiting") /\ ~At(c, "granted") /\ c \in Caller
    BY <1>3 DEF TakeItem, At, Caller, Fetching
  <2>2. CASE Admit(c, 1)
    BY <2>1, <2>2 DEF Entering
  <2>3. CASE /\ call' = [call EXCEPT ![c] = Settled(IF Silenced(c) THEN "broken" ELSE "over")]
             /\ UNCHANGED bucketVars
    <3> DEFINE p == IF Silenced(c) THEN "broken" ELSE "over"
    <3>1. call' = [call EXCEPT ![c] = Settled(p)] /\ p \in {"broken", "over"}
      BY <2>3
    <3> HIDE DEF p
    <3>2. Settled(p).pc = p
      BY SettledPc
    <3> QED BY <2>1, <2>3, <3>1, <3>2, QuietCall
  <2> QED BY <1>3, <2>2, <2>3 DEF TakeItem
<1>4. ASSUME NEW c \in Sender, SendMessage(c) PROVE Entering(c, 1)
  BY <1>4 DEF SendMessage, At, Entering
<1>5. ASSUME NEW c \in Caller, Wake(c)
      PROVE  \E n \in Nat : Entering(c, n)
  <2>1. call[c].tries + 1 \in Nat /\ Entering(c, call[c].tries + 1)
    BY <1>1, <1>5, GatewayAssumption DEF Wake, Call, At, Entering
  <2> QED BY <2>1
<1>6. ASSUME NEW c \in Caller, Fire(c) PROVE Quiet
  <2>1. ~At(c, "waiting") /\ UNCHANGED bucketVars
    BY <1>6 DEF Fire, At
  <2>2. [call[c] EXCEPT !.pc = "asked"].pc = "asked"
    BY <1>1 DEF Call
  <2>3. \E r : r.pc \notin {"waiting", "granted"} /\ call' = [call EXCEPT ![c] = r]
    BY <1>1, <1>6, <2>2, SettledPc DEF Fire
  <2> QED BY <2>1, <2>3, QuietCall
<1>7. ASSUME NEW c \in Caller, Answer(c) PROVE Quiet
  <2>1. ~At(c, "waiting") /\ UNCHANGED bucketVars
    BY <1>7 DEF Answer, Succeed, Refuse, Reject, At
  <2>2. CASE Succeed(c)
    <3>1. Rest.pc = "idle"
      BY DEF Rest
    <3>2. \E r : r.pc \notin {"waiting", "granted"} /\ call' = [call EXCEPT ![c] = r]
      BY <2>2, <3>1, SettledPc DEF Succeed
    <3> QED BY <2>1, <3>2, QuietCall
  <2>3. CASE Reject(c)
    BY <2>1, <2>3, SettledPc, QuietCall DEF Reject
  <2>4. CASE Refuse(c)
    <3>1. \/ call' = [call EXCEPT ![c] = Settled("broken")]
          \/ \E d, e : call' = [call EXCEPT ![c] = [@ EXCEPT !.pc = "sleeping", !.left = d, !.closed = e]]
      <4>1. PICK after \in After \cup {NoAfter} :
              \/ call' = [call EXCEPT ![c] = Settled("broken")]
              \/ \E d \in Delays(call[c].tries, after) :
                   call' = [call EXCEPT ![c].pc = "sleeping", ![c].left = d,
                                        ![c].closed = Most(0, after)]
        BY <2>4 DEF Refuse
      <4>2. ASSUME NEW d \in Delays(call[c].tries, after),
                   call' = [call EXCEPT ![c].pc = "sleeping", ![c].left = d,
                                        ![c].closed = Most(0, after)]
            PROVE  call' = [call EXCEPT ![c] = [@ EXCEPT !.pc = "sleeping", !.left = d,
                                                         !.closed = Most(0, after)]]
        BY <1>1, <4>2
      <4> QED BY <4>1, <4>2
    <3>2. \A d, e : [call[c] EXCEPT !.pc = "sleeping", !.left = d, !.closed = e].pc = "sleeping"
      BY <1>1 DEF Call
    <3>3. \E r : r.pc \notin {"waiting", "granted"} /\ call' = [call EXCEPT ![c] = r]
      BY <3>1, <3>2, SettledPc
    <3> QED BY <2>1, <3>3, QuietCall
  <2> QED BY <1>7, <2>2, <2>3, <2>4 DEF Answer
<1>8. ASSUME NEW a \in Attempt, Start(a) PROVE UNCHANGED <<bucketVars, call>>
  BY <1>8 DEF Start
<1>9. ASSUME NEW a \in Attempt, End(a) PROVE Abort(a)
  BY <1>9 DEF End
<1>10. CASE AbortRegistered
  BY <1>1, <1>2, <1>10 DEF AbortRegistered
<1>11. CASE TimerFires
  BY <1>11 DEF TimerFires
<1>12. CASE Stall
  BY <1>2, <1>12 DEF Stall
<1>13. CASE Tick
  <2>1. call' = [c \in Caller |-> [call[c] EXCEPT !.left = Less(@), !.closed = Less(@)]]
        /\ UNCHANGED ahead
    BY <1>13 DEF Tick
  <2>2. \A c \in Caller : [call[c] EXCEPT !.left = Less(@), !.closed = Less(@)].pc = call[c].pc
    BY <1>1 DEF Call
  <2> QED BY <1>13, <2>1, <2>2 DEF Quiet, At, Paying
<1>14. CASE Observe
  BY <1>14 DEF Observe, Quiet, At, Paying
<1>15. CASE UNCHANGED vars
  BY <1>2, <1>15 DEF vars
<1>16. CASE StallReported \/ Close
  BY <1>10, <1>16 DEF StallReported, Close
<1>17. ASSUME NEW c \in Sender, AbortSend(c) PROVE c \in Caller /\ Dropped(c)
  BY <1>17 DEF AbortSend, Dropped, Caller
<1> QED
  BY <1>17, <1>2, <1>3, <1>4, <1>5, <1>6, <1>7, <1>8, <1>9, <1>11, <1>12, <1>13, <1>14, <1>15, <1>16
  DEF Next, Caller, Fetching

\* What was spent since one looks, and what could be spent now, is within what a
\* full bucket and the time brought.
WindowInv ==
  /\ TypeInv
  /\ window.open => window.spent + Refilled <= Capacity + Rate * window.age

LEMMA RefilledNow ==
  ASSUME tokens' \in 0..Capacity, elapsed' = 0 PROVE Refilled' = tokens'
<1>1. Capacity \in Nat /\ Rate \in Nat
  BY GatewayAssumption
<1>2. 0 * Rate = 0
  BY <1>1
<1>3. Refilled' = Least(Capacity, tokens' + 0 * Rate)
  <2>1. Refilled' = IF Capacity <= tokens' + elapsed' * Rate THEN Capacity
                                                            ELSE tokens' + elapsed' * Rate
    BY DEF Refilled, Least
  <2> QED BY <2>1 DEF Least
<1>4. tokens' \in Int /\ tokens' <= Capacity
  BY <1>1
<1>5. tokens' + 0 * Rate = tokens'
  BY <1>2, <1>4
<1>6. Least(Capacity, tokens') = tokens'
  BY <1>1, <1>4 DEF Least
<1> QED BY <1>3, <1>5, <1>6, Zenon

\* Paying u units out of the bucket.
LEMMA Paid ==
  ASSUME WindowInv, TypeInv', NEW u \in Nat, tokens' = Refilled - u, elapsed' = 0,
         Spend(u) \/ (u = 0 /\ UNCHANGED window)
  PROVE  WindowInv'
<1>1. Refilled \in 0..Capacity /\ Capacity \in Nat /\ Rate \in Nat
  BY RefilledType, GatewayAssumption DEF WindowInv, TypeInv, TypeOK
<1>2. Refilled' = Refilled - u
  BY RefilledNow DEF TypeInv, TypeOK
<1>3. window \in WindowType
  BY DEF WindowInv, TypeInv, TypeOK, WindowType
<1>4. /\ window'.open = window.open /\ window'.age = window.age
      /\ window.open => window'.spent = window.spent + u
  <2>1. CASE Spend(u)
    BY <1>3, <2>1 DEF Spend, WindowType
  <2>2. CASE u = 0 /\ UNCHANGED window
    BY <1>3, <2>2 DEF WindowType
  <2> QED BY <2>1, <2>2
<1>5. window.open => window.spent + Refilled <= Capacity + Rate * window.age
  BY DEF WindowInv
<1>6. window.spent \in Nat /\ Rate * window.age \in Int
  <2>1. window.age \in Int /\ window.spent \in Nat
    BY <1>3, GatewayAssumption DEF WindowType
  <2> QED BY <1>1, <2>1
<1>7. window'.open => window'.spent + Refilled' <= Capacity + Rate * window'.age
  BY <1>1, <1>2, <1>4, <1>5, <1>6
<1> QED BY <1>7 DEF WindowInv

LEMMA WindowStep == WindowInv /\ [Next]_vars => WindowInv'
<1> SUFFICES ASSUME WindowInv, [Next]_vars PROVE WindowInv'
  OBVIOUS
<1>1. TypeInv /\ TypeInv'
  BY TypeStep DEF WindowInv
<1>2. Refilled \in 0..Capacity /\ Capacity \in Nat /\ Rate \in Nat /\ Full \in Nat /\ MaxAge \in Nat
  BY <1>1, RefilledType, GatewayAssumption DEF TypeInv, TypeOK
<1>3. /\ tokens \in 0..Capacity /\ elapsed \in 0..Full /\ window \in WindowType
  BY <1>1 DEF TypeInv, TypeOK, WindowType
<1>4. ASSUME NEW c \in Caller, NEW n \in Nat, Admit(c, n) PROVE WindowInv'
  <2>1. Units(c) \in Nat
    BY UnitsType
  <2>2. CASE Granted(c, n)
    BY <1>1, <2>1, <2>2, Paid DEF Granted
  <2>3. CASE Queued(c, n)
    <3>1. tokens' = Refilled - 0 /\ elapsed' = 0 /\ UNCHANGED window
      BY <1>2, <2>3 DEF Queued
    <3> QED BY <1>1, <3>1, Paid
  <2> QED BY <1>4, <2>2, <2>3 DEF Admit
<1>5. ASSUME NEW S \in SUBSET Waiting, Serve(S) PROVE WindowInv'
  <2>1. Cost(S) \in Nat
    BY CostType DEF Waiting
  <2> QED BY <1>1, <1>5, <2>1, Paid DEF Serve
<1>6. CASE UNCHANGED <<tokens, elapsed, window>>
  <2>1. Refilled' = Refilled
    BY <1>6 DEF Refilled
  <2> QED BY <1>1, <1>6, <2>1 DEF WindowInv
<1>7. CASE Tick
  <2>1. /\ elapsed' = Least(Full, elapsed + 1) /\ tokens' = tokens
        /\ window' = IF window.open /\ window.age < MaxAge
                       THEN [window EXCEPT !.age = @ + 1] ELSE Shut
    BY <1>7 DEF Tick
  <2>2. CASE window.open /\ window.age < MaxAge
    <3>1. window' = [window EXCEPT !.age = @ + 1]
      BY <2>1, <2>2
    <3>2. /\ window'.age = window.age + 1 /\ window'.spent = window.spent
          /\ window.spent \in Nat /\ window.age \in Nat
      BY <1>3, <3>1 DEF WindowType
    <3>3. Rate * (window.age + 1) = Rate * window.age + Rate /\ Rate * window.age \in Nat
      BY <1>2, <3>2
    <3>4. Refilled' <= Refilled + Rate /\ Refilled' \in Int
      <4>1. elapsed' \in Nat /\ elapsed' <= elapsed + 1 /\ elapsed \in Nat
        BY <1>2, <1>3, <2>1 DEF Least
      <4>2. elapsed' \in {elapsed, elapsed + 1}
        BY <1>2, <1>3, <2>1 DEF Least
      <4>3. (elapsed + 1) * Rate = elapsed * Rate + Rate /\ elapsed * Rate \in Nat
        BY <1>2, <4>1
      <4>4. elapsed' * Rate \in Int
        BY <1>2, <4>1
      <4>5. Refilled' = Least(Capacity, tokens + elapsed' * Rate)
        BY <2>1 DEF Refilled, Least
      <4> DEFINE old == elapsed * Rate
      <4> DEFINE new == elapsed' * Rate
      <4>6. new <= old + Rate /\ old \in Nat /\ new \in Int
        BY <1>2, <4>2, <4>3, <4>4
      <4>7. Refilled = Least(Capacity, tokens + old) /\ Refilled' = Least(Capacity, tokens + new)
        BY <4>5 DEF Refilled
      <4> HIDE DEF old, new
      <4> QED BY <1>2, <1>3, <4>6, <4>7 DEF Least
    <3>5. window.spent + Refilled <= Capacity + Rate * window.age
      BY <2>2 DEF WindowInv
    <3>6. window'.spent + Refilled' <= Capacity + Rate * window'.age
      BY <1>2, <3>2, <3>3, <3>4, <3>5
    <3> QED BY <1>1, <3>6 DEF WindowInv
  <2>3. CASE ~(window.open /\ window.age < MaxAge)
    BY <1>1, <2>1, <2>3 DEF WindowInv, Shut
  <2> QED BY <2>2, <2>3
<1>8. CASE Observe
  <2>1. window' = [Shut EXCEPT !.open = TRUE] /\ Refilled' = Refilled
    BY <1>8 DEF Observe, Refilled
  <2>2. window'.spent = 0 /\ window'.age = 0
    BY <2>1 DEF Shut
  <2>3. Rate * 0 = 0
    BY <1>2
  <2>4. window'.spent + Refilled' <= Capacity + Rate * window'.age
    BY <1>2, <2>1, <2>2, <2>3
  <2> QED BY <1>1, <2>4 DEF WindowInv
<1>9. ASSUME NEW a, Abort(a) PROVE UNCHANGED <<tokens, elapsed, window>>
  BY <1>9 DEF Abort
<1> QED BY <1>1, <1>4, <1>5, <1>6, <1>7, <1>8, <1>9, Moves DEF Quiet, Entering, Dropped

\* However the calls and the waits interleave, no more is spent from any moment
\* on than a full bucket and what came in since.
THEOREM Quota == Spec => []WithinQuota
<1>1. Init => WindowInv
  BY TypeInit DEF Init, WindowInv, Shut
<1>2. Spec => []WindowInv
  BY <1>1, WindowStep, PTL DEF Spec
<1>3. WindowInv => WithinQuota
  <2> SUFFICES ASSUME WindowInv, window.open
               PROVE  window.spent <= Capacity + Rate * window.age
    BY DEF WithinQuota
  <2>1. Refilled \in 0..Capacity /\ Capacity \in Nat /\ Rate \in Nat
    BY RefilledType, GatewayAssumption DEF WindowInv, TypeInv, TypeOK
  <2>2. window.spent \in Nat /\ window.age \in Nat
    BY GatewayAssumption DEF WindowInv, TypeInv, TypeOK
  <2>3. Rate * window.age \in Nat
    BY <2>1, <2>2
  <2>4. window.spent + Refilled <= Capacity + Rate * window.age
    BY DEF WindowInv
  <2> QED BY <2>1, <2>2, <2>3, <2>4
<1> QED BY <1>2, <1>3, PTL

(***************************************************************************)
(* The order of the queue.                                                 *)
(***************************************************************************)

\* Of any two who wait, one is ahead of the other.
Lined ==
  /\ TypeInv
  /\ \A c, d \in Waiting : c # d => c \in ahead[d] \/ d \in ahead[c]

\* Whoever enters the bucket changes nothing for the others, and is served at
\* once only when nobody waits.
LEMMA AdmitMoves ==
  ASSUME TypeInv, NEW c \in Caller, NEW n, ~At(c, "waiting"), Admit(c, n)
  PROVE  \/ /\ Waiting = {} /\ UNCHANGED ahead
            /\ \A d \in Caller : ~At(d, "waiting")'
         \/ /\ ahead' = [ahead EXCEPT ![c] = Waiting]
            /\ \A d \in Caller \ {c} : call'[d] = call[d]
            /\ call'[c].pc = "waiting"
<1>1. call \in [Caller -> Call] /\ call[c] \in Call
  BY DEF TypeInv, TypeOK
<1>2. \A p : [call[c] EXCEPT !.pc = p, !.tries = n, !.left = 0].pc = p
  BY <1>1 DEF Call
<1>3. CASE Waiting = {} /\ Granted(c, n)
  <2>1. call' = [call EXCEPT ![c] = [@ EXCEPT !.pc = "granted", !.tries = n, !.left = 0]]
    BY <1>1, <1>3 DEF Granted
  <2>2. call'[c].pc = "granted" /\ \A d \in Caller \ {c} : call'[d] = call[d]
    BY <1>1, <1>2, <2>1
  <2> QED BY <1>3, <2>2 DEF Waiting, At, Granted
<1>4. CASE Queued(c, n)
  <2>1. call' = [call EXCEPT ![c] = [@ EXCEPT !.pc = "waiting", !.tries = n, !.left = 0]]
    BY <1>1, <1>4 DEF Queued
  <2>2. call'[c].pc = "waiting" /\ \A d \in Caller \ {c} : call'[d] = call[d]
    BY <1>1, <1>2, <2>1
  <2> QED BY <1>4, <2>2 DEF Queued
<1> QED BY <1>3, <1>4 DEF Admit

LEMMA ServeMoves ==
  ASSUME TypeInv, NEW S \in SUBSET Waiting, Serve(S)
  PROVE  /\ ahead' = Without(S)
         /\ \A c \in S : call'[c].pc = "granted"
         /\ \A c \in Caller \ S : call'[c] = call[c]
<1>1. call \in [Caller -> Call] /\ S \subseteq Caller
  BY DEF TypeInv, TypeOK, Waiting
<1>2. \A c \in Caller : [call[c] EXCEPT !.pc = "granted"].pc = "granted"
  BY <1>1 DEF Call
<1> QED BY <1>1, <1>2 DEF Serve

LEMMA AbortMoves ==
  ASSUME TypeInv, NEW a, Abort(a)
  PROVE  \E S : /\ ahead' = Without(S)
                /\ \A c \in Caller : c \in S => call'[c].pc = "broken"
                /\ \A c \in Caller : c \in S => ~At(c, "granted")
                /\ \A c \in Caller : c \notin S => call'[c] = call[c]
<1> DEFINE S == {c \in {a} \X Lane : call[c].pc \in {"waiting", "sleeping", "asked"}}
<1>1. /\ ahead' = Without(S)
      /\ call' = [c \in Caller |-> IF c \in S THEN Settled("broken") ELSE call[c]]
  BY DEF Abort
<1>2. \A c \in S : ~At(c, "granted")
  BY DEF At
<1> HIDE DEF S
<1>3. Settled("broken").pc = "broken"
  BY SettledPc
<1> QED BY <1>1, <1>2, <1>3

LEMMA DropMoves ==
  ASSUME TypeInv, NEW c \in Caller, Dropped(c)
  PROVE  /\ ahead' = Without({c})
         /\ call'[c].pc = "broken"
         /\ \A d \in Caller : d \notin {c} => call'[d] = call[d]
<1>1. call \in [Caller -> Call]
  BY DEF TypeInv, TypeOK
<1>2. Settled("broken").pc = "broken"
  BY SettledPc
<1> QED BY <1>1, <1>2 DEF Dropped

LEMMA LinedStep == Lined /\ [Next]_vars => Lined'
<1> SUFFICES ASSUME Lined, [Next]_vars PROVE Lined'
  OBVIOUS
<1>1. TypeInv /\ TypeInv' /\ ahead \in [Caller -> SUBSET Caller]
  BY TypeStep DEF Lined, TypeInv, TypeOK
<1>2. \A c, d \in Caller : At(c, "waiting") /\ At(d, "waiting") /\ c # d
                             => c \in ahead[d] \/ d \in ahead[c]
  BY DEF Lined, Waiting
<1>3. SUFFICES ASSUME NEW c \in Caller, NEW d \in Caller,
                      At(c, "waiting")', At(d, "waiting")', c # d
               PROVE  c \in ahead'[d] \/ d \in ahead'[c]
  BY <1>1, <1>3 DEF Lined, Waiting, At
<1>4. ASSUME NEW e \in Caller, NEW n \in Nat, ~At(e, "waiting"), Admit(e, n)
      PROVE  c \in ahead'[d] \/ d \in ahead'[c]
  <2>1. CASE /\ ahead' = [ahead EXCEPT ![e] = Waiting]
             /\ \A f \in Caller \ {e} : call'[f] = call[f]
    <3>1. CASE c = e
      BY <1>1, <1>3, <2>1, <3>1 DEF Waiting, At
    <3>2. CASE d = e
      BY <1>1, <1>3, <2>1, <3>2 DEF Waiting, At
    <3>3. CASE c # e /\ d # e
      BY <1>1, <1>2, <1>3, <2>1, <3>3 DEF At
    <3> QED BY <3>1, <3>2, <3>3
  <2>2. CASE \A f \in Caller : ~At(f, "waiting")'
    BY <1>3, <2>2
  <2> QED BY <1>1, <1>4, <2>1, <2>2, AdmitMoves
<1>5. ASSUME NEW S, ahead' = Without(S), c \notin S, d \notin S,
             At(c, "waiting"), At(d, "waiting")
      PROVE  c \in ahead'[d] \/ d \in ahead'[c]
  BY <1>2, <1>3, <1>5 DEF Without
<1>6. ASSUME NEW S \in SUBSET Waiting, Serve(S) PROVE c \in ahead'[d] \/ d \in ahead'[c]
  <2>1. c \notin S /\ d \notin S
    BY <1>1, <1>3, <1>6, ServeMoves DEF At
  <2>2. call'[c] = call[c] /\ call'[d] = call[d] /\ ahead' = Without(S)
    BY <1>1, <1>6, <2>1, ServeMoves
  <2> QED BY <1>3, <1>5, <2>1, <2>2 DEF At
<1>7. ASSUME NEW a, Abort(a) PROVE c \in ahead'[d] \/ d \in ahead'[c]
  <2>1. PICK S : /\ ahead' = Without(S)
                 /\ \A f \in Caller : f \in S => call'[f].pc = "broken"
                 /\ \A f \in Caller : f \notin S => call'[f] = call[f]
    BY <1>1, <1>7, AbortMoves
  <2>2. c \notin S /\ d \notin S
    BY <1>3, <2>1 DEF At
  <2> QED BY <1>3, <1>5, <2>1, <2>2 DEF At
<1>8. CASE Quiet
  BY <1>2, <1>3, <1>8 DEF Quiet
<1>9. ASSUME NEW e \in Caller, Dropped(e) PROVE c \in ahead'[d] \/ d \in ahead'[c]
  <2>1. /\ ahead' = Without({e}) /\ call'[e].pc = "broken"
        /\ \A f \in Caller : f \notin {e} => call'[f] = call[f]
    BY <1>1, <1>9, DropMoves
  <2>2. c \notin {e} /\ d \notin {e}
    BY <1>3, <2>1 DEF At
  <2>3. At(c, "waiting") /\ At(d, "waiting")
    BY <1>3, <2>1, <2>2 DEF At
  <2> QED BY <1>5, <2>1, <2>2, <2>3
<1> QED BY <1>1, <1>4, <1>6, <1>7, <1>8, <1>9, Moves DEF Entering

\* Nobody is served before one who was in the queue when they came.
THEOREM InOrder == Spec => NoOvertaking
<1> DEFINE Fair == \A d \in Waiting : call'[d].pc = "waiting" =>
                     \A c \in Caller : ~At(c, "granted") /\ call'[c].pc = "granted"
                                         => c \in ahead[d]
<1>1. Init => Lined
  BY TypeInit DEF Lined, TypeInv, Init, Waiting, At, Rest
<1>2. Spec => []Lined
  BY <1>1, LinedStep, PTL DEF Spec
<1>3. Lined /\ [Next]_vars => Fair
  <2> SUFFICES ASSUME Lined, [Next]_vars,
                      NEW d \in Waiting, call'[d].pc = "waiting",
                      NEW c \in Caller, ~At(c, "granted"), call'[c].pc = "granted"
               PROVE  c \in ahead[d]
    OBVIOUS
  <2>1. TypeInv /\ d \in Caller /\ At(d, "waiting")
    BY DEF Lined, Waiting
  <2>2. ASSUME NEW e \in Caller, NEW n \in Nat, ~At(e, "waiting"), Admit(e, n)
        PROVE  c \in ahead[d]
    <3>1. Waiting # {}
      OBVIOUS
    <3>2. /\ \A f \in Caller \ {e} : call'[f] = call[f]
          /\ call'[e].pc = "waiting"
      BY <2>1, <2>2, <3>1, AdmitMoves
    <3> QED BY <3>2 DEF At
  <2>3. ASSUME NEW S \in SUBSET Waiting, Serve(S) PROVE c \in ahead[d]
    <3>1. /\ \A f \in S : call'[f].pc = "granted"
          /\ \A f \in Caller \ S : call'[f] = call[f]
      BY <2>1, <2>3, ServeMoves
    <3>2. c \in S /\ d \notin S
      BY <2>1, <3>1 DEF At
    <3>3. ahead[c] \subseteq S
      BY <2>3, <3>2 DEF Serve
    <3>4. c \in Waiting /\ c # d
      BY <3>2
    <3> QED BY <3>2, <3>3, <3>4 DEF Lined
  <2>4. ASSUME NEW a, Abort(a) PROVE c \in ahead[d]
    BY <2>1, <2>4, AbortMoves DEF At
  <2>5. CASE Quiet
    BY <2>5 DEF Quiet, At
  <2>6. ASSUME NEW e \in Caller, Dropped(e) PROVE c \in ahead[d]
    BY <2>1, <2>6, DropMoves DEF At
  <2> QED BY <2>1, <2>2, <2>3, <2>4, <2>5, <2>6, Moves DEF Entering
<1>4. Lined /\ [Next]_vars => [Fair]_vars
  BY <1>3
<1>5. Spec => [][Fair]_vars
  BY <1>2, <1>4, PTL DEF Spec
<1> QED BY <1>5 DEF NoOvertaking

(***************************************************************************)
(* The bucket of the promise.                                              *)
(***************************************************************************)

\* Only who waits has anybody in front, and only others who wait.
Places ==
  /\ TypeInv
  /\ \A c \in Caller : ahead[c] \subseteq Waiting
  /\ \A c \in Caller \ Waiting : ahead[c] = {}

\* Who waits after a step that takes the callers in S out of the queue.
LEMMA QueueLess ==
  ASSUME TypeInv, NEW S,
         \A c \in Caller : c \in S => call'[c].pc # "waiting",
         \A c \in Caller : c \notin S => call'[c] = call[c]
  PROVE  Waiting' = Waiting \ S
BY DEF Waiting, At

\* The queue after a call has entered the bucket.
LEMMA AdmitQueue ==
  ASSUME TypeInv, NEW c \in Caller, NEW n, ~At(c, "waiting"), Admit(c, n)
  PROVE  \/ /\ Granted(c, n) /\ Waiting = {} /\ Waiting' = {}
            /\ Paying' = Paying \cup {c}
         \/ /\ Queued(c, n) /\ (Waiting # {} \/ Refilled < Units(c))
            /\ Waiting' = Waiting \cup {c} /\ Paying' = Paying \ {c}
<1>1. call \in [Caller -> Call] /\ call[c] \in Call
  BY DEF TypeInv, TypeOK
<1>2. \A p : [call[c] EXCEPT !.pc = p, !.tries = n, !.left = 0].pc = p
  BY <1>1 DEF Call
<1>3. CASE Waiting = {} /\ Granted(c, n)
  <2>1. call' = [call EXCEPT ![c] = [@ EXCEPT !.pc = "granted", !.tries = n, !.left = 0]]
    BY <1>1, <1>3 DEF Granted
  <2>2. call'[c].pc = "granted" /\ \A d \in Caller \ {c} : call'[d] = call[d]
    BY <1>1, <1>2, <2>1
  <2> QED BY <1>3, <2>2 DEF Waiting, Paying, At
<1>4. CASE Queued(c, n) /\ (Waiting # {} \/ Refilled < Units(c))
  <2>1. call' = [call EXCEPT ![c] = [@ EXCEPT !.pc = "waiting", !.tries = n, !.left = 0]]
    BY <1>1, <1>4 DEF Queued
  <2>2. call'[c].pc = "waiting" /\ \A d \in Caller \ {c} : call'[d] = call[d]
    BY <1>1, <1>2, <2>1
  <2>3. Waiting' = Waiting \cup {c} /\ Paying' = Paying \ {c}
    BY <2>2 DEF Waiting, Paying, At
  <2> QED BY <1>4, <2>3
<1> QED BY <1>3, <1>4 DEF Admit

\* Taking some out of the queue keeps the places of the others.
LEMMA PlacesLess ==
  ASSUME Places, TypeInv', NEW S, ahead' = Without(S), Waiting' = Waiting \ S
  PROVE  Places'
<1>1. ahead \in [Caller -> SUBSET Caller]
  BY DEF Places, TypeInv, TypeOK
<1>2. \A c \in Caller : ahead'[c] = IF c \in S THEN {} ELSE ahead[c] \ S
  BY DEF Without
<1>3. ASSUME NEW c \in Caller
      PROVE  ahead'[c] \subseteq Waiting' /\ (c \notin Waiting' => ahead'[c] = {})
  BY <1>2 DEF Places
<1> QED BY <1>3 DEF Places

LEMMA PlacesStep == Places /\ [Next]_vars => Places'
<1> SUFFICES ASSUME Places, [Next]_vars PROVE Places'
  OBVIOUS
<1>1. TypeInv /\ TypeInv' /\ ahead \in [Caller -> SUBSET Caller]
  BY TypeStep DEF Places, TypeInv, TypeOK
<1>2. ASSUME NEW c \in Caller, NEW n \in Nat, ~At(c, "waiting"), Admit(c, n)
      PROVE  Places'
  <2>1. CASE Granted(c, n) /\ Waiting = {} /\ Waiting' = {}
    <3>1. UNCHANGED ahead /\ Waiting' = Waiting
      BY <2>1 DEF Granted
    <3> QED BY <1>1, <3>1 DEF Places
  <2>2. CASE Queued(c, n) /\ Waiting' = Waiting \cup {c}
    <3>1. ahead' = [ahead EXCEPT ![c] = Waiting]
      BY <2>2 DEF Queued
    <3>2. \A d \in Caller : ahead'[d] = IF d = c THEN Waiting ELSE ahead[d]
      BY <1>1, <3>1
    <3> QED BY <1>1, <2>2, <3>2 DEF Places
  <2> QED BY <1>1, <1>2, <2>1, <2>2, AdmitQueue
<1>3. ASSUME NEW S \in SUBSET Waiting, Serve(S) PROVE Places'
  <2>1. ahead' = Without(S) /\ Waiting' = Waiting \ S
    BY <1>1, <1>3, ServeMoves, QueueLess
  <2> QED BY <1>1, <2>1, PlacesLess
<1>4. ASSUME NEW a, Abort(a) PROVE Places'
  <2>1. PICK S : /\ ahead' = Without(S)
                 /\ \A c \in Caller : c \in S => call'[c].pc = "broken"
                 /\ \A c \in Caller : c \notin S => call'[c] = call[c]
    BY <1>1, <1>4, AbortMoves
  <2>2. Waiting' = Waiting \ S
    BY <1>1, <2>1, QueueLess
  <2> QED BY <1>1, <2>1, <2>2, PlacesLess
<1>5. CASE Quiet
  <2>1. Waiting' = Waiting /\ UNCHANGED ahead
    BY <1>5 DEF Quiet, Waiting
  <2> QED BY <1>1, <2>1 DEF Places
<1>6. ASSUME NEW c \in Caller, Dropped(c) PROVE Places'
  <2>1. /\ ahead' = Without({c}) /\ call'[c].pc = "broken"
        /\ \A d \in Caller : d \notin {c} => call'[d] = call[d]
    BY <1>1, <1>6, DropMoves
  <2>2. Waiting' = Waiting \ {c}
    BY <1>1, <2>1, QueueLess
  <2> QED BY <1>1, <2>1, <2>2, PlacesLess
<1> QED BY <1>1, <1>2, <1>3, <1>4, <1>5, <1>6, Moves DEF Entering

\* A tick brings what it brings at once, though nobody looks.
LEMMA TickGains == TypeInv /\ Tick => Refilled' = Least(Capacity, Refilled + Rate)
<1> SUFFICES ASSUME TypeInv, Tick PROVE Refilled' = Least(Capacity, Refilled + Rate)
  OBVIOUS
<1>1. /\ Capacity \in Nat /\ Rate \in Nat /\ Full \in Nat /\ Capacity <= Full * Rate
      /\ tokens \in 0..Capacity /\ elapsed \in 0..Full
  BY GatewayAssumption DEF TypeInv, TypeOK
<1>2. tokens' = tokens /\ elapsed' = Least(Full, elapsed + 1)
  BY DEF Tick
<1> DEFINE old == elapsed * Rate
           new == elapsed' * Rate
<1>3. Refilled = Least(Capacity, tokens + old) /\ Refilled' = Least(Capacity, tokens + new)
  BY <1>2 DEF Refilled, Least
<1>4. old \in Nat
  BY <1>1
<1>5. CASE elapsed < Full
  <2>1. elapsed' = elapsed + 1
    BY <1>1, <1>2, <1>5 DEF Least
  <2>2. (elapsed + 1) * Rate = elapsed * Rate + Rate
    BY <1>1
  <2>3. new = old + Rate
    BY <2>1, <2>2
  <2> HIDE DEF old, new
  <2> QED BY <1>1, <1>3, <1>4, <2>3 DEF Least
<1>6. CASE elapsed = Full
  <2>1. elapsed' = Full
    BY <1>1, <1>2, <1>6 DEF Least
  <2>2. Capacity <= old /\ new = old
    BY <1>1, <1>6, <2>1
  <2> HIDE DEF old, new
  <2> QED BY <1>1, <1>3, <1>4, <2>2 DEF Least
<1> QED BY <1>1, <1>5, <1>6

\* Every step of the calls, the timer, the aborts and the clock is a step of the
\* ideal bucket, or none.
LEMMA IdealStep == Places /\ [Next]_vars => [Ideal!Next]_(Ideal!vars)
<1> SUFFICES ASSUME Places, [Next]_vars PROVE [Ideal!Next]_(Ideal!vars)
  OBVIOUS
<1>1. TypeInv /\ TypeInv' /\ ahead \in [Caller -> SUBSET Caller]
  BY TypeStep DEF Places, TypeInv, TypeOK
<1>2. /\ Refilled \in 0..Capacity /\ tokens' \in 0..Capacity
      /\ Capacity \in Nat /\ Rate \in Nat
  BY <1>1, RefilledType, GatewayAssumption DEF TypeInv, TypeOK
<1>3. \A c : Ideal!Price(c) = Units(c)
  BY DEF Ideal!Price, Units
<1>4. \A S : Ideal!Total(S) = Cost(S)
  BY DEF Ideal!Total, Cost, Cardinality, Ideal!Cardinality
<1>5. ASSUME NEW c \in Caller, NEW n \in Nat, Entering(c, n) PROVE Ideal!Next
  <2>0. /\ ~At(c, "waiting") /\ Admit(c, n)
        /\ c \notin Waiting /\ c \notin Paying
    BY <1>5 DEF Entering, Waiting, Paying
  <2>1. CASE /\ Granted(c, n) /\ Waiting = {} /\ Waiting' = {}
             /\ Paying' = Paying \cup {c}
    <3>1. /\ Units(c) <= Refilled /\ tokens' = Refilled - Units(c) /\ elapsed' = 0
          /\ UNCHANGED ahead
      BY <1>2, <2>1, UnitsType DEF Granted
    <3>2. Refilled' = Refilled - Units(c)
      BY <1>2, <3>1, RefilledNow
    <3>3. Ideal!Pass(c)
      BY <1>3, <2>0, <2>1, <3>1, <3>2 DEF Ideal!Pass
    <3> QED BY <3>3 DEF Ideal!Next
  <2>2. CASE /\ Queued(c, n) /\ (Waiting # {} \/ Refilled < Units(c))
             /\ Waiting' = Waiting \cup {c} /\ Paying' = Paying \ {c}
    <3>1. tokens' = Refilled /\ elapsed' = 0 /\ ahead' = [ahead EXCEPT ![c] = Waiting]
      BY <2>2 DEF Queued
    <3>2. Refilled' = Refilled
      BY <1>2, <3>1, RefilledNow
    <3>3. Paying' = Paying
      BY <2>0, <2>2
    <3>4. Ideal!Join(c)
      BY <1>3, <2>0, <2>2, <3>1, <3>2, <3>3 DEF Ideal!Join
    <3> QED BY <3>4 DEF Ideal!Next
  <2> QED BY <1>1, <2>0, <2>1, <2>2, AdmitQueue
<1>6. ASSUME NEW S \in SUBSET Waiting, Serve(S) PROVE Ideal!Next
  <2>1. ahead' = Without(S) /\ Waiting' = Waiting \ S
    BY <1>1, <1>6, ServeMoves, QueueLess
  <2>2. Ideal!Gone(S)
    BY <2>1 DEF Ideal!Gone, Without
  <2>3. tokens' = Refilled - Cost(S) /\ elapsed' = 0
    BY <1>6 DEF Serve
  <2>4. Refilled' = Refilled - Cost(S)
    BY <1>2, <2>3, RefilledNow
  <2>5. S \in SUBSET Caller
    BY DEF Waiting
  <2>6. Paying' = Paying \cup S
    BY <1>1, <1>6, <2>5, ServeMoves DEF Paying, At
  <2>7. Ideal!Serve(S)
    BY <1>3, <1>4, <1>6, <2>2, <2>4, <2>6 DEF Ideal!Serve, Serve
  <2> QED BY <2>7 DEF Ideal!Next
<1>7. ASSUME NEW a, Abort(a) PROVE Ideal!Next
  <2>1. PICK S : /\ ahead' = Without(S)
                 /\ \A c \in Caller : c \in S => call'[c].pc = "broken"
                 /\ \A c \in Caller : c \in S => ~At(c, "granted")
                 /\ \A c \in Caller : c \notin S => call'[c] = call[c]
    BY <1>1, <1>7, AbortMoves
  <2> DEFINE T == S \cap Waiting
  <2>2. Waiting' = Waiting \ T
    BY <1>1, <2>1, QueueLess
  <2>3. \A c \in Caller : (IF c \in S THEN {} ELSE ahead[c] \ S)
                            = (IF c \in T THEN {} ELSE ahead[c] \ T)
    BY DEF Places
  <2>4. ahead' = [c \in Caller |-> IF c \in T THEN {} ELSE ahead[c] \ T]
    BY <2>1, <2>3 DEF Without
  <2>5. Refilled' = Refilled
    BY <1>7 DEF Abort, Refilled
  <2>6. T \in SUBSET Waiting
    OBVIOUS
  <2>7. Paying' = Paying
    BY <2>1 DEF Paying, At
  <2> HIDE DEF T
  <2>8. Ideal!GiveUp(T)
    BY <2>2, <2>4, <2>5, <2>7 DEF Ideal!GiveUp, Ideal!Gone
  <2> QED BY <2>6, <2>8 DEF Ideal!Next
<1>8. CASE Quiet
  <2>1. Waiting' = Waiting /\ UNCHANGED ahead
    BY <1>8 DEF Quiet, Waiting
  <2>2. CASE /\ UNCHANGED <<tokens, elapsed, window>>
             /\ UNCHANGED Paying \/ \E c \in Paying : Paying' = Paying \ {c}
    <3>1. Refilled' = Refilled
      BY <2>2 DEF Refilled
    <3>2. CASE UNCHANGED Paying
      BY <2>1, <3>1, <3>2 DEF Ideal!vars
    <3>3. ASSUME NEW c \in Paying, Paying' = Paying \ {c} PROVE Ideal!Next
      <4>1. Ideal!Use(c)
        BY <2>1, <3>1, <3>3 DEF Ideal!Use
      <4>2. c \in Caller
        BY DEF Paying
      <4> QED BY <4>1, <4>2 DEF Ideal!Next
    <3> QED BY <2>2, <3>2, <3>3
  <2>3. CASE Tick /\ UNCHANGED Paying
    <3>1. Refilled' = IF Refilled + Rate <= Capacity THEN Refilled + Rate ELSE Capacity
      BY <1>1, <1>2, <2>3, TickGains DEF Least
    <3>2. Ideal!Gain
      BY <2>1, <2>3, <3>1 DEF Ideal!Gain
    <3> QED BY <3>2 DEF Ideal!Next
  <2>4. CASE Observe /\ UNCHANGED Paying
    <3>1. Refilled' = Refilled
      BY <2>4 DEF Observe, Refilled
    <3> QED BY <2>1, <2>4, <3>1 DEF Ideal!vars
  <2> QED BY <1>8, <2>2, <2>3, <2>4 DEF Quiet
<1>9. ASSUME NEW c \in Caller, Dropped(c) PROVE Ideal!Next
  <2>1. /\ ahead' = Without({c}) /\ call'[c].pc = "broken"
        /\ \A d \in Caller : d \notin {c} => call'[d] = call[d]
    BY <1>1, <1>9, DropMoves
  <2>2. Waiting' = Waiting \ {c} /\ Paying' = Paying \ {c}
    BY <2>1 DEF Waiting, Paying, At
  <2>3. Refilled' = Refilled
    BY <1>9 DEF Dropped, Refilled
  <2>4. CASE c \in Paying
    <3>1. c \notin Waiting
      BY <2>4 DEF Paying, Waiting, At
    <3>2. \A d \in Caller : (IF d \in {c} THEN {} ELSE ahead[d] \ {c}) = ahead[d]
      BY <3>1 DEF Places
    <3>3. ahead' = ahead
      BY <1>1, <2>1, <3>2 DEF Without
    <3>4. Ideal!Use(c)
      BY <2>2, <2>3, <2>4, <3>1, <3>3 DEF Ideal!Use
    <3> QED BY <3>4 DEF Ideal!Next
  <2>5. CASE c \notin Paying
    <3> DEFINE T == {c} \cap Waiting
    <3>1. \A d \in Caller : (IF d \in {c} THEN {} ELSE ahead[d] \ {c})
                              = (IF d \in T THEN {} ELSE ahead[d] \ T)
      BY DEF Places
    <3>2. ahead' = [d \in Caller |-> IF d \in T THEN {} ELSE ahead[d] \ T]
      BY <2>1, <3>1 DEF Without
    <3>3. Waiting' = Waiting \ T /\ Paying' = Paying
      BY <2>2, <2>5
    <3>4. T \in SUBSET Waiting
      OBVIOUS
    <3> HIDE DEF T
    <3>5. Ideal!GiveUp(T)
      BY <2>3, <3>2, <3>3 DEF Ideal!GiveUp, Ideal!Gone
    <3> QED BY <3>4, <3>5 DEF Ideal!Next
  <2> QED BY <2>4, <2>5
<1>10. Ideal!Next \/ Quiet
  BY <1>1, <1>5, <1>6, <1>7, <1>9, Moves
<1> QED BY <1>8, <1>10

\* Gateway implements Bucket: for any number of callers and any units, the callers
\* cannot tell the lazily refilled bucket and its timer from one that is refilled
\* at every tick and serves its line in order.
THEOREM ImplementsBucket == Spec => KeepsItsOrder
<1>1. Init => Places
  BY TypeInit DEF Places, TypeInv, Init, Waiting, At, Rest
<1>2. Spec => []Places
  BY <1>1, PlacesStep, PTL DEF Spec
<1>3. Init => Ideal!Init
  <2> SUFFICES ASSUME Init PROVE Ideal!Init
    OBVIOUS
  <2>1. Waiting = {} /\ Paying = {}
    BY DEF Init, Waiting, Paying, At, Rest
  <2>2. Capacity \in Nat /\ Rate \in Nat /\ 0 * Rate = 0
    BY GatewayAssumption
  <2>3. Refilled = Capacity
    BY <2>2 DEF Init, Refilled, Least
  <2> QED BY <2>1, <2>3 DEF Init, Ideal!Init
<1> QED BY <1>2, <1>3, IdealStep, PTL DEF Spec, KeepsItsOrder, Ideal!Spec

(***************************************************************************)
(* The calls, one by one.                                                  *)
(***************************************************************************)

\* The attempt of a caller that is about to begin has begun.
Begun(d) == At(d, "idle") /\ d \in Fetching => attempt[d[1]] # "none"

\* What a step can do to one call.
Fate(d) ==
  \/ call'[d] = call[d]
  \/ /\ call[d].pc \in {"idle", "sleeping", "waiting"} /\ Begun(d)
     /\ At(d, "sleeping") => call[d].left = 0
     /\ call'[d].pc \in {"granted", "waiting"} /\ call'[d].closed = call[d].closed
  \/ /\ At(d, "granted") /\ ~Silenced(d)
     /\ call'[d].pc = "asked" /\ call'[d].closed = call[d].closed
  \/ Begun(d) /\ call'[d].pc \in {"broken", "over"} /\ call'[d].closed = 0
  \/ call'[d] = Rest
  \/ /\ At(d, "asked") /\ call'[d].pc = "sleeping"
     /\ \E after \in After \cup {NoAfter} :
          /\ call'[d].left \in Delays(call[d].tries, after)
          /\ call'[d].closed = Most(0, after)
  \/ /\ call'[d].pc = call[d].pc
     /\ call'[d].left = Less(call[d].left) /\ call'[d].closed = Less(call[d].closed)

LEMMA AdmitFate ==
  ASSUME TypeInv, NEW c \in Caller, NEW n, Admit(c, n), Begun(c),
         call[c].pc \in {"idle", "sleeping"}, At(c, "sleeping") => call[c].left = 0
  PROVE  \A d \in Caller : Fate(d)
<1>1. call \in [Caller -> Call] /\ call[c] \in Call
  BY DEF TypeInv, TypeOK
<1>2. \A p : /\ [call[c] EXCEPT !.pc = p, !.tries = n, !.left = 0].pc = p
             /\ [call[c] EXCEPT !.pc = p, !.tries = n, !.left = 0].closed = call[c].closed
  BY <1>1 DEF Call
<1>3. \E p \in {"granted", "waiting"} :
        call' = [call EXCEPT ![c] = [@ EXCEPT !.pc = p, !.tries = n, !.left = 0]]
  <2>1. CASE Granted(c, n)
    <3>1. call' = [call EXCEPT ![c] = [@ EXCEPT !.pc = "granted", !.tries = n, !.left = 0]]
      BY <1>1, <2>1 DEF Granted
    <3> QED BY <3>1
  <2>2. CASE Queued(c, n)
    <3>1. call' = [call EXCEPT ![c] = [@ EXCEPT !.pc = "waiting", !.tries = n, !.left = 0]]
      BY <1>1, <2>2 DEF Queued
    <3> QED BY <3>1
  <2> QED BY <2>1, <2>2 DEF Admit
<1>4. PICK p \in {"granted", "waiting"} :
        call' = [call EXCEPT ![c] = [@ EXCEPT !.pc = p, !.tries = n, !.left = 0]]
  BY <1>3
<1>5. call'[c].pc = p /\ call'[c].closed = call[c].closed
  BY <1>1, <1>2, <1>4
<1>6. \A d \in Caller \ {c} : call'[d] = call[d]
  BY <1>1, <1>4
<1>7. Fate(c)
  BY <1>4, <1>5 DEF Fate
<1> QED BY <1>6, <1>7 DEF Fate

LEMMA OneFate ==
  ASSUME TypeInv, NEW c \in Caller, NEW r, call' = [call EXCEPT ![c] = r],
         call'[c] = r => Fate(c)
  PROVE  \A d \in Caller : Fate(d)
<1>1. call \in [Caller -> Call]
  BY DEF TypeInv, TypeOK
<1>2. call'[c] = r /\ \A d \in Caller \ {c} : call'[d] = call[d]
  BY <1>1
<1> QED BY <1>2 DEF Fate

\* A call that is over, or broken.
LEMMA SettledFate ==
  ASSUME TypeInv, NEW c \in Caller, NEW p \in {"over", "broken"}, Begun(c),
         call' = [call EXCEPT ![c] = Settled(p)]
  PROVE  \A d \in Caller : Fate(d)
<1>1. Settled(p).pc = p /\ Settled(p).closed = 0
  BY SettledPc
<1>2. call'[c] = Settled(p) => Fate(c)
  BY <1>1 DEF Fate
<1> QED BY <1>2, OneFate

LEMMA AbortFate ==
  ASSUME TypeInv, NEW a, Abort(a)
  PROVE  \A d \in Caller : Fate(d)
<1> DEFINE gone == {c \in {a} \X Lane : call[c].pc \in {"waiting", "sleeping", "asked"}}
<1>1. call' = [c \in Caller |-> IF c \in gone THEN Settled("broken") ELSE call[c]]
  BY DEF Abort
<1>2. \A c \in gone : Begun(c)
  BY DEF Begun, At
<1> HIDE DEF gone
<1>3. Settled("broken").pc = "broken" /\ Settled("broken").closed = 0
  BY SettledPc
<1> QED BY <1>1, <1>2, <1>3 DEF Fate

LEMMA ServeFate ==
  ASSUME TypeInv, NEW S \in SUBSET Waiting, Serve(S)
  PROVE  \A d \in Caller : Fate(d)
<1>1. call \in [Caller -> Call] /\ S \subseteq Caller
  BY DEF TypeInv, TypeOK, Waiting
<1>2. call' = [c \in Caller |-> IF c \in S THEN [call[c] EXCEPT !.pc = "granted"] ELSE call[c]]
  BY DEF Serve
<1>3. \A c \in Caller : /\ [call[c] EXCEPT !.pc = "granted"].pc = "granted"
                        /\ [call[c] EXCEPT !.pc = "granted"].closed = call[c].closed
  BY <1>1 DEF Call
<1>4. \A c \in S : call[c].pc = "waiting"
  BY DEF Waiting, At
<1>5. \A c \in S : Fate(c)
  BY <1>1, <1>2, <1>3, <1>4 DEF Fate, Begun, At
<1>6. \A c \in Caller \ S : Fate(c)
  BY <1>2 DEF Fate
<1> QED BY <1>5, <1>6

LEMMA Fates == ASSUME TypeInv, [Next]_vars PROVE \A d \in Caller : Fate(d)
<1>1. call \in [Caller -> Call]
  BY DEF TypeInv, TypeOK
<1>2. CASE UNCHANGED call
  BY <1>2 DEF Fate
<1>3. ASSUME NEW c \in Fetching, TakeItem(c) PROVE \A d \in Caller : Fate(d)
  <2>1. c \in Caller /\ Begun(c) /\ call[c].pc = "idle"
    BY <1>3 DEF TakeItem, Begun, At, Caller, Fetching
  <2>2. CASE Admit(c, 1)
    BY <2>1, <2>2, AdmitFate DEF At
  <2>3. CASE call' = [call EXCEPT ![c] = Settled(IF Silenced(c) THEN "broken" ELSE "over")]
    BY <2>1, <2>3, SettledFate
  <2> QED BY <1>3, <2>2, <2>3 DEF TakeItem
<1>4. ASSUME NEW c \in Sender, SendMessage(c) PROVE \A d \in Caller : Fate(d)
  <2>1. c \in Caller /\ Begun(c) /\ call[c].pc = "idle" /\ Admit(c, 1)
    BY <1>4, GatewayAssumption DEF SendMessage, Begun, At, Caller, Fetching
  <2> QED BY <2>1, AdmitFate DEF At
<1>5. ASSUME NEW c \in Caller, Wake(c) PROVE \A d \in Caller : Fate(d)
  <2>1. Begun(c) /\ call[c].pc = "sleeping" /\ call[c].left = 0 /\ Admit(c, call[c].tries + 1)
    BY <1>5 DEF Wake, Begun, At
  <2> QED BY <2>1, AdmitFate
<1>6. ASSUME NEW c \in Caller, Fire(c) PROVE \A d \in Caller : Fate(d)
  <2>1. Begun(c) /\ At(c, "granted")
    BY <1>6 DEF Fire, Begun, At
  <2>2. CASE Silenced(c)
    BY <1>6, <2>1, <2>2, SettledFate DEF Fire
  <2>3. CASE ~Silenced(c)
    <3>1. call' = [call EXCEPT ![c] = [call[c] EXCEPT !.pc = "asked"]]
      BY <1>1, <1>6, <2>3 DEF Fire
    <3>2. /\ [call[c] EXCEPT !.pc = "asked"].pc = "asked"
          /\ [call[c] EXCEPT !.pc = "asked"].closed = call[c].closed
      BY <1>1 DEF Call
    <3>3. call'[c] = [call[c] EXCEPT !.pc = "asked"] => Fate(c)
      BY <2>1, <2>3, <3>2 DEF Fate
    <3> QED BY <3>1, <3>3, OneFate
  <2> QED BY <2>2, <2>3
<1>7. ASSUME NEW c \in Caller, Succeed(c) PROVE \A d \in Caller : Fate(d)
  <2>1. Begun(c)
    BY <1>7 DEF Succeed, Begun, At
  <2>2. CASE c \in Sender
    BY <1>7, <2>1, <2>2, SettledFate DEF Succeed
  <2>3. CASE c \notin Sender
    <3>1. call' = [call EXCEPT ![c] = Rest]
      BY <1>7, <2>3 DEF Succeed
    <3> QED BY <3>1, OneFate DEF Fate
  <2> QED BY <2>2, <2>3
<1>8. ASSUME NEW c \in Caller, Refuse(c) PROVE \A d \in Caller : Fate(d)
  <2>1. Begun(c) /\ At(c, "asked")
    BY <1>8 DEF Refuse, Begun, At
  <2>2. PICK after \in After \cup {NoAfter} :
          \/ call' = [call EXCEPT ![c] = Settled("broken")]
          \/ \E e \in Delays(call[c].tries, after) :
               call' = [call EXCEPT ![c].pc = "sleeping", ![c].left = e,
                                    ![c].closed = Most(0, after)]
    BY <1>8 DEF Refuse
  <2>3. CASE call' = [call EXCEPT ![c] = Settled("broken")]
    BY <2>1, <2>3, SettledFate
  <2>4. ASSUME NEW e \in Delays(call[c].tries, after),
               call' = [call EXCEPT ![c].pc = "sleeping", ![c].left = e,
                                    ![c].closed = Most(0, after)]
        PROVE  \A d \in Caller : Fate(d)
    <3> DEFINE r == [call[c] EXCEPT !.pc = "sleeping", !.left = e, !.closed = Most(0, after)]
    <3>1. call' = [call EXCEPT ![c] = r]
      BY <1>1, <2>4
    <3>2. r.pc = "sleeping" /\ r.left = e /\ r.closed = Most(0, after)
      BY <1>1 DEF Call
    <3> HIDE DEF r
    <3>3. call'[c] = r => Fate(c)
      <4>1. after \in After \cup {NoAfter}
        BY <2>2
      <4> QED BY <2>1, <2>4, <3>2, <4>1 DEF Fate
    <3> QED BY <3>1, <3>3, OneFate
  <2> QED BY <2>2, <2>3, <2>4
<1>9. ASSUME NEW c \in Caller, Reject(c) PROVE \A d \in Caller : Fate(d)
  <2>1. Begun(c) /\ call' = [call EXCEPT ![c] = Settled("broken")]
    BY <1>9 DEF Reject, Begun, At
  <2> QED BY <2>1, SettledFate
<1>10. CASE Tick
  <2>1. call' = [c \in Caller |-> [call[c] EXCEPT !.left = Less(@), !.closed = Less(@)]]
    BY <1>10 DEF Tick
  <2>2. \A c \in Caller :
          /\ [call[c] EXCEPT !.left = Less(@), !.closed = Less(@)].pc = call[c].pc
          /\ [call[c] EXCEPT !.left = Less(@), !.closed = Less(@)].left = Less(call[c].left)
          /\ [call[c] EXCEPT !.left = Less(@), !.closed = Less(@)].closed = Less(call[c].closed)
    BY <1>1 DEF Call
  <2> QED BY <2>1, <2>2 DEF Fate
<1>11. CASE AbortRegistered
  BY <1>2, <1>11, AbortFate DEF AbortRegistered
<1>12. CASE TimerFires
  BY <1>12, ServeFate DEF TimerFires
<1>13. ASSUME NEW a \in Attempt, Start(a) \/ End(a) PROVE \A d \in Caller : Fate(d)
  BY <1>2, <1>13, AbortFate DEF Start, End
<1>14. CASE Stall \/ Observe \/ UNCHANGED vars
  BY <1>2, <1>14 DEF Stall, Observe, vars
<1>15. CASE StallReported \/ Close
  BY <1>11, <1>15 DEF StallReported, Close
<1>16. ASSUME NEW c \in Sender, AbortSend(c) PROVE \A d \in Caller : Fate(d)
  <2>1. c \in Caller /\ Begun(c) /\ call' = [call EXCEPT ![c] = Settled("broken")]
    BY <1>16 DEF AbortSend, Begun, At, Caller
  <2> QED BY <2>1, SettledFate
<1> QED
  BY <1>16, <1>3, <1>4, <1>5, <1>6, <1>7, <1>8, <1>9, <1>10, <1>12, <1>13, <1>14, <1>15
  DEF Next, Answer

\* Whoever is asleep sleeps for as long as the provider asked, and nobody else is
\* asked to stay away.
Patient ==
  /\ TypeInv
  /\ \A c \in Caller : IF At(c, "sleeping") THEN call[c].closed <= call[c].left
                                            ELSE call[c].closed = 0

LEMMA PatientStep ==
  ASSUME \A x \in After : x <= MaxAfter, Patient, [Next]_vars PROVE Patient'
<1>1. TypeInv /\ TypeInv'
  BY TypeStep DEF Patient
<1>2. \A c \in Caller : call[c] \in Call
  BY <1>1 DEF TypeInv, TypeOK
<1> SUFFICES ASSUME NEW c \in Caller
             PROVE  IF At(c, "sleeping")' THEN call'[c].closed <= call'[c].left
                                          ELSE call'[c].closed = 0
  BY <1>1 DEF Patient, At
<1>3. IF At(c, "sleeping") THEN call[c].closed <= call[c].left ELSE call[c].closed = 0
  BY DEF Patient
<1>4. call[c].closed \in Nat /\ call[c].left \in Nat
  BY <1>2 DEF Call
<1>5. ASSUME NEW after \in After \cup {NoAfter}, At(c, "sleeping")',
             call'[c].left \in Delays(call[c].tries, after), call'[c].closed = Most(0, after)
      PROVE  call'[c].closed <= call'[c].left
  <2>1. MinDelay \in Nat /\ MaxDelay \in Nat /\ MaxAfter \in Nat /\ After \subseteq Nat
    BY GatewayAssumption
  <2>2. CASE after = NoAfter
    BY <1>5, <2>1, <2>2 DEF Delays, Backoff, NoAfter, Most
  <2>3. CASE after # NoAfter
    <3>1. after \in Nat /\ after <= MaxAfter
      BY <1>5, <2>1, <2>3
    <3>2. call'[c].left = Most(MinDelay, Least(after, MaxAfter))
      BY <1>5, <2>3 DEF Delays
    <3> QED BY <1>5, <2>1, <3>1, <3>2 DEF Most, Least
  <2> QED BY <2>2, <2>3
<1>6. Fate(c)
  BY <1>1, Fates
<1>7. CASE call'[c] = call[c]
  BY <1>3, <1>7 DEF At
<1>8. CASE /\ call[c].pc \in {"idle", "sleeping", "waiting"}
           /\ At(c, "sleeping") => call[c].left = 0
           /\ call'[c].pc \in {"granted", "waiting"} /\ call'[c].closed = call[c].closed
  BY <1>3, <1>4, <1>8 DEF At
<1>9. CASE At(c, "granted") /\ call'[c].pc = "asked" /\ call'[c].closed = call[c].closed
  BY <1>3, <1>9 DEF At
<1>10. CASE call'[c].pc \in {"broken", "over"} /\ call'[c].closed = 0
  BY <1>10 DEF At
<1>11. CASE call'[c] = Rest
  BY <1>11 DEF At, Rest
<1>12. CASE /\ call'[c].pc = "sleeping"
            /\ \E after \in After \cup {NoAfter} :
                 /\ call'[c].left \in Delays(call[c].tries, after)
                 /\ call'[c].closed = Most(0, after)
  BY <1>5, <1>12 DEF At
<1>13. CASE /\ call'[c].pc = call[c].pc
            /\ call'[c].left = Less(call[c].left) /\ call'[c].closed = Less(call[c].closed)
  BY <1>3, <1>4, <1>13 DEF At, Less, Most
<1> QED BY <1>6, <1>7, <1>8, <1>9, <1>10, <1>11, <1>12, <1>13 DEF Fate

\* While the provider asks for no longer than the ceiling on Retry-After, no
\* request leaves before the provider asked for it.
THEOREM Honoured ==
  ASSUME \A x \in After : x <= MaxAfter PROVE Spec => []HonoursRetryAfter
<1>1. Init => Patient
  BY TypeInit DEF Init, Patient, At, Rest
<1>2. Patient /\ [Next]_vars => Patient'
  BY PatientStep
<1>3. Spec => []Patient
  BY <1>1, <1>2, PTL DEF Spec
<1>4. Patient => HonoursRetryAfter
  BY DEF Patient, HonoursRetryAfter, At
<1> QED BY <1>3, <1>4, PTL

(***************************************************************************)
(* The attempts.                                                           *)
(***************************************************************************)

\* Attempts begin in their order; what has ended is aborted; and of a job that
\* never stalled, the one that is going is the one registered, and is aborted
\* once the worker shuts down.
Attempts ==
  /\ \A a, b \in Attempt : b < a /\ attempt[a] # "none" => attempt[b] # "none"
  /\ \A a \in Attempt : attempt[a] = "ended" => a \in aborted
  /\ stalls = 0 =>
       \A a \in Attempt : attempt[a] = "going" =>
         inFlight = a /\ job = "active" /\ Latest(a) /\ (closing => a \in aborted)

\* Only what has begun calls, and only what is not aborted has a request out.
Calls ==
  \A c \in Fetching : /\ ~At(c, "idle") => attempt[c[1]] # "none"
                      /\ At(c, "asked") => c[1] \notin aborted

JobInv == TypeInv /\ Attempts /\ Calls

\* What a step does to the attempts.
LEMMA JobMoves ==
  ASSUME [Next]_vars
  PROVE  \/ UNCHANGED jobVars
         \/ \E a \in Attempt : Start(a) \/ End(a)
         \/ Stall \/ StallReported \/ Close
<1>1. CASE \E c \in Fetching : TakeItem(c)
  BY <1>1 DEF TakeItem
<1>2. CASE \E c \in Sender : SendMessage(c) \/ AbortSend(c)
  BY <1>2 DEF SendMessage, AbortSend
<1>3. CASE \E c \in Caller : Fire(c) \/ Answer(c) \/ Wake(c)
  BY <1>3 DEF Fire, Answer, Succeed, Refuse, Reject, Wake
<1>4. CASE TimerFires \/ Tick \/ Observe
  BY <1>4 DEF TimerFires, Tick, Observe
<1>5. CASE UNCHANGED vars
  BY <1>5 DEF vars
<1> QED BY <1>1, <1>2, <1>3, <1>4, <1>5 DEF Next

LEMMA AttemptsStep == JobInv /\ [Next]_vars => Attempts'
<1> SUFFICES ASSUME JobInv, [Next]_vars PROVE Attempts'
  OBVIOUS
<1>1. /\ Attempts /\ attempt \in [Attempt -> {"none", "going", "ended"}]
      /\ inFlight \in Attempt \cup {0} /\ stalls \in Nat
  BY GatewayAssumption DEF JobInv, TypeInv, TypeOK
<1>2. CASE UNCHANGED jobVars
  BY <1>1, <1>2 DEF Attempts, jobVars, Latest
<1>3. ASSUME NEW a \in Attempt, Start(a) PROVE Attempts'
  <2>1. /\ job = "waiting" /\ ~closing /\ attempt[a] = "none"
        /\ \A b \in Attempt : b < a => attempt[b] # "none"
        /\ job' = "active" /\ attempt' = [attempt EXCEPT ![a] = "going"] /\ inFlight' = a
        /\ UNCHANGED <<aborted, closing, stalls>>
    BY <1>3 DEF Start
  <2>2. attempt'[a] = "going" /\ \A b \in Attempt \ {a} : attempt'[b] = attempt[b]
    BY <1>1, <2>1
  <2>3. \A b, c \in Attempt : b < c /\ attempt'[c] # "none" => attempt'[b] # "none"
    BY <1>1, <2>1, <2>2 DEF Attempts
  <2>4. \A b \in Attempt : attempt'[b] = "ended" => b \in aborted'
    BY <1>1, <2>1, <2>2 DEF Attempts
  <2>5. ASSUME stalls' = 0, NEW b \in Attempt, attempt'[b] = "going"
        PROVE  inFlight' = b /\ job' = "active" /\ Latest(b)' /\ (closing' => b \in aborted')
    <3>1. b = a
      BY <1>1, <2>1, <2>2, <2>5 DEF Attempts
    <3>2. \A c \in Attempt : c > a => attempt'[c] = "none"
      <4>1. ASSUME NEW c \in Attempt, c > a PROVE attempt'[c] = "none"
        <5>1. a < c /\ c # a
          BY <4>1, GatewayAssumption
        <5> QED BY <1>1, <2>1, <2>2, <5>1 DEF Attempts
      <4> QED BY <4>1
    <3> QED BY <2>1, <2>2, <3>1, <3>2 DEF Latest
  <2> QED BY <2>3, <2>4, <2>5 DEF Attempts
<1>4. ASSUME NEW a \in Attempt, End(a) PROVE Attempts'
  <2>1. /\ attempt[a] = "going" /\ attempt' = [attempt EXCEPT ![a] = "ended"]
        /\ aborted' = aborted \cup {a} /\ UNCHANGED <<closing, stalls>>
    BY <1>4 DEF End, Abort
  <2>2. attempt'[a] = "ended" /\ \A b \in Attempt \ {a} : attempt'[b] = attempt[b]
    BY <1>1, <2>1
  <2>3. stalls' = 0 => \A b \in Attempt : attempt'[b] # "going"
    BY <1>1, <2>1, <2>2 DEF Attempts
  <2>4. \A b, c \in Attempt : b < c /\ attempt'[c] # "none" => attempt'[b] # "none"
    BY <1>1, <2>1, <2>2 DEF Attempts
  <2>5. \A b \in Attempt : attempt'[b] = "ended" => b \in aborted'
    BY <1>1, <2>1, <2>2 DEF Attempts
  <2> QED BY <2>3, <2>4, <2>5 DEF Attempts
<1>5. CASE Stall
  BY <1>1, <1>5 DEF Stall, Attempts
<1>6. ASSUME AbortRegistered
      PROVE  aborted \subseteq aborted' /\ (inFlight # 0 => inFlight \in aborted')
  BY <1>6 DEF AbortRegistered, Abort
<1>7. CASE StallReported
  <2>1. /\ UNCHANGED <<attempt, inFlight, job, closing, stalls>>
        /\ aborted \subseteq aborted'
    BY <1>6, <1>7 DEF StallReported
  <2> QED BY <1>1, <2>1 DEF Attempts, Latest
<1>8. CASE Close
  <2>1. /\ UNCHANGED <<attempt, inFlight, job, stalls>>
        /\ aborted \subseteq aborted' /\ (inFlight # 0 => inFlight \in aborted')
    BY <1>6, <1>8 DEF Close
  <2>2. 0 \notin Attempt
    BY GatewayAssumption
  <2> QED BY <1>1, <2>1, <2>2 DEF Attempts, Latest
<1> QED BY <1>2, <1>3, <1>4, <1>5, <1>7, <1>8, JobMoves

LEMMA CallsStep == JobInv /\ [Next]_vars => Calls'
<1> SUFFICES ASSUME JobInv, [Next]_vars PROVE Calls'
  OBVIOUS
<1>1. /\ Calls /\ TypeInv /\ call \in [Caller -> Call]
      /\ attempt \in [Attempt -> {"none", "going", "ended"}]
  BY DEF JobInv, TypeInv, TypeOK
<1> SUFFICES ASSUME NEW c \in Fetching
             PROVE  /\ call'[c].pc # "idle" => attempt'[c[1]] # "none"
                    /\ call'[c].pc = "asked" => c[1] \notin aborted'
  BY DEF Calls, At
<1>2. c \in Caller /\ c[1] \in Attempt
  BY DEF Fetching, Caller
<1>3. attempt[c[1]] # "none" => attempt'[c[1]] # "none"
  <2>1. ASSUME NEW a \in Attempt, Start(a) PROVE attempt' = [attempt EXCEPT ![a] = "going"]
    BY <2>1 DEF Start
  <2>2. ASSUME NEW a \in Attempt, End(a) PROVE attempt' = [attempt EXCEPT ![a] = "ended"]
    BY <2>2 DEF End
  <2>3. CASE UNCHANGED attempt
    BY <2>3
  <2>4. \/ UNCHANGED attempt
        \/ \E a \in Attempt : Start(a) \/ End(a)
    BY JobMoves DEF jobVars, Stall, StallReported, Close
  <2> QED BY <1>1, <1>2, <2>1, <2>2, <2>3, <2>4
<1>4. call'[c].pc = "asked" /\ c[1] \notin aborted => c[1] \notin aborted'
  <2>1. ASSUME NEW a, Abort(a), call'[c].pc = "asked", c[1] \notin aborted
        PROVE  c[1] \notin aborted'
    <3>1. c[1] # a
      <4> SUFFICES ASSUME c[1] = a PROVE FALSE
        OBVIOUS
      <4>1. c \in {a} \X Lane
        BY DEF Fetching
      <4>2. call'[c] = IF call[c].pc \in {"waiting", "sleeping", "asked"}
                         THEN Settled("broken") ELSE call[c]
        BY <1>2, <2>1, <4>1 DEF Abort
      <4> QED BY <2>1, <4>2, SettledPc
    <3> QED BY <2>1, <3>1 DEF Abort
  <2>2. UNCHANGED aborted \/ \E a : Abort(a)
    BY JobMoves DEF jobVars, Start, End, Stall, StallReported, Close, AbortRegistered
  <2> QED BY <2>1, <2>2
<1>5. /\ call[c].pc # "idle" => attempt[c[1]] # "none"
      /\ call[c].pc = "asked" => c[1] \notin aborted
  BY <1>1 DEF Calls, At
<1>6. /\ call'[c].pc # "idle" => attempt[c[1]] # "none"
      /\ call'[c].pc = "asked" => c[1] \notin aborted
  <2>1. Fate(c)
    BY <1>1, <1>2, Fates
  <2>2. CASE call'[c].pc = call[c].pc
    BY <1>5, <2>2
  <2>3. CASE Begun(c) /\ call'[c].pc \in {"granted", "waiting", "broken", "over"}
    BY <1>5, <2>3 DEF Begun, At
  <2>4. CASE At(c, "granted") /\ ~Silenced(c)
    BY <1>5, <2>4 DEF At, Silenced
  <2>5. CASE call'[c] = Rest
    BY <2>5 DEF Rest
  <2>6. CASE At(c, "asked") /\ call'[c].pc = "sleeping"
    BY <1>5, <2>6 DEF At
  <2> QED BY <2>1, <2>2, <2>3, <2>4, <2>5, <2>6 DEF Fate
<1> QED BY <1>3, <1>4, <1>6

\* Of a job that never stalled, only the latest attempt has a request at Gmail,
\* and none has while the worker shuts down.
THEOREM OneTalks == Spec => []OneAttemptTalks
<1>1. Init => JobInv
  <2> SUFFICES ASSUME Init PROVE JobInv
    OBVIOUS
  <2>1. \A c \in Fetching : At(c, "idle") /\ ~At(c, "asked")
    BY DEF Init, At, Rest, Fetching, Caller
  <2>2. \A a \in Attempt : attempt[a] = "none"
    BY DEF Init
  <2> QED BY <2>1, <2>2, TypeInit DEF JobInv, Attempts, Calls
<1>2. JobInv /\ [Next]_vars => JobInv'
  BY AttemptsStep, CallsStep, TypeStep DEF JobInv
<1>3. Spec => []JobInv
  BY <1>1, <1>2, PTL DEF Spec
<1>4. JobInv => OneAttemptTalks
  <2> SUFFICES ASSUME JobInv, stalls = 0, NEW c \in Fetching, At(c, "asked")
               PROVE  Latest(c[1]) /\ ~closing
    BY DEF OneAttemptTalks, OnlyLatestTalks
  <2>1. c[1] \in Attempt /\ attempt[c[1]] \in {"none", "going", "ended"}
    BY DEF Fetching, JobInv, TypeInv, TypeOK
  <2>2. attempt[c[1]] # "none" /\ c[1] \notin aborted
    BY DEF JobInv, Calls, At
  <2>3. attempt[c[1]] = "going"
    BY <2>1, <2>2 DEF JobInv, Attempts
  <2> QED BY <2>1, <2>2, <2>3 DEF JobInv, Attempts
<1> QED BY <1>3, <1>4, PTL
=============================================================================
