------------------------------- MODULE Bucket -------------------------------
(***************************************************************************)
(* What the rate limiter promises its callers, with no timer and no lazy   *)
(* refill: a bucket that gains Rate units at every tick and never holds    *)
(* more than Capacity, and a line in front of it.  Whoever finds nobody in *)
(* line, and enough in the bucket, pays and passes; everybody else joins   *)
(* the line, is served in the order of joining, or gives up.  Gateway is   *)
(* shown to implement this module.                                         *)
(***************************************************************************)
EXTENDS Naturals, FiniteSets

CONSTANTS
  Caller,
  Dear,             \* the callers that pay the higher price
  HighPrice, LowPrice,
  Capacity, Rate

VARIABLES
  credit,  \* the units in the bucket now
  line,    \* who waits
  ahead,   \* who is in front of each of them
  paid     \* who has paid, and has not used it yet

vars == <<credit, line, ahead, paid>>

Price(c) == IF c \in Dear THEN HighPrice ELSE LowPrice
Total(S) == HighPrice * Cardinality(S \cap Dear) + LowPrice * Cardinality(S \ Dear)

Init ==
  /\ credit = Capacity
  /\ line = {} /\ paid = {}
  /\ ahead = [c \in Caller |-> {}]

\* The units of a tick; what does not fit is lost.
Gain ==
  /\ credit' = IF credit + Rate <= Capacity THEN credit + Rate ELSE Capacity
  /\ UNCHANGED <<line, ahead, paid>>

Pass(c) ==
  /\ c \notin paid
  /\ line = {} /\ Price(c) <= credit
  /\ credit' = credit - Price(c)
  /\ paid' = paid \cup {c}
  /\ UNCHANGED <<line, ahead>>

Join(c) ==
  /\ c \notin line \cup paid
  /\ line # {} \/ credit < Price(c)
  /\ line' = line \cup {c}
  /\ ahead' = [ahead EXCEPT ![c] = line]
  /\ UNCHANGED <<credit, paid>>

\* S is out of the line, and nobody's place among the others changes.
Gone(S) ==
  /\ line' = line \ S
  /\ ahead' = [c \in Caller |-> IF c \in S THEN {} ELSE ahead[c] \ S]

\* The head of the line is served, as far as the bucket goes.
Serve(S) ==
  /\ \A c \in S : ahead[c] \subseteq S
  /\ Total(S) <= credit
  /\ \A c \in line \ S : ahead[c] \subseteq S => credit - Total(S) < Price(c)
  /\ credit' = credit - Total(S)
  /\ paid' = paid \cup S
  /\ Gone(S)

GiveUp(S) ==
  /\ Gone(S)
  /\ UNCHANGED <<credit, paid>>

\* What was paid for is used, or wasted; it is not paid back.
Use(c) ==
  /\ c \in paid
  /\ paid' = paid \ {c}
  /\ UNCHANGED <<credit, line, ahead>>

Next ==
  \/ Gain
  \/ \E c \in Caller : Pass(c) \/ Join(c) \/ Use(c)
  \/ \E S \in SUBSET line : Serve(S) \/ GiveUp(S)

Spec == Init /\ [][Next]_vars
=============================================================================
