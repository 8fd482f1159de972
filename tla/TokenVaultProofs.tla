-------------------------- MODULE TokenVaultProofs --------------------------
(***************************************************************************)
(* Proofs about TokenVault, for any number of processes, states, tokens,   *)
(* keys and faults: the types, the mutual exclusion of refreshes, the      *)
(* one-use state, the audit trail, and that no token is spent twice. Then  *)
(* of Access: whose rows an operation reaches, who the API takes a token's *)
(* bearer for, and the rations of the demo's live calls.                   *)
(***************************************************************************)
EXTENDS TokenVault, Access, Integers, Sequences, FiniteSetTheorems, TLAPS

USE DEF NoToken

\* The steps of a call keep its type.
LEMMA GotoType ==
  ASSUME NEW p \in Proc, NEW c \in Call, call \in [Proc -> Call], Goto(p, c)
  PROVE  /\ call' \in [Proc -> Call]
         /\ call'[p] = c
         /\ \A q \in Proc : q # p => call'[q] = call[q]
BY DEF Goto

LEMMA MoveType ==
  ASSUME NEW p \in Proc, NEW s \in Step, call \in [Proc -> Call], Move(p, s)
  PROVE  /\ call' \in [Proc -> Call]
         /\ call'[p].pc = s /\ call'[p].id = call[p].id
         /\ call'[p].token = call[p].token /\ call'[p].flag = call[p].flag
         /\ \A q \in Proc : q # p => call'[q] = call[q]
<1>1. [call[p] EXCEPT !.pc = s] \in Call
  BY DEF Call
<1>2. [call[p] EXCEPT !.pc = s].token = call[p].token
  BY DEF Call
<1>3. QED
  BY <1>1, <1>2, GotoType DEF Move, Call

\* An idle call.
LEMMA RestType == Rest \in Call /\ Rest.pc = "idle" /\ Rest.token = 0
BY DEF Rest, Call, Step

\* What a call is made of.
LEMMA CallType ==
  ASSUME TypeOK, NEW p \in Proc
  PROVE  call[p] \in Call
BY DEF TypeOK

\* The types hold in every state.
LEMMA TypeStep ==
  ASSUME VaultAssumption, TypeOK, Named, Accounted, [Next]_vars
  PROVE  TypeOK'
<1> USE VaultAssumption
<1>0. CASE UNCHANGED vars
  BY <1>0 DEF TypeOK, vars, rowVars, flowVars, envVars, lockVars
<1>1. CASE Withdraw \/ Age \/ RotateKey \/ \E i \in Id : ExpireLock(i)
  <2>1. Withdraw => TypeOK'
    BY DEF TypeOK, Withdraw, rowVars, flowVars, lockVars
  <2>2. Age => TypeOK'
    BY DEF TypeOK, Age, flowVars, envVars, lockVars
  <2>3. RotateKey => key' \in 1..MaxKey
    BY DEF TypeOK, RotateKey, VaultAssumption
  <2>4. RotateKey => TypeOK'
    BY <2>3 DEF TypeOK, RotateKey, rowVars, flowVars, lockVars
  <2>5. ASSUME NEW i \in Id, ExpireLock(i)
        PROVE  TypeOK'
    BY <2>5 DEF TypeOK, ExpireLock, rowVars, flowVars, envVars
  <2>6. QED
    BY <1>1, <2>1, <2>2, <2>4, <2>5
<1>2. CASE Falter
  <2>1. row' \in Row
    BY <1>2 DEF TypeOK, Falter, Row, NoRow, Status, Id
  <2>2. QED
    BY <1>2, <2>1 DEF TypeOK, Falter, flowVars, envVars, lockVars
<1>3. ASSUME NEW p \in Proc, Start(p)
      PROVE  TypeOK'
  <2>1. row \in Row
    BY <1>3 DEF TypeOK, Start, NoRow
  <2>2. [Rest EXCEPT !.pc = "wait", !.id = row.id, !.token = row.refresh] \in Call
    BY <2>1, RestType DEF Call, Row, Step, Rest
  <2>3. QED
    BY <1>3, <2>2, GotoType DEF TypeOK, Start, rowVars, flowVars, envVars, lockVars
<1>4. ASSUME NEW p \in Proc, Acquire(p)
      PROVE  TypeOK'
  BY <1>4, MoveType DEF TypeOK, Acquire, Step, Inside, rowVars, flowVars, envVars
<1>5. ASSUME NEW p \in Proc, TimeOut(p)
      PROVE  TypeOK'
  BY <1>5, GotoType, RestType DEF TypeOK, TimeOut, rowVars, flowVars, envVars, lockVars
<1>6. ASSUME NEW p \in Proc, Reread(p)
      PROVE  TypeOK'
  <2>1. row.refresh \in Token \cup {NoToken}
    BY DEF TypeOK, Row, NoRow
  <2>2. [call[p] EXCEPT !.pc = "provider", !.token = row.refresh,
           !.flag = (row.status = "ERROR")] \in Call
    BY <2>1, CallType DEF Call, Step, Inside
  <2>3. call' \in [Proc -> Call]
    BY <1>6, <2>2, GotoType, MoveType DEF TypeOK, Reread, Step, Inside
  <2>4. QED
    BY <1>6, <2>3 DEF TypeOK, Reread, rowVars, flowVars, envVars, lockVars
<1>7. ASSUME NEW p \in Proc, Refresh(p)
      PROVE  TypeOK'
  <2>1. ASSUME NEW u \in Token
        PROVE  [call[p] EXCEPT !.pc = "write", !.token = u] \in Call
    BY CallType DEF Call, Step, Inside
  <2>2. call' \in [Proc -> Call]
    BY <1>7, <2>1, GotoType, MoveType DEF TypeOK, Refresh, Step, Inside
  <2>3. live' \subseteq Token /\ spent' \subseteq Token
    BY <1>7 DEF TypeOK, Refresh, Rotate
  <2>4. QED
    BY <1>7, <2>2, <2>3 DEF TypeOK, Refresh, rowVars, flowVars, lockVars
<1>8. ASSUME NEW p \in Proc, Write(p)
      PROVE  TypeOK'
  <2>1. call[p].id # 0 /\ call[p].token \in Token \cup {NoToken}
    BY <1>8 DEF TypeOK, Call, Named, ById, Inside, Write, At
  <2>2. row' \in Row \cup {NoRow}
    <3>1. CASE row.id = call[p].id
      <4>1. row \in Row
        BY <2>1, <3>1 DEF TypeOK, NoRow
      <4>2. [row EXCEPT !.key = key,
                !.refresh = IF rotating THEN call[p].token ELSE @,
                !.status = IF call[p].flag THEN "OK" ELSE @] \in Row
        BY <2>1, <4>1 DEF TypeOK, Row, Status
      <4>3. QED
        BY <1>8, <3>1, <4>2 DEF Write
    <3>2. CASE row.id # call[p].id
      BY <1>8, <3>2 DEF Write, TypeOK
    <3>3. QED
      BY <3>1, <3>2
  <2>3. call' \in [Proc -> Call]
    BY <1>8, MoveType DEF TypeOK, Write, Step, Inside
  <2>4. QED
    BY <1>8, <2>2, <2>3 DEF TypeOK, Write, flowVars, envVars, lockVars
<1>9. ASSUME NEW p \in Proc, MarkRevoked(p)
      PROVE  TypeOK'
  <2>0. call[p].id # 0
    BY <1>9 DEF Named, ById, Inside, MarkRevoked, At
  <2>1. row' \in Row \cup {NoRow}
    <3>1. CASE row.id = call[p].id
      <4>1. row \in Row
        BY <2>0, <3>1 DEF TypeOK, NoRow
      <4>2. [row EXCEPT !.status = "REVOKED", !.refresh = NoToken] \in Row
        BY <4>1 DEF Row, Status
      <4>3. QED
        BY <1>9, <3>1, <4>2 DEF MarkRevoked
    <3>2. CASE row.id # call[p].id
      BY <1>9, <3>2 DEF MarkRevoked, TypeOK
    <3>3. QED
      BY <3>1, <3>2
  <2>2. call' \in [Proc -> Call]
    BY <1>9, MoveType DEF TypeOK, MarkRevoked, Step, Inside
  <2>3. QED
    BY <1>9, <2>1, <2>2 DEF TypeOK, MarkRevoked, flowVars, envVars, lockVars
<1>10. ASSUME NEW p \in Proc, Release(p) \/ Lapse(p)
       PROVE  TypeOK'
  <2>1. Release(p) => call' \in [Proc -> Call]
    BY GotoType, RestType DEF TypeOK, Release
  <2>2. Release(p) => TypeOK'
    BY <2>1 DEF TypeOK, Release, Leave, rowVars, flowVars, envVars
  <2>3. Lapse(p) => lock' \in [Id -> Proc \cup {"free", "dead"}] /\ lapsed' \subseteq Proc
    BY DEF TypeOK, Lapse
  <2>5. Lapse(p) => TypeOK'
    BY <2>3 DEF TypeOK, Lapse, Fault, rowVars, flowVars, VaultAssumption
  <2>4. QED
    BY <1>10, <2>2, <2>5
<1>11. ASSUME NEW p \in Proc, NEW s \in State, Consume(p, s)
       PROVE  TypeOK'
  <2>1. [Rest EXCEPT !.pc = "exchange"] \in Call
    BY DEF Rest, Call, Step
  <2>2. QED
    BY <1>11, <2>1, GotoType DEF TypeOK, Consume, rowVars, envVars, lockVars
<1>12. ASSUME NEW p \in Proc, Exchange(p)
       PROVE  TypeOK'
  <2>1. ASSUME NEW u \in Token
        PROVE  [Rest EXCEPT !.pc = "lookup", !.token = u] \in Call
    BY DEF Rest, Call, Step
  <2>2. call' \in [Proc -> Call]
    BY <1>12, <2>1, GotoType, RestType DEF TypeOK, Exchange
  <2>3. live' \subseteq Token /\ spent' \subseteq Token
    BY <1>12 DEF TypeOK, Exchange
  <2>4. QED
    BY <1>12, <2>2, <2>3 DEF TypeOK, Exchange, rowVars, flowVars, lockVars
<1>13. ASSUME NEW p \in Proc, Lookup(p)
       PROVE  TypeOK'
  <2>1. row.id \in Id \cup {0}
    BY DEF TypeOK, Row, NoRow
  <2>2. [call[p] EXCEPT !.id = row.id, !.pc = IF row.id = 0 THEN "create" ELSE "update"]
          \in Call
    BY <2>1, CallType DEF Call, Step
  <2>3. QED
    BY <1>13, <2>2, GotoType DEF TypeOK, Lookup, rowVars, flowVars, envVars, lockVars
<1>14. ASSUME NEW p \in Proc, Update(p) \/ Upsert(p)
       PROVE  TypeOK'
  <2>1. call[p].token \in Token \cup {NoToken} /\ (Update(p) => call[p].id # 0)
    BY DEF TypeOK, Call, Named, ById, Inside, Update, At
  <2>2. row' \in Row \cup {NoRow}
    BY <1>14, <2>1 DEF TypeOK, Update, Upsert, Connected, Row, NoRow, Status
  <2>3. call' \in [Proc -> Call]
    BY <1>14, GotoType, RestType DEF TypeOK, Update, Upsert
  <2>4. QED
    BY <1>14, <2>2, <2>3 DEF TypeOK, Update, Upsert, flowVars, envVars, lockVars
<1>15. ASSUME NEW p \in Proc, Create(p)
       PROVE  TypeOK'
  <2>1. call[p].token \in Token \cup {NoToken}
    BY DEF TypeOK, Call
  <2>2. row' \in Row \cup {NoRow}
    BY <1>15, <2>1 DEF TypeOK, Create, Connected, Row, Status, rowVars
  <2>3. trail' \in [Id -> [connected: 0..1, disconnected: 0..1]]
    BY <1>15 DEF TypeOK, Create, NewId, rowVars
  <2>4. call' \in [Proc -> Call]
    BY <1>15, GotoType, MoveType, RestType DEF TypeOK, Create, Step
  <2>5. QED
    BY <1>15, <2>2, <2>3, <2>4 DEF TypeOK, Create, rowVars, flowVars, envVars, lockVars
<1>16. ASSUME NEW p \in Proc, Disconnect(p) \/ StopWatch(p)
       PROVE  TypeOK'
  <2>0. row.id \in Id \cup {0}
    BY DEF TypeOK, Row, NoRow
  <2>1. [Rest EXCEPT !.pc = "stop", !.id = row.id] \in Call
    BY <2>0 DEF Rest, Call, Step
  <2>2. call' \in [Proc -> Call]
    BY <1>16, <2>1, GotoType, MoveType, RestType DEF TypeOK, Disconnect, StopWatch, Step
  <2>3. QED
    BY <1>16, <2>2 DEF TypeOK, Disconnect, StopWatch, rowVars, flowVars, envVars, lockVars
<1>17. ASSUME NEW p \in Proc, ReadGrant(p)
       PROVE  TypeOK'
  <2>1. row.refresh \in Token \cup {NoToken}
    BY DEF TypeOK, Row, NoRow
  <2>2. [call[p] EXCEPT !.pc = "delete", !.flag = TRUE] \in Call
    BY CallType DEF Call, Step
  <2>3. [call[p] EXCEPT !.token = row.refresh,
           !.pc = IF row.key = key /\ ~rotating THEN "kill" ELSE "delete"] \in Call
    BY <2>1, CallType DEF Call, Step
  <2>4. call' \in [Proc -> Call]
    BY <1>17, <2>2, <2>3, GotoType, RestType DEF TypeOK, ReadGrant
  <2>5. QED
    BY <1>17, <2>4 DEF TypeOK, ReadGrant, rowVars, flowVars, envVars, lockVars
<1>18. ASSUME NEW p \in Proc, Kill(p)
       PROVE  TypeOK'
  <2>1. [call[p] EXCEPT !.pc = "delete", !.flag = TRUE] \in Call
    BY CallType DEF Call, Step
  <2>2. call' \in [Proc -> Call]
    BY <1>18, <2>1, GotoType, MoveType DEF TypeOK, Kill, Step
  <2>3. QED
    BY <1>18, <2>2 DEF TypeOK, Kill, rowVars, flowVars, lockVars
<1>19. ASSUME NEW p \in Proc, Delete(p)
       PROVE  TypeOK'
  <2>0. call[p].id # 0
    BY <1>19 DEF Named, ById, Inside, Delete, At
  <2>1. trail' \in [Id -> [connected: 0..1, disconnected: 0..1]]
    BY <1>19, <2>0 DEF TypeOK, Delete, Accounted, Row, NoRow, rowVars
  <2>2. row' \in Row \cup {NoRow} /\ call' \in [Proc -> Call]
    BY <1>19, GotoType, RestType DEF TypeOK, Delete, rowVars
  <2>3. QED
    BY <1>19, <2>1, <2>2 DEF TypeOK, Delete, rowVars, flowVars, envVars, lockVars
<1>20. ASSUME NEW p \in Proc, Throw(p)
       PROVE  TypeOK'
  <2>1. call' \in [Proc -> Call]
    BY <1>20, GotoType, MoveType, RestType DEF TypeOK, Throw, Step, Inside
  <2>2. live' \subseteq Token /\ spent' \subseteq Token
    BY <1>20 DEF TypeOK, Throw, Rotate
  <2>3. lock' \in [Id -> Proc \cup {"free", "dead"}] /\ lapsed' \subseteq Proc
    BY <1>20 DEF TypeOK, Throw, Leave, lockVars
  <2>4. QED
    BY <1>20, <2>1, <2>2, <2>3 DEF TypeOK, Throw, Fault, rowVars, flowVars
<1>21. ASSUME NEW p \in Proc, Crash(p)
       PROVE  TypeOK'
  BY <1>21, GotoType, RestType DEF TypeOK, Crash, Leave, Fault, rowVars, flowVars
<1>22. QED
  BY <1>0, <1>1, <1>2, <1>3, <1>4, <1>5, <1>6, <1>7, <1>8, <1>9, <1>10, <1>11, <1>12,
     <1>13, <1>14, <1>15, <1>16, <1>17, <1>18, <1>19, <1>20, <1>21
  DEF Next, GetAccessToken, Complete, Forget

(***************************************************************************)
(* What each step makes of the call that takes it.                         *)
(***************************************************************************)

Others(p) == \A q \in Proc : q # p => call'[q] = call[q]
Becomes(p, pc, id, token) ==
  call'[p].pc = pc /\ call'[p].id = id /\ call'[p].token = token /\ Others(p)
Ends(p) == Becomes(p, "idle", 0, 0)
Moves(p, pc) == Becomes(p, pc, call[p].id, call[p].token)

LEMMA RestEnds ==
  ASSUME TypeOK, NEW p \in Proc, Goto(p, Rest)
  PROVE  Ends(p)
BY DEF TypeOK, Goto, Rest, Ends, Becomes, Others

LEMMA MoveMoves ==
  ASSUME TypeOK, NEW p \in Proc, NEW pc, Move(p, pc)
  PROVE  Moves(p, pc)
BY DEF TypeOK, Call, Goto, Move, Moves, Becomes, Others

LEMMA Effect ==
  ASSUME TypeOK, NEW p \in Proc
  PROVE
    /\ Start(p) =>
         At(p, "idle") /\ Becomes(p, "wait", row.id, row.refresh)
    /\ Acquire(p) =>
         At(p, "wait") /\ Moves(p, "reread")
    /\ TimeOut(p) =>
         At(p, "wait") /\ Ends(p)
    /\ Reread(p) =>
         At(p, "reread") /\ \/ Moves(p, "leave")
                             \/ /\ row.id = call[p].id /\ row.refresh # NoToken
                                /\ Becomes(p, "provider", call[p].id, row.refresh)
    /\ Refresh(p) =>
         /\ At(p, "provider")
         /\ \/ Moves(p, "revoked") /\ UNCHANGED <<live, spent>>
            \/ ~rotating /\ Moves(p, "write") /\ UNCHANGED <<live, spent>>
            \/ \E u \in Token : /\ Rotate(call[p].token, u)
                              /\ Becomes(p, "write", call[p].id, u)
    /\ Write(p) =>
         At(p, "write") /\ Moves(p, "leave")
    /\ MarkRevoked(p) =>
         At(p, "revoked") /\ Moves(p, "leave")
    /\ Release(p) =>
         At(p, "leave") /\ Ends(p)
    /\ Disconnect(p) =>
         At(p, "idle") /\ Becomes(p, "stop", row.id, NoToken)
    /\ Exchange(p) =>
         /\ At(p, "exchange")
         /\ \/ Ends(p) /\ UNCHANGED <<live, spent>>
            \/ \E u \in Token : /\ NewToken(u) /\ spent' = spent \ {u}
                              /\ Becomes(p, "lookup", 0, u)
    /\ Lookup(p) =>
         /\ At(p, "lookup")
         /\ Becomes(p, IF row.id = 0 THEN "create" ELSE "update", row.id, call[p].token)
    /\ Update(p) =>
         At(p, "update") /\ Ends(p)
    /\ Create(p) =>
         At(p, "create") /\ (Ends(p) \/ (Moves(p, "upsert") /\ UNCHANGED rowVars))
    /\ Upsert(p) =>
         At(p, "upsert") /\ Ends(p)
    /\ StopWatch(p) =>
         At(p, "stop") /\ (Ends(p) \/ Moves(p, "revoke"))
    /\ ReadGrant(p) =>
         /\ At(p, "revoke")
         /\ \/ Ends(p) \/ Moves(p, "delete")
            \/ \E pc \in {"kill", "delete"} : Becomes(p, pc, call[p].id, row.refresh)
    /\ Kill(p) =>
         At(p, "kill") /\ Moves(p, "delete")
    /\ Delete(p) =>
         At(p, "delete") /\ Ends(p)
    /\ \A s \in State : Consume(p, s) =>
         At(p, "idle") /\ Becomes(p, "exchange", 0, NoToken)
    /\ Throw(p) =>
         \/ call[p].pc \in Inside \ {"leave"} /\ Moves(p, "leave") /\ UNCHANGED lockVars
         \/ At(p, "leave") /\ Ends(p) /\ Leave(p, "dead")
         \/ At(p, "wait") /\ Ends(p) /\ lock[call[p].id] = "free" /\ UNCHANGED lapsed
              /\ lock' = [lock EXCEPT ![call[p].id] = "dead"]
         \/ call[p].pc \notin Inside /\ Ends(p) /\ UNCHANGED lockVars
    /\ Crash(p) => Ends(p)
<1>1. Start(p) =>
         At(p, "idle") /\ Becomes(p, "wait", row.id, row.refresh)
  BY DEF TypeOK, Start, At, Goto, Rest, Becomes, Others
<1>2. Acquire(p) =>
         At(p, "wait") /\ Moves(p, "reread")
  BY RestEnds, MoveMoves DEF Acquire, At
<1>3. TimeOut(p) =>
         At(p, "wait") /\ Ends(p)
  BY RestEnds, MoveMoves DEF TimeOut, At
<1>4. Reread(p) =>
         At(p, "reread") /\ \/ Moves(p, "leave")
                             \/ /\ row.id = call[p].id /\ row.refresh # NoToken
                                /\ Becomes(p, "provider", call[p].id, row.refresh)
  <2>1. Goto(p, [call[p] EXCEPT !.pc = "provider", !.token = row.refresh,
                   !.flag = (row.status = "ERROR")])
          => Becomes(p, "provider", call[p].id, row.refresh)
    <3>1. call \in [Proc -> Call]
      BY DEF TypeOK
    <3> QED BY <3>1 DEF Goto, Call, Becomes, Others
  <2>2. QED
    BY <2>1, MoveMoves DEF Reread, At
<1>5. Refresh(p) =>
         /\ At(p, "provider")
         /\ \/ Moves(p, "revoked") /\ UNCHANGED <<live, spent>>
            \/ ~rotating /\ Moves(p, "write") /\ UNCHANGED <<live, spent>>
            \/ \E u \in Token : /\ Rotate(call[p].token, u)
                              /\ Becomes(p, "write", call[p].id, u)
  <2>1. ASSUME NEW u \in Token, Goto(p, [call[p] EXCEPT !.pc = "write", !.token = u])
        PROVE  Becomes(p, "write", call[p].id, u)
    <3>1. call \in [Proc -> Call]
      BY DEF TypeOK
    <3> QED BY <2>1, <3>1 DEF Goto, Call, Becomes, Others
  <2>2. QED
    BY <2>1, MoveMoves DEF Refresh, Rotate, At
<1>6. Write(p) =>
         At(p, "write") /\ Moves(p, "leave")
  BY RestEnds, MoveMoves DEF Write, At
<1>7. MarkRevoked(p) =>
         At(p, "revoked") /\ Moves(p, "leave")
  BY RestEnds, MoveMoves DEF MarkRevoked, At
<1>8. Release(p) =>
         At(p, "leave") /\ Ends(p)
  BY RestEnds, MoveMoves DEF Release, At
<1>9. Disconnect(p) =>
         At(p, "idle") /\ Becomes(p, "stop", row.id, NoToken)
  BY DEF TypeOK, Disconnect, At, Goto, Rest, Becomes, Others
<1>10. Exchange(p) =>
         /\ At(p, "exchange")
         /\ \/ Ends(p) /\ UNCHANGED <<live, spent>>
            \/ \E u \in Token : /\ NewToken(u) /\ spent' = spent \ {u}
                              /\ Becomes(p, "lookup", 0, u)
  BY RestEnds, MoveMoves DEF Exchange, At, Goto, Rest, TypeOK, Becomes, Others
<1>11. Lookup(p) =>
         /\ At(p, "lookup")
         /\ Becomes(p, IF row.id = 0 THEN "create" ELSE "update", row.id, call[p].token)
  BY RestEnds, MoveMoves DEF Lookup, At, Goto, Call, TypeOK, Becomes, Others
<1>12. Update(p) =>
         At(p, "update") /\ Ends(p)
  BY RestEnds, MoveMoves DEF Update, At
<1>13. Create(p) =>
         At(p, "create") /\ (Ends(p) \/ (Moves(p, "upsert") /\ UNCHANGED rowVars))
  BY RestEnds, MoveMoves DEF Create, At
<1>14. Upsert(p) =>
         At(p, "upsert") /\ Ends(p)
  BY RestEnds, MoveMoves DEF Upsert, At
<1>15. StopWatch(p) =>
         At(p, "stop") /\ (Ends(p) \/ Moves(p, "revoke"))
  BY RestEnds, MoveMoves DEF StopWatch, At
<1>16. ReadGrant(p) =>
         /\ At(p, "revoke")
         /\ \/ Ends(p) \/ Moves(p, "delete")
            \/ \E pc \in {"kill", "delete"} : Becomes(p, pc, call[p].id, row.refresh)
  <2>1. Goto(p, [call[p] EXCEPT !.pc = "delete", !.flag = TRUE]) => Moves(p, "delete")
    BY DEF TypeOK, Call, Goto, Moves, Becomes, Others
  <2>2. ASSUME NEW pc \in {"kill", "delete"},
               Goto(p, [call[p] EXCEPT !.token = row.refresh, !.pc = pc])
        PROVE  Becomes(p, pc, call[p].id, row.refresh)
    BY <2>2 DEF TypeOK, Call, Goto, Becomes, Others
  <2>3. QED
    BY <2>1, <2>2, RestEnds DEF ReadGrant, At
<1>17. Kill(p) =>
         At(p, "kill") /\ Moves(p, "delete")
  <2>1. Goto(p, [call[p] EXCEPT !.pc = "delete", !.flag = TRUE]) => Moves(p, "delete")
    BY DEF TypeOK, Call, Goto, Moves, Becomes, Others
  <2>2. QED
    BY <2>1, MoveMoves DEF Kill, At
<1>18. Delete(p) =>
         At(p, "delete") /\ Ends(p)
  BY RestEnds, MoveMoves DEF Delete, At
<1>19. \A s \in State : Consume(p, s) =>
         At(p, "idle") /\ Becomes(p, "exchange", 0, NoToken)
  BY DEF Consume, At, TypeOK, Goto, Rest, Becomes, Others
<1>20. Throw(p) =>
         \/ call[p].pc \in Inside \ {"leave"} /\ Moves(p, "leave") /\ UNCHANGED lockVars
         \/ At(p, "leave") /\ Ends(p) /\ Leave(p, "dead")
         \/ At(p, "wait") /\ Ends(p) /\ lock[call[p].id] = "free" /\ UNCHANGED lapsed
              /\ lock' = [lock EXCEPT ![call[p].id] = "dead"]
         \/ call[p].pc \notin Inside /\ Ends(p) /\ UNCHANGED lockVars
  BY RestEnds, MoveMoves DEF Throw
<1>21. Crash(p) => Ends(p)
  BY RestEnds DEF Crash
<1>22. QED
  BY <1>1, <1>2, <1>3, <1>4, <1>5, <1>6, <1>7, <1>8, <1>9, <1>10, <1>11, <1>12, <1>13, <1>14, <1>15, <1>16, <1>17, <1>18, <1>19, <1>20, <1>21

(***************************************************************************)
(* The lock.                                                               *)
(***************************************************************************)

\* The id of a call that has one.
LEMMA IdType ==
  ASSUME TypeOK, Named, NEW p \in Proc, call[p].pc \in ById
  PROVE  call[p].id \in Id
BY DEF TypeOK, Call, Named

\* A step of p that leaves the locks alone and stays in or out.
LEMMA LockKept ==
  ASSUME TypeOK, LockInv, NEW p \in Proc, UNCHANGED lockVars, mishap => mishap',
         call'[p].pc \in Inside <=> call[p].pc \in Inside,
         call[p].pc \in Inside => call'[p].id = call[p].id,
         \A q \in Proc : q # p => call'[q] = call[q]
  PROVE  LockInv'
BY DEF TypeOK, LockInv, LockReturned, lockVars

\* A step of p that ends outside, and gives up the lock if p has it.
LEMMA LockLeft ==
  ASSUME VaultAssumption, TypeOK, Named, LockInv, NEW p \in Proc, mishap => mishap',
         NEW l \in {"free", "dead"}, Leave(p, l),
         call'[p].pc \notin Inside,
         \A q \in Proc : q # p => call'[q] = call[q]
  PROVE  LockInv'
<1>1. /\ \A i \in Id : lock'[i] = (IF lock[i] = p THEN l ELSE lock[i])
      /\ lapsed' = lapsed \ {p}
  BY DEF Leave
<1>2. \A q \in Proc : call[q].pc \in Inside => call[q].id \in Id
  BY IdType DEF ById
<1>3. l \notin Proc
  BY DEF VaultAssumption
<1>4. ASSUME NEW q \in Proc, call'[q].pc \in Inside, q \notin lapsed'
      PROVE  lock'[call'[q].id] = q
  BY <1>1, <1>2, <1>4 DEF LockInv
<1>5. \A q \in lapsed' : call'[q].pc \in Inside
  BY <1>1 DEF LockInv, TypeOK
<1>6. LockReturned' /\ \A i \in Id : lock'[i] \notin lapsed'
  <2>1. ASSUME NEW i \in Id
        PROVE  /\ lock'[i] \in Proc => call'[lock'[i]].pc \in Inside /\ call'[lock'[i]].id = i
               /\ lock'[i] \notin lapsed'
    BY <1>1, <1>3, <2>1 DEF LockInv, LockReturned, TypeOK
  <2> QED BY <2>1 DEF LockReturned
<1>7. mishap' \/ lapsed' = {}
  BY <1>1 DEF LockInv
<1> QED BY <1>4, <1>5, <1>6, <1>7 DEF LockInv

\* A lock that nobody has changes between free and dead.
LEMMA LockIdle ==
  ASSUME VaultAssumption, TypeOK, LockInv, UNCHANGED lapsed, mishap => mishap',
         NEW i \in Id, lock[i] \notin Proc, NEW l \in {"free", "dead"},
         lock' = [lock EXCEPT ![i] = l],
         \A q \in Proc : call[q].pc \in Inside \/ call'[q].pc \in Inside =>
           call'[q] = call[q]
  PROVE  LockInv'
<1>1. l \notin Proc /\ lock'[i] = l /\ \A j \in Id \ {i} : lock'[j] = lock[j]
  BY DEF VaultAssumption, TypeOK
<1>2. ASSUME NEW q \in Proc, call'[q].pc \in Inside, q \notin lapsed'
      PROVE  lock'[call'[q].id] = q
  <2>1. lock[call[q].id] = q /\ call'[q] = call[q]
    BY <1>2 DEF LockInv
  <2>2. call[q].id # i
    BY <2>1
  <2> QED BY <2>1, <2>2 DEF TypeOK
<1>3. \A q \in lapsed' : call'[q].pc \in Inside
  BY DEF LockInv, TypeOK
<1>4. LockReturned' /\ \A j \in Id : lock'[j] \notin lapsed'
  <2>1. ASSUME NEW j \in Id
        PROVE  /\ lock'[j] \in Proc => call'[lock'[j]].pc \in Inside /\ call'[lock'[j]].id = j
               /\ lock'[j] \notin lapsed'
    BY <1>1 DEF LockInv, LockReturned, TypeOK
  <2> QED BY <2>1 DEF LockReturned
<1> QED BY <1>2, <1>3, <1>4 DEF LockInv

\* The lock is kept in order by every step.
LEMMA LockStep ==
  ASSUME VaultAssumption, TypeOK, Named, LockInv, [Next]_vars
  PROVE  LockInv'
<1> USE VaultAssumption DEF At, Ends, Moves, Becomes, Others
<1>1. CASE UNCHANGED vars \/ Withdraw \/ Age \/ Falter \/ RotateKey
  BY <1>1 DEF LockInv, LockReturned, vars, Withdraw, Age, Falter, RotateKey, rowVars,
              envVars, lockVars
<1>2. ASSUME NEW i \in Id, ExpireLock(i)
      PROVE  LockInv'
  <2>1. lock[i] = "dead" /\ lock' = [lock EXCEPT ![i] = "free"]
    BY <1>2 DEF ExpireLock
  <2>2. UNCHANGED <<lapsed, mishap, call>> /\ lock[i] \notin Proc
    BY <1>2, <2>1 DEF VaultAssumption, ExpireLock, envVars
  <2> QED BY <2>1, <2>2, LockIdle
<1>3. ASSUME NEW p \in Proc, Start(p) \/ TimeOut(p) \/ Disconnect(p)
      PROVE  LockInv'
  <2>1. call[p].pc \notin Inside /\ call'[p].pc \notin Inside /\ Others(p)
    BY <1>3, Effect DEF Inside
  <2>2. UNCHANGED lockVars /\ mishap' = mishap
    BY <1>3 DEF Start, TimeOut, Disconnect, envVars
  <2>3. QED
    BY <2>1, <2>2, LockKept
<1>4. ASSUME NEW p \in Proc, Acquire(p)
      PROVE  LockInv'
  <2>1. /\ call[p].pc = "wait" /\ call'[p].pc = "reread" /\ call'[p].id = call[p].id
        /\ Others(p)
    BY <1>4, Effect
  <2>2. call[p].id \in Id
    BY <2>1, IdType DEF ById
  <2>3. /\ lock[call[p].id] = "free" /\ lock' = [lock EXCEPT ![call[p].id] = p]
        /\ UNCHANGED <<lapsed, mishap>>
    BY <1>4 DEF Acquire, envVars
  <2>4. "free" \notin Proc /\ p \notin lapsed
    BY <2>1 DEF VaultAssumption, LockInv, Inside
  <2>5. lock'[call[p].id] = p /\ \A j \in Id \ {call[p].id} : lock'[j] = lock[j]
    BY <2>2, <2>3 DEF TypeOK
  <2>6. ASSUME NEW q \in Proc, call'[q].pc \in Inside, q \notin lapsed'
        PROVE  lock'[call'[q].id] = q
    <3>1. CASE q = p
      BY <2>1, <2>5, <3>1
    <3>2. CASE q # p
      <4>1. call'[q] = call[q] /\ lock[call[q].id] = q
        BY <2>1, <2>3, <2>6, <3>2 DEF LockInv
      <4>2. call[q].id # call[p].id /\ call[q].id \in Id
        BY <2>3, <2>4, <2>6, <4>1, IdType DEF ById
      <4> QED BY <2>5, <4>1, <4>2
    <3> QED BY <3>1, <3>2
  <2>7. \A q \in lapsed' : call'[q].pc \in Inside
    BY <2>1, <2>3, <2>4 DEF LockInv, TypeOK
  <2>8. LockReturned' /\ \A j \in Id : lock'[j] \notin lapsed'
    <3>1. ASSUME NEW j \in Id
          PROVE  /\ lock'[j] \in Proc => call'[lock'[j]].pc \in Inside /\ call'[lock'[j]].id = j
                 /\ lock'[j] \notin lapsed'
      BY <2>1, <2>3, <2>4, <2>5 DEF LockInv, LockReturned, TypeOK, Inside
    <3> QED BY <3>1 DEF LockReturned
  <2> QED BY <2>3, <2>6, <2>7, <2>8 DEF LockInv
<1>5. ASSUME NEW p \in Proc, Reread(p) \/ Refresh(p) \/ Write(p) \/ MarkRevoked(p)
      PROVE  LockInv'
  <2>1. /\ call[p].pc \in Inside /\ call'[p].pc \in Inside /\ Others(p)
        /\ call'[p].id = call[p].id
    BY <1>5, Effect DEF Inside
  <2>2. UNCHANGED lockVars /\ mishap' = mishap
    BY <1>5 DEF Reread, Refresh, Write, MarkRevoked, envVars
  <2>3. QED
    BY <2>1, <2>2, LockKept
<1>6. ASSUME NEW p \in Proc, Release(p)
      PROVE  LockInv'
  <2>1. call'[p].pc \notin Inside /\ Others(p)
    BY <1>6, Effect DEF Inside
  <2>2. Leave(p, "free") /\ mishap' = mishap
    BY <1>6 DEF Release, envVars
  <2>3. QED
    BY <2>1, <2>2, LockLeft
<1>7. ASSUME NEW p \in Proc, Lapse(p)
      PROVE  LockInv'
  <2>1. /\ call[p].pc \in Inside /\ lock[call[p].id] = p /\ UNCHANGED call /\ mishap'
        /\ lock' = [lock EXCEPT ![call[p].id] = "free"] /\ lapsed' = lapsed \cup {p}
    BY <1>7 DEF Lapse
  <2>2. call[p].id \in Id /\ "free" \notin Proc
    BY <2>1, IdType DEF ById, VaultAssumption
  <2>3. lock'[call[p].id] = "free" /\ \A j \in Id \ {call[p].id} : lock'[j] = lock[j]
    BY <2>1, <2>2 DEF TypeOK
  <2>4. ASSUME NEW q \in Proc, call[q].pc \in Inside, q \notin lapsed'
        PROVE  lock'[call[q].id] = q
    <3>1. q # p /\ lock[call[q].id] = q
      BY <2>1, <2>4 DEF LockInv
    <3>2. call[q].id # call[p].id /\ call[q].id \in Id
      BY <2>1, <2>4, <3>1, IdType DEF ById
    <3> QED BY <2>3, <3>1, <3>2
  <2>5. ASSUME NEW j \in Id
        PROVE  /\ lock'[j] \in Proc => call[lock'[j]].pc \in Inside /\ call[lock'[j]].id = j
               /\ lock'[j] \notin lapsed'
    BY <2>1, <2>2, <2>3 DEF LockInv, LockReturned, TypeOK
  <2> QED BY <2>1, <2>4, <2>5 DEF LockInv, LockReturned
<1>8. ASSUME NEW p \in Proc,
             (\E s \in State : Consume(p, s)) \/ Complete(p) \/ Forget(p)
      PROVE  LockInv'
  <2>1. call[p].pc \notin Inside /\ call'[p].pc \notin Inside /\ Others(p)
    BY <1>8, Effect DEF Complete, Forget, Inside
  <2>2. UNCHANGED lockVars /\ mishap' = mishap
    BY <1>8 DEF Consume, Complete, Exchange, Lookup, Update, Create, Upsert, Forget,
                StopWatch, ReadGrant, Kill, Delete, envVars
  <2>3. QED
    BY <2>1, <2>2, LockKept
<1>9. ASSUME NEW p \in Proc, Throw(p)
      PROVE  LockInv'
  <2>1. mishap => mishap'
    BY <1>9 DEF Throw
  <2>2. CASE call[p].pc \in Inside \ {"leave"} /\ Moves(p, "leave") /\ UNCHANGED lockVars
    BY <2>1, <2>2, LockKept DEF Inside
  <2>3. CASE Ends(p) /\ Leave(p, "dead")
    BY <2>1, <2>3, LockLeft DEF Inside
  <2>4. CASE call[p].pc \notin Inside /\ Ends(p) /\ UNCHANGED lockVars
    BY <2>1, <2>4, LockKept DEF Inside
  <2>5. CASE /\ At(p, "wait") /\ Ends(p) /\ lock[call[p].id] = "free" /\ UNCHANGED lapsed
             /\ lock' = [lock EXCEPT ![call[p].id] = "dead"]
    <3>1. call[p].id \in Id /\ lock[call[p].id] \notin Proc
      BY <2>5, IdType DEF ById, VaultAssumption
    <3>2. \A q \in Proc : call[q].pc \in Inside \/ call'[q].pc \in Inside =>
            call'[q] = call[q]
      BY <2>5 DEF Inside
    <3> QED BY <2>1, <2>5, <3>1, <3>2, LockIdle
  <2>6. QED
    BY <1>9, <2>2, <2>3, <2>4, <2>5, Effect
<1>10. ASSUME NEW p \in Proc, Crash(p)
       PROVE  LockInv'
  <2>1. call'[p].pc \notin Inside /\ Others(p)
    BY <1>10, Effect DEF Inside
  <2>2. Leave(p, "dead") /\ (mishap => mishap')
    BY <1>10 DEF Crash
  <2>3. QED
    BY <2>1, <2>2, LockLeft
<1>11. QED
  BY <1>1, <1>2, <1>3, <1>4, <1>5, <1>6, <1>7, <1>8, <1>9, <1>10
  DEF Next, GetAccessToken

(***************************************************************************)
(* The states, the ids, and the audit trail.                               *)
(***************************************************************************)

\* A state that led to an exchange is gone.
LEMMA StateStep ==
  ASSUME TypeOK, StateInv, [Next]_vars
  PROVE  StateInv'
<1>1. CASE \E p \in Proc, s \in State : Consume(p, s)
  <2>1. PICK p \in Proc, s \in State : Consume(p, s)
    BY <1>1
  <2>2. nonce' = nonce \ {s} /\ exchanged' = [exchanged EXCEPT ![s] = @ + 1] /\ s \in nonce
    BY <2>1 DEF Consume
  <2>3. QED
    BY <2>2 DEF TypeOK, StateInv, StateOnce
<1>2. CASE ~ \E p \in Proc, s \in State : Consume(p, s)
  <2>1. UNCHANGED <<nonce, exchanged>>
    BY <1>2 DEF Next, vars, flowVars, Withdraw, Age, Falter, RotateKey, ExpireLock, Start,
      Acquire, TimeOut, GetAccessToken, Reread, Refresh, Write, MarkRevoked, Release, Lapse,
      Complete, Exchange, Lookup, Update, Create, Upsert, Disconnect, Forget, StopWatch,
      ReadGrant, Kill, Delete, Throw, Crash
  <2>2. QED
    BY <2>1 DEF StateInv, StateOnce
<1>3. QED
  BY <1>1, <1>2

\* A step that does not enter an operation by id, or enters it with one.
LEMMA NamedKept ==
  ASSUME Named, NEW p \in Proc, Others(p),
         call'[p].pc \in ById => call'[p].id # 0
  PROVE  Named'
BY DEF Named, Others

LEMMA NamedStep ==
  ASSUME TypeOK, Named, [Next]_vars
  PROVE  Named'
<1> USE DEF At, Ends, Moves, Becomes
<1>1. CASE UNCHANGED call
  BY <1>1 DEF Named
<1>2. ASSUME NEW p \in Proc,
             \/ Start(p) \/ Acquire(p) \/ TimeOut(p) \/ GetAccessToken(p) \/ Disconnect(p)
      PROVE  Named'
  <2>1. Others(p) /\ (call'[p].pc \in ById => call'[p].id # 0)
    BY <1>2, Effect DEF Named, ById, Inside, GetAccessToken, Start, Disconnect
  <2>2. QED
    BY <2>1, NamedKept
<1>3. ASSUME NEW p \in Proc,
             (\E s \in State : Consume(p, s)) \/ Complete(p) \/ Forget(p)
      PROVE  Named'
  <2>1. Others(p) /\ (call'[p].pc \in ById => call'[p].id # 0)
    BY <1>3, Effect DEF Named, ById, Inside, Complete, Forget
  <2>2. QED
    BY <2>1, NamedKept
<1>4. ASSUME NEW p \in Proc, Throw(p) \/ Crash(p)
      PROVE  Named'
  <2>1. Others(p) /\ (call'[p].pc \in ById => call'[p].id # 0)
    BY <1>4, Effect DEF Named, ById, Inside
  <2>2. QED
    BY <2>1, NamedKept
<1>5. QED
  BY <1>1, <1>2, <1>3, <1>4
  DEF Next, vars, Withdraw, Age, Falter, RotateKey, ExpireLock, Lapse

\* Only a create and a delete change what the trail says.
LEMMA AccountedStep ==
  ASSUME TypeOK, Named, Accounted, [Next]_vars
  PROVE  Accounted'
<1>0. trail \in [Id -> [connected: 0..1, disconnected: 0..1]] /\ row \in Row \cup {NoRow}
  BY DEF TypeOK
<1>1. CASE row'.id = row.id /\ trail' = trail
  BY <1>1 DEF Accounted
<1>2. ASSUME NEW p \in Proc, Create(p)
      PROVE  Accounted'
  <2>1. CASE UNCHANGED rowVars
    BY <1>1, <2>1 DEF rowVars
  <2>2. CASE ~UNCHANGED rowVars
    <3>1. PICK i \in Id : /\ NewId(i) /\ row.id = 0
                          /\ row' = Connected(i, call[p].token)
                          /\ trail' = [trail EXCEPT ![i].connected = @ + 1]
      BY <1>2, <2>2 DEF Create
    <3>2. row'.id = i /\ trail[i].connected = 0 /\ trail[i].disconnected = 0
      BY <1>0, <3>1 DEF Connected, NewId, Accounted
    <3>3. /\ trail'[i].connected = 1 /\ trail'[i].disconnected = 0
          /\ \A j \in Id \ {i} : trail'[j] = trail[j]
      BY <1>0, <3>1, <3>2
    <3>4. \A j \in Id : row.id # j
      BY <3>1 DEF Id
    <3>5. \A j \in Id \ {i} : /\ trail'[j].disconnected <= trail'[j].connected
                             /\ ~(trail'[j].connected = 1 /\ trail'[j].disconnected = 0)
      BY <3>3, <3>4 DEF Accounted
    <3>6. QED
      BY <3>2, <3>3, <3>5 DEF Accounted
  <2>3. QED
    BY <2>1, <2>2
<1>3. ASSUME NEW p \in Proc, Delete(p)
      PROVE  Accounted'
  <2>1. CASE row.id # call[p].id
    BY <1>1, <1>3, <2>1 DEF Delete, rowVars
  <2>2. CASE row.id = call[p].id
    <3>1. row.id # 0
      BY <1>3, <2>2 DEF Delete, At, Named, ById, Inside
    <3>2. row.id \in Id
      BY <1>0, <3>1 DEF Row, NoRow
    <3>3. trail[row.id].connected = 1 /\ trail[row.id].disconnected = 0
      BY <3>2 DEF Accounted
    <3>4. row'.id = 0 /\ trail' = [trail EXCEPT ![row.id].disconnected = @ + 1]
      BY <1>3, <2>2 DEF Delete, NoRow
    <3>5. /\ trail'[row.id].connected = 1 /\ trail'[row.id].disconnected = 1
          /\ \A j \in Id \ {row.id} : trail'[j] = trail[j]
      BY <1>0, <3>2, <3>3, <3>4
    <3>6. \A j \in Id : row'.id # j
      BY <3>4 DEF Id
    <3>7. QED
      BY <3>5, <3>6 DEF Accounted
  <2>3. QED
    BY <2>1, <2>2
<1>4. ASSUME NEW p \in Proc, Write(p) \/ MarkRevoked(p) \/ Update(p) \/ Upsert(p)
      PROVE  Accounted'
  <2>1. Write(p) \/ MarkRevoked(p) => row'.id = row.id
    BY <1>0 DEF Write, MarkRevoked, Row, NoRow
  <2>2. Update(p) \/ Upsert(p) => row'.id = row.id
    BY DEF Update, Upsert, Connected
  <2>3. trail' = trail
    BY <1>4 DEF Write, MarkRevoked, Update, Upsert
  <2>4. QED
    BY <1>1, <1>4, <2>1, <2>2, <2>3
<1>5. CASE Falter
  BY <1>0, <1>1, <1>5 DEF Falter, Row, NoRow
<1>6. CASE UNCHANGED <<row, trail>>
  BY <1>1, <1>6
<1>7. QED
  BY <1>2, <1>3, <1>4, <1>5, <1>6 DEF Next, vars, rowVars, Withdraw, Age, RotateKey,
    ExpireLock, Start, Acquire, TimeOut, GetAccessToken, Reread, Refresh, Release, Lapse,
    Consume, Complete, Exchange, Lookup, Disconnect, Forget, StopWatch, ReadGrant, Kill,
    Throw, Crash

(***************************************************************************)
(* The tokens.                                                             *)
(***************************************************************************)

\* A step of p that gives out no token and connects nothing.
LEMMA UnsharedKept ==
  ASSUME VaultAssumption, TypeOK, Unshared, NEW p \in Proc, Others(p),
         row'.refresh = row.refresh, spent' \subseteq spent,
         call'[p].token \in {call[p].token, row.refresh, NoToken},
         call'[p].pc \in Connecting =>
           call[p].pc \in Connecting /\ call'[p].token = call[p].token
  PROVE  Unshared'
BY DEF VaultAssumption, TypeOK, Unshared, Others

\* What p holds is worth nothing to the others once it is in the row.
LEMMA UnsharedStored ==
  ASSUME VaultAssumption, TypeOK, Unshared, NEW p \in Proc, Ends(p), spent' = spent,
         row'.refresh \in {row.refresh, call[p].token, NoToken}
  PROVE  Unshared'
BY DEF VaultAssumption, TypeOK, Unshared, Ends, Becomes, Others, Connecting

\* A token that the provider gives to p.
LEMMA UnsharedGiven ==
  ASSUME VaultAssumption, TypeOK, Unshared, NEW p \in Proc, Others(p), row' = row,
         NEW u \in Token, NewToken(u), call'[p].token = u,
         spent' \subseteq (spent \cup {call[p].token}) \ {u},
         call[p].pc \notin Connecting
  PROVE  Unshared'
<1>1. u # row.refresh /\ \A q \in Proc : u # call[q].token
  BY DEF NewToken, InUse
<1>2. ASSUME NEW q \in Proc, q # p, call[q].pc \in Connecting
      PROVE  /\ call[q].token \in Token \ spent' /\ call[q].token # row.refresh
             /\ \A r \in Proc \ {q} : call'[r].token # call[q].token
  BY <1>1, <1>2 DEF Unshared, Others
<1>3. /\ u \in Token \ spent' /\ u # row.refresh
      /\ \A r \in Proc \ {p} : call'[r].token # u
  BY <1>1 DEF Others
<1>4. QED
  BY <1>2, <1>3 DEF Unshared, Others

LEMMA UnsharedStep ==
  ASSUME VaultAssumption, TypeOK, Unshared, [Next]_vars
  PROVE  Unshared'
<1> USE VaultAssumption DEF At, Ends, Moves, Becomes
<1>0. CASE UNCHANGED <<call, spent>> /\ row'.refresh = row.refresh
  BY <1>0 DEF Unshared
<1>1. CASE Falter
  <2>1. row'.refresh = row.refresh
    BY <1>1 DEF Falter, TypeOK, Row, NoRow
  <2>2. QED
    BY <1>0, <1>1, <2>1 DEF Falter, envVars
<1>2. ASSUME NEW p \in Proc,
             \/ Start(p) \/ Acquire(p) \/ TimeOut(p) \/ Reread(p) \/ Release(p)
             \/ Disconnect(p) \/ StopWatch(p) \/ ReadGrant(p) \/ Kill(p) \/ Lookup(p)
      PROVE  Unshared'
  <2>1. /\ Others(p) /\ call'[p].token \in {call[p].token, row.refresh, NoToken}
        /\ call'[p].pc \in Connecting =>
             call[p].pc \in Connecting /\ call'[p].token = call[p].token
    BY <1>2, Effect DEF Connecting
  <2>2. UNCHANGED <<row, spent>>
    BY <1>2 DEF Start, Acquire, TimeOut, Reread, Release, Disconnect, StopWatch, ReadGrant,
                Kill, Lookup, rowVars, envVars
  <2>3. QED
    BY <2>1, <2>2, UnsharedKept
<1>3. ASSUME NEW p \in Proc, NEW s \in State, Consume(p, s)
      PROVE  Unshared'
  <2>1. Others(p) /\ call'[p].token = NoToken /\ call'[p].pc = "exchange"
    BY <1>3, Effect
  <2>2. UNCHANGED <<row, spent>>
    BY <1>3 DEF Consume, rowVars, envVars
  <2>3. QED
    BY <2>1, <2>2, UnsharedKept DEF Connecting
<1>4. ASSUME NEW p \in Proc, Refresh(p)
      PROVE  Unshared'
  <2>1. row' = row
    BY <1>4 DEF Refresh, rowVars
  <2>2. At(p, "provider")
    BY <1>4 DEF Refresh
  <2>3. CASE (Moves(p, "revoked") \/ Moves(p, "write")) /\ spent' = spent
    BY <2>1, <2>2, <2>3, UnsharedKept DEF Connecting
  <2>4. CASE \E u \in Token : Rotate(call[p].token, u) /\ Becomes(p, "write", call[p].id, u)
    <3>1. PICK u \in Token : Rotate(call[p].token, u) /\ Becomes(p, "write", call[p].id, u)
      BY <2>4
    <3>2. NewToken(u) /\ spent' = (spent \cup {call[p].token}) \ {u}
      BY <3>1 DEF Rotate
    <3>3. QED
      BY <2>1, <2>2, <3>1, <3>2, UnsharedGiven DEF Connecting
  <2>5. QED
    BY <1>4, <2>3, <2>4, Effect
<1>5. ASSUME NEW p \in Proc, Exchange(p)
      PROVE  Unshared'
  <2>1. row' = row
    BY <1>5 DEF Exchange, rowVars
  <2>2. At(p, "exchange")
    BY <1>5 DEF Exchange
  <2>3. CASE Ends(p) /\ spent' = spent
    BY <2>1, <2>3, UnsharedStored
  <2>4. CASE \E u \in Token : /\ NewToken(u) /\ spent' = spent \ {u}
                              /\ Becomes(p, "lookup", 0, u)
    BY <2>1, <2>2, <2>4, UnsharedGiven DEF Connecting
  <2>5. QED
    BY <1>5, <2>3, <2>4, Effect
<1>6. ASSUME NEW p \in Proc, Write(p) \/ MarkRevoked(p)
      PROVE  Unshared'
  <2>1. /\ Moves(p, "leave") /\ call[p].pc \notin Connecting
    BY <1>6, Effect DEF Connecting
  <2>2. row'.refresh \in {row.refresh, call[p].token, NoToken} /\ spent' = spent
    BY <1>6 DEF Write, MarkRevoked, TypeOK, Row, NoRow, envVars
  <2>3. QED
    BY <2>1, <2>2 DEF VaultAssumption, TypeOK, Unshared, Others, Connecting
<1>7. ASSUME NEW p \in Proc, Update(p) \/ Upsert(p) \/ Delete(p)
      PROVE  Unshared'
  <2>1. row'.refresh \in {row.refresh, call[p].token, NoToken} /\ spent' = spent
    BY <1>7 DEF Update, Upsert, Delete, Connected, NoRow, rowVars, envVars
  <2>2. QED
    BY <1>7, <2>1, UnsharedStored, Effect
<1>8. ASSUME NEW p \in Proc, Create(p)
      PROVE  Unshared'
  <2>1. spent' = spent /\ At(p, "create")
    BY <1>8 DEF Create, envVars
  <2>2. CASE Ends(p)
    <3>1. row'.refresh \in {row.refresh, call[p].token}
      BY <1>8 DEF Create, Connected, rowVars
    <3>2. QED
      BY <2>1, <2>2, <3>1, UnsharedStored
  <2>3. CASE Moves(p, "upsert") /\ UNCHANGED rowVars
    BY <2>1, <2>3, UnsharedKept DEF Connecting, rowVars
  <2>4. QED
    BY <1>8, <2>2, <2>3, Effect
<1>9. ASSUME NEW p \in Proc, Throw(p)
      PROVE  Unshared'
  <2>1. /\ Others(p) /\ row' = row
        /\ \/ Ends(p) \/ (Moves(p, "leave") /\ call[p].pc \in Inside)
    BY <1>9, Effect DEF Throw, rowVars
  <2>2. CASE spent' = spent
    BY <2>1, <2>2, UnsharedKept DEF Connecting
  <2>3. CASE At(p, "provider") /\ \E u \in Token : Rotate(call[p].token, u)
    <3>1. PICK u \in Token : Rotate(call[p].token, u)
      BY <2>3
    <3>2. spent' \subseteq spent \cup {call[p].token}
      BY <3>1 DEF Rotate
    <3>3. call'[p].pc \notin Connecting
      BY <2>1 DEF Connecting
    <3>4. \A q \in Proc : call'[q].token \in {call[q].token, NoToken}
      BY <2>1 DEF Others
    <3>5. QED
      BY <2>1, <3>2, <3>3, <3>4 DEF VaultAssumption, Unshared, Others
  <2>4. QED
    BY <1>9, <2>2, <2>3 DEF Throw
<1>10. ASSUME NEW p \in Proc, Crash(p)
       PROVE  Unshared'
  <2>1. row' = row /\ spent' = spent
    BY <1>10 DEF Crash, rowVars
  <2>2. QED
    BY <1>10, <2>1, UnsharedStored, Effect
<1>11. CASE UNCHANGED <<call, row, spent>>
  BY <1>0, <1>11
<1>12. QED
  BY <1>1, <1>2, <1>3, <1>4, <1>5, <1>6, <1>7, <1>8, <1>9, <1>10, <1>11
  DEF Next, GetAccessToken, Complete, Forget, vars, rowVars, envVars, Withdraw, Age,
      RotateKey, ExpireLock, Lapse

\* While every lock has held, whoever refreshes a row is alone at it.
LEMMA Alone ==
  ASSUME LockInv, ~mishap, NEW p \in Proc, call[p].pc \in Inside,
         NEW q \in Proc, call[q].pc \in Inside, call[p].id = call[q].id
  PROVE  p = q
BY DEF LockInv

\* A step that leaves the row and the refreshers' tokens alone.
LEMMA UnspentKept ==
  ASSUME TypeOK, Unspent, NEW p \in Proc, Others(p),
         row'.refresh = row.refresh, row'.id = row.id, rotating' = rotating,
         spent' \subseteq spent, ~At(p, "write"),
         call'[p].pc \notin Presenting
  PROVE  Unspent'
BY DEF TypeOK, Unspent, Others, At

\* A step that puts an unspent token, or none, into the row.
LEMMA UnspentStored ==
  ASSUME VaultAssumption, TypeOK, Unspent, NEW p \in Proc, Others(p), spent' = spent,
         row'.refresh \in Token \ spent \/ row'.refresh = NoToken,
         \A q \in Proc \ {p} :
           call[q].pc \in Presenting => call[q].token # row'.refresh,
         call'[p].pc \notin Presenting
  PROVE  Unspent'
BY DEF VaultAssumption, TypeOK, Unspent, Others, At

\* A token that is in use by a refresher is not a spent one.
LEMMA UnspentStep ==
  ASSUME VaultAssumption, TypeOK, LockInv, Unshared, mishap \/ Unspent, [Next]_vars
  PROVE  mishap' \/ Unspent'
<1> SUFFICES ASSUME ~mishap'
             PROVE  Unspent'
  OBVIOUS
<1> USE VaultAssumption DEF At, Ends, Moves, Becomes
<1>0. ~mishap
  BY DEF Next, vars, envVars, Withdraw, Age, Falter, RotateKey, ExpireLock, Start, Acquire,
    TimeOut, GetAccessToken, Reread, Refresh, Write, MarkRevoked, Release, Lapse, Consume,
    Complete, Exchange, Lookup, Update, Create, Upsert, Disconnect, Forget, StopWatch,
    ReadGrant, Kill, Delete, Throw, Crash
<1> USE <1>0
<1>1. Unspent
  OBVIOUS
<1>2. CASE UNCHANGED <<call, spent, rotating>> /\ row'.refresh = row.refresh /\ row'.id = row.id
  BY <1>1, <1>2 DEF Unspent
<1>3. CASE Falter
  <2>1. row'.refresh = row.refresh /\ row'.id = row.id
    BY <1>3 DEF Falter, TypeOK, Row, NoRow
  <2>2. QED
    BY <1>2, <1>3, <2>1 DEF Falter, envVars
<1>4. ASSUME NEW p \in Proc,
             \/ Start(p) \/ Acquire(p) \/ TimeOut(p) \/ Release(p)
             \/ Disconnect(p) \/ StopWatch(p) \/ ReadGrant(p) \/ Kill(p) \/ Lookup(p)
      PROVE  Unspent'
  <2>1. /\ Others(p) /\ call[p].pc # "write"
        /\ call'[p].pc \notin Presenting
    BY <1>4, Effect DEF Presenting
  <2>2. UNCHANGED <<row, spent, rotating>>
    BY <1>4 DEF Start, Acquire, TimeOut, Release, Disconnect, StopWatch, ReadGrant,
                Kill, Lookup, rowVars, envVars
  <2>3. QED
    BY <1>1, <2>1, <2>2, UnspentKept
<1>5. ASSUME NEW p \in Proc, (\E s \in State : Consume(p, s)) \/ Exchange(p)
      PROVE  Unspent'
  <2>1. /\ Others(p) /\ call[p].pc # "write"
        /\ call'[p].pc \notin Presenting
    BY <1>5, Effect DEF Presenting
  <2>2. UNCHANGED <<row, rotating>> /\ spent' \subseteq spent
    BY <1>5 DEF Consume, Exchange, rowVars, envVars
  <2>3. QED
    BY <1>1, <2>1, <2>2, UnspentKept
<1>6. ASSUME NEW p \in Proc, Reread(p)
      PROVE  Unspent'
  <2>1. UNCHANGED <<row, spent, rotating>> /\ At(p, "reread") /\ Others(p)
    BY <1>6, Effect DEF Reread, rowVars, envVars
  <2>2. CASE Moves(p, "leave")
    BY <1>1, <2>1, <2>2, UnspentKept DEF Presenting
  <2>3. CASE /\ row.id = call[p].id /\ row.refresh # NoToken
             /\ Becomes(p, "provider", call[p].id, row.refresh)
    <3>1. \A q \in Proc : At(q, "write") => row.id # call[q].id
      BY <2>1, <2>3, Alone DEF Inside
    <3>2. row.refresh \in Token \ spent
      BY <1>1, <2>3, <3>1 DEF Unspent, TypeOK, Row, NoRow
    <3>3. /\ call'[p].token = row.refresh /\ call'[p].id = call[p].id
          /\ \A q \in Proc : call[q].pc \in Presenting /\ call[q].token = row.refresh =>
               call[q].id = call[p].id
      BY <1>1, <2>3 DEF Unspent
    <3>4. \A q \in Proc : At(q, "write") => q # p /\ call'[q] = call[q]
      BY <2>1 DEF Others
    <3>5. QED
      BY <1>1, <2>1, <2>3, <3>2, <3>3, <3>4 DEF Unspent, Others
  <2>4. QED
    BY <1>6, <2>2, <2>3, Effect
<1>7. ASSUME NEW p \in Proc, Refresh(p)
      PROVE  Unspent'
  <2>1. UNCHANGED <<row, rotating>> /\ At(p, "provider") /\ Others(p)
    BY <1>7, Effect DEF Refresh, rowVars
  <2>2. CASE (Moves(p, "revoked") \/ Moves(p, "write")) /\ spent' = spent
    <3>1. call[p].pc \in Presenting /\ call'[p].token = call[p].token
          /\ call'[p].id = call[p].id /\ call[p].pc # "write"
      BY <2>1, <2>2 DEF Presenting
    <3>2. QED
      BY <1>1, <2>1, <2>2, <3>1 DEF Unspent, Others
  <2>3. CASE \E u \in Token : Rotate(call[p].token, u) /\ Becomes(p, "write", call[p].id, u)
    <3>1. PICK u \in Token : Rotate(call[p].token, u) /\ Becomes(p, "write", call[p].id, u)
      BY <2>3
    <3>2. rotating /\ spent' = (spent \cup {call[p].token}) \ {u}
      BY <3>1 DEF Rotate
    <3>3. /\ row.refresh # u /\ \A q \in Proc : call[q].token # u
      BY <3>1 DEF Rotate, NewToken, InUse
    <3>4. call'[p].token = u /\ call'[p].id = call[p].id /\ call'[p].pc = "write"
      BY <3>1
    <3>5. ASSUME NEW q \in Proc, q # p, call[q].pc \in Presenting
          PROVE  call[q].token # call[p].token
      <4>1. call[p].pc \in Presenting /\ call[p].pc \in Inside /\ call[q].pc \in Inside
        BY <2>1, <3>5 DEF Presenting, Inside
      <4> QED BY <1>1, <3>5, <4>1, Alone DEF Unspent
    <3>6. ASSUME NEW q \in Proc, q # p, call'[q].pc \in Presenting
          PROVE  /\ call'[q] = call[q] /\ call[q].token \in Token \ spent' /\ call[q].token # u
                 /\ call[q].token = row.refresh => row.id = call[q].id
                 /\ \A r \in Proc \ {p} : call[r].pc \in Presenting /\ call[r].token = call[q].token
                      => call[r].id = call[q].id
      BY <1>1, <2>1, <3>2, <3>3, <3>5, <3>6 DEF Unspent, Others
    <3>7. ASSUME row.refresh \in spent'
          PROVE  \E q \in Proc : call'[q].pc = "write" /\ row.id = call'[q].id
      <4>1. CASE row.refresh = call[p].token
        <5>1. row.id = call[p].id
          BY <1>1, <2>1, <4>1 DEF Unspent, Presenting
        <5> QED BY <3>4, <5>1
      <4>2. CASE row.refresh \in spent
        <5>1. PICK q \in Proc : call[q].pc = "write" /\ row.id = call[q].id
          BY <1>1, <4>2 DEF Unspent
        <5> QED BY <2>1, <5>1 DEF Others
      <4> QED BY <3>2, <3>7, <4>1, <4>2
    <3>8. u \in Token \ spent' /\ rotating'
      BY <2>1, <3>2
    <3>9. \A q \in Proc \ {p} : call'[q] = call[q]
      BY <2>1 DEF Others
    <3> QED BY <2>1, <3>3, <3>4, <3>6, <3>7, <3>8, <3>9 DEF Unspent
  <2>4. QED
    BY <1>7, <2>2, <2>3, Effect
<1>8. ASSUME NEW p \in Proc, Write(p)
      PROVE  Unspent'
  <2>1. spent' = spent /\ rotating' = rotating /\ At(p, "write") /\ Moves(p, "leave")
    BY <1>8, Effect DEF Write, envVars
  <2>2. \A q \in Proc \ {p} : call[q].pc \in Presenting =>
          call[q].id # call[p].id /\ call[q].token # call[p].token
    <3>1. ASSUME NEW q \in Proc \ {p}, call[q].pc \in Presenting
          PROVE  call[q].id # call[p].id
      BY <2>1, <3>1, Alone DEF Presenting, Inside
    <3> QED BY <1>1, <2>1, <3>1 DEF Unspent, Presenting
  <2>3. call[p].token \in Token \ spent
    BY <1>1, <2>1 DEF Unspent, Presenting
  <2>4. /\ call'[p].pc \notin Presenting /\ \A q \in Proc \ {p} : call'[q] = call[q]
    BY <2>1 DEF Others, Presenting
  <2>5. CASE row.id = call[p].id
    <3>1. /\ row'.refresh = IF rotating THEN call[p].token ELSE row.refresh
          /\ row'.id = row.id
      <4>1. row \in Row \cup {NoRow}
        BY DEF TypeOK
      <4> QED BY <1>8, <2>5, <4>1 DEF Write, Row, NoRow
    <3>2. row'.refresh \notin spent
      BY <1>1, <2>3, <3>1 DEF Unspent
    <3>3. \A q \in Proc \ {p} : call[q].pc \in Presenting => call[q].token # row'.refresh
      BY <1>1, <2>2, <2>5, <3>1 DEF Unspent
    <3> QED BY <1>1, <2>1, <2>4, <3>2, <3>3 DEF Unspent
  <2>6. CASE row.id # call[p].id
    <3>1. row' = row
      BY <1>8, <2>6 DEF Write
    <3>2. row.refresh \in spent =>
            \E q \in Proc \ {p} : call[q].pc = "write" /\ row.id = call[q].id
      BY <1>1, <2>6 DEF Unspent
    <3> QED BY <1>1, <2>1, <2>4, <3>1, <3>2 DEF Unspent
  <2> QED BY <2>5, <2>6
<1>9. ASSUME NEW p \in Proc, MarkRevoked(p)
      PROVE  Unspent'
  <2>1. spent' = spent /\ rotating' = rotating /\ At(p, "revoked") /\ Moves(p, "leave")
    BY <1>9, Effect DEF MarkRevoked, envVars
  <2>2. CASE row' = row
    BY <1>1, <2>1, <2>2, UnspentKept DEF Presenting
  <2>3. CASE row'.refresh = NoToken
    <3>1. \A q \in Proc : call[q].pc \in Presenting => call[q].token # NoToken
      BY <1>1 DEF Unspent, VaultAssumption
    <3>2. QED
      BY <1>1, <2>1, <2>3, <3>1, UnspentStored DEF Presenting
  <2>4. QED
    BY <1>9, <2>2, <2>3 DEF MarkRevoked, TypeOK, Row, NoRow
<1>10. ASSUME NEW p \in Proc, Update(p) \/ Upsert(p) \/ Create(p)
       PROVE  Unspent'
  <2>1. /\ call[p].pc \in Connecting /\ Others(p)
        /\ call[p].pc # "write" /\ call'[p].pc \notin Presenting
    BY <1>10, Effect DEF Connecting, Presenting
  <2>2. spent' = spent /\ rotating' = rotating
    BY <1>10 DEF Update, Upsert, Create, envVars
  <2>3. CASE row' = row
    BY <1>1, <2>1, <2>2, <2>3, UnspentKept
  <2>4. CASE row'.refresh = call[p].token
    BY <1>1, <2>1, <2>2, <2>4, UnspentStored DEF Unshared
  <2>5. QED
    BY <1>10, <2>3, <2>4 DEF Update, Upsert, Create, Connected, rowVars
<1>11. ASSUME NEW p \in Proc, Delete(p)
       PROVE  Unspent'
  <2>1. spent' = spent /\ rotating' = rotating /\ At(p, "delete") /\ Ends(p)
    BY <1>11, Effect DEF Delete, envVars
  <2>2. CASE row' = row
    BY <1>1, <2>1, <2>2, UnspentKept DEF Presenting
  <2>3. CASE row'.refresh = NoToken
    <3>1. \A q \in Proc : call[q].pc \in Presenting => call[q].token # NoToken
      BY <1>1 DEF Unspent, VaultAssumption
    <3>2. QED
      BY <1>1, <2>1, <2>3, <3>1, UnspentStored DEF Presenting
  <2>4. QED
    BY <1>11, <2>2, <2>3 DEF Delete, NoRow, rowVars
<1>12. ASSUME NEW p \in Proc, Throw(p) \/ Crash(p)
       PROVE  Unspent'
  <2>1. call[p].pc # "write" /\ UNCHANGED <<row, spent, rotating>>
    BY <1>12 DEF Throw, Crash, rowVars
  <2>2. Others(p) /\ call'[p].pc \notin Presenting
    BY <1>12, Effect DEF Presenting
  <2>3. QED
    BY <1>1, <2>1, <2>2, UnspentKept
<1>13. CASE \E p \in Proc : Lapse(p)
  BY <1>13 DEF Lapse
<1>14. CASE UNCHANGED <<call, row, spent, rotating>>
  BY <1>2, <1>14
<1>15. QED
  BY <1>3, <1>4, <1>5, <1>6, <1>7, <1>8, <1>9, <1>10, <1>11, <1>12, <1>13, <1>14
  DEF Next, GetAccessToken, Complete, Forget, vars, rowVars, envVars, Withdraw, Age,
      RotateKey, ExpireLock

(***************************************************************************)
(* The theorems.                                                           *)
(***************************************************************************)

\* The invariant holds initially.
LEMMA VaultInit ==
  ASSUME VaultAssumption, Init
  PROVE  VaultInv
<1> USE DEF Init
<1>1. TypeOK
  <2>1. call \in [Proc -> Call] /\ row \in Row \cup {NoRow}
    BY RestType
  <2>2. /\ trail \in [Id -> [connected: 0..1, disconnected: 0..1]]
        /\ exchanged \in [State -> Nat]
    OBVIOUS
  <2>3. key \in 1..MaxKey /\ faults \in 0..MaxFaults
    BY DEF VaultAssumption
  <2>4. QED
    BY <2>1, <2>2, <2>3 DEF TypeOK
<1>2. \A p \in Proc : call[p].pc = "idle" /\ call[p].token = 0 /\ call[p].id = 0
  BY DEF Rest
<1>3. LockInv /\ Named /\ Unshared
  BY <1>2 DEF VaultAssumption, LockInv, LockReturned, Named, ById, Unshared, Connecting, Inside
<1>4. StateInv
  BY DEF StateInv, StateOnce
<1>5. Accounted
  BY DEF Accounted, NoRow, Id
<1>6. Unspent
  BY <1>2 DEF Unspent, Presenting, At
<1>7. QED
  BY <1>1, <1>3, <1>4, <1>5, <1>6 DEF VaultInv

\* Every step keeps it.
LEMMA VaultStep ==
  ASSUME VaultAssumption, VaultInv, [Next]_vars
  PROVE  VaultInv'
BY TypeStep, LockStep, StateStep, NamedStep, AccountedStep, UnsharedStep, UnspentStep
DEF VaultInv

\* The invariant of getAccessToken, the connect flow and disconnect holds in
\* every state, for any number of processes, states, tokens and faults.
THEOREM VaultSafe == Spec => []VaultInv
<1>1. Init => VaultInv
  BY VaultAssumption, VaultInit
<1>2. VaultInv /\ [Next]_vars => VaultInv'
  BY VaultAssumption, VaultStep
<1>3. QED
  BY <1>1, <1>2, PTL DEF Spec

\* Every variable keeps to its type.
THEOREM VaultTypes == Spec => []TypeOK
BY VaultSafe, PTL DEF VaultInv

\* Of the processes in withMutex's critical section, those whose lock did not
\* run out have it to themselves.
THEOREM OneRefresher == Spec => []RefreshAlone
<1>1. VaultInv => RefreshAlone
  BY DEF VaultInv, LockInv, RefreshAlone
<1>2. QED
  BY <1>1, VaultSafe, PTL

\* withMutex leaves no lock with a process that is not inside.
THEOREM LocksComeBack == Spec => []LockReturned
<1>1. VaultInv => LockReturned
  BY DEF VaultInv, LockInv
<1>2. QED
  BY <1>1, VaultSafe, PTL

\* getAccessToken is never refused for a refresh token that we spent, unless a
\* lock ran out or an answer of the provider was lost.
THEOREM TokensSpentOnce == Spec => []NeverSpendsTwice
<1>1. VaultInv => NeverSpendsTwice
  BY DEF VaultInv, Unspent, Presenting, NeverSpendsTwice, At
<1>2. QED
  BY <1>1, VaultSafe, PTL

\* consumeOAuthState lets a state lead to one exchange at most.
THEOREM StatesUsedOnce == Spec => []StateOnce
<1>1. VaultInv => StateOnce
  BY DEF VaultInv, StateInv
<1>2. QED
  BY <1>1, VaultSafe, PTL

\* The events of connects and disconnects account for the row.
THEOREM TrailAccounts == Spec => []Accounted
<1>1. VaultInv => Accounted
  BY DEF VaultInv
<1>2. QED
  BY <1>1, VaultSafe, PTL

(***************************************************************************)
(* What markRevoked drops.  The refused token is the one that was read     *)
(* under the lock, and the write is by the row's id.  Two things can put   *)
(* another token into the row in between: a reconnect, which takes no      *)
(* lock, and a second refresher, when the lock has run out.                *)
(***************************************************************************)

ReconnectsApart ==
  \A p \in Proc : (Update(p) \/ Upsert(p)) /\ row' # row =>
    \A q \in Proc : call[q].pc \notin {"provider", "revoked"}
NoneLapses == \A p \in Proc : ~Lapse(p)

Refreshing == Inside \cup {"wait"}

\* The mailbox a refresher is at was connected: its id is never given again.
Known ==
  \A p \in Proc : call[p].pc \in Refreshing =>
    call[p].id \in Id /\ trail[call[p].id].connected = 1

\* The row of a mailbox still has the token a refresher took to the provider,
\* and one that was refused stays refused.
Held(p) ==
  /\ call[p].pc \in {"provider", "revoked"} /\ row.id = call[p].id =>
       row.refresh \in {call[p].token, NoToken}
  /\ At(p, "revoked") => call[p].token \notin live

DropInv == lapsed = {} /\ Known /\ \A p \in Proc : Held(p)

LEMMA KnownStep ==
  ASSUME VaultAssumption, TypeOK, Accounted, Known, [Next]_vars
  PROVE  Known'
<1> USE DEF At, Ends, Moves, Becomes
<1>0. trail \in [Id -> [connected: 0..1, disconnected: 0..1]] /\ row \in Row \cup {NoRow}
  BY DEF TypeOK
<1>1. \A i \in Id : trail[i].connected = 1 => trail'[i].connected = 1
  <2>1. ASSUME NEW p \in Proc, Create(p), NEW i \in Id, trail[i].connected = 1
        PROVE  trail'[i].connected = 1
    <3>1. \/ trail' = trail
          \/ \E j \in Id : /\ trail[j].connected = 0
                           /\ trail' = [trail EXCEPT ![j].connected = @ + 1]
      BY <2>1 DEF Create, NewId, rowVars
    <3> QED BY <1>0, <2>1, <3>1
  <2>2. ASSUME NEW p \in Proc, Delete(p), NEW i \in Id, trail[i].connected = 1
        PROVE  trail'[i].connected = 1
    <3>1. \/ trail' = trail
          \/ trail' = [trail EXCEPT ![row.id].disconnected = @ + 1]
      BY <2>2 DEF Delete, rowVars
    <3> QED BY <1>0, <2>2, <3>1
  <2>3. CASE trail' = trail
    BY <2>3
  <2> QED
    BY <2>1, <2>2, <2>3 DEF Next, vars, rowVars, Withdraw, Age, Falter, RotateKey, ExpireLock,
      Start, Acquire, TimeOut, GetAccessToken, Reread, Refresh, Write, MarkRevoked, Release,
      Lapse, Consume, Complete, Exchange, Lookup, Update, Upsert, Disconnect, Forget,
      StopWatch, ReadGrant, Kill, Throw, Crash
<1>2. ASSUME NEW p \in Proc, Others(p),
             call'[p].pc \in Refreshing =>
               \/ call[p].pc \in Refreshing /\ call'[p].id = call[p].id
               \/ row.id # 0 /\ call'[p].id = row.id
      PROVE  Known'
  <2>1. row.id # 0 => row.id \in Id /\ trail[row.id].connected = 1
    BY <1>0 DEF Row, NoRow, Accounted
  <2> QED BY <1>1, <1>2, <2>1 DEF Known, Others
<1>3. ASSUME NEW p \in Proc, Start(p)
      PROVE  Known'
  <2>1. Others(p) /\ call'[p].id = row.id /\ row.id # 0
    BY <1>3, Effect DEF Start
  <2> QED BY <1>2, <2>1
<1>4. ASSUME NEW p \in Proc,
             \/ Acquire(p) \/ Reread(p) \/ Refresh(p) \/ Write(p) \/ MarkRevoked(p)
      PROVE  Known'
  <2>1. Others(p) /\ call'[p].id = call[p].id /\ call[p].pc \in Refreshing
    BY <1>4, Effect DEF Refreshing, Inside
  <2> QED BY <1>2, <2>1
<1>5. ASSUME NEW p \in Proc,
             \/ TimeOut(p) \/ Release(p) \/ Disconnect(p) \/ Exchange(p) \/ Lookup(p)
             \/ Update(p) \/ Create(p) \/ Upsert(p) \/ StopWatch(p) \/ ReadGrant(p)
             \/ Kill(p) \/ Delete(p) \/ Crash(p) \/ \E s \in State : Consume(p, s)
      PROVE  Known'
  <2>1. Others(p) /\ call'[p].pc \notin Refreshing
    BY <1>5, Effect DEF Refreshing, Inside
  <2> QED BY <1>2, <2>1
<1>6. ASSUME NEW p \in Proc, Throw(p)
      PROVE  Known'
  <2>1. \/ call[p].pc \in Refreshing /\ Moves(p, "leave")
        \/ Ends(p)
    BY <1>6, Effect DEF Refreshing
  <2>2. CASE Ends(p)
    BY <1>2, <2>2 DEF Refreshing, Inside
  <2>3. CASE call[p].pc \in Refreshing /\ Moves(p, "leave")
    BY <1>2, <2>3
  <2> QED BY <2>1, <2>2, <2>3
<1>7. CASE call' = call
  BY <1>1, <1>7 DEF Known
<1> QED
  BY <1>3, <1>4, <1>5, <1>6, <1>7 DEF Next, vars, Withdraw, Age, Falter, RotateKey,
    ExpireLock, GetAccessToken, Lapse, Complete, Forget

\* Refreshers who have their lock are alone at their row.
LEMMA AloneInside ==
  ASSUME LockInv, lapsed = {}, NEW p \in Proc, call[p].pc \in Inside,
         NEW q \in Proc, call[q].pc \in Inside, call[p].id = call[q].id
  PROVE  p = q
BY DEF LockInv

\* A step of p that is not to the provider, puts no token into the row that
\* another refresher is at, and grants no token that is in use.
LEMMA HeldKept ==
  ASSUME TypeOK, NEW p \in Proc, Others(p), \A q \in Proc : Held(q),
         call'[p].pc \notin {"provider", "revoked"},
         \A q \in Proc \ {p} :
           call[q].pc \in {"provider", "revoked"} /\ row'.id = call[q].id =>
             row'.refresh = NoToken \/ (row'.id = row.id /\ row'.refresh = row.refresh),
         \A q \in Proc : call[q].token \in live' => call[q].token \in live
  PROVE  \A q \in Proc : Held(q)'
<1> SUFFICES ASSUME NEW q \in Proc PROVE Held(q)'
  OBVIOUS
<1>1. CASE q = p
  BY <1>1 DEF Held, At
<1>2. CASE q # p
  <2>1. call'[q] = call[q]
    BY <1>2 DEF Others
  <2> QED BY <1>2, <2>1 DEF Held, At
<1> QED BY <1>1, <1>2

LEMMA HeldStep ==
  ASSUME VaultAssumption, VaultInv, DropInv, [Next]_vars, ReconnectsApart
  PROVE  \A q \in Proc : Held(q)'
<1> USE DEF At, Ends, Moves, Becomes
<1>t. TypeOK /\ LockInv /\ Accounted /\ \A q \in Proc : Held(q)
  BY DEF VaultInv, DropInv
<1>l. \A p, q \in Proc :
        call[p].pc \in Inside /\ call[q].pc \in Inside /\ call[p].id = call[q].id => p = q
  BY <1>t, AloneInside DEF DropInv
<1>u. \A u \in Token : NewToken(u) => \A q \in Proc : call[q].token # u
  BY DEF NewToken, InUse
<1>1. CASE UNCHANGED <<call, live>> /\ row'.id = row.id /\ row'.refresh = row.refresh
  BY <1>t, <1>1 DEF Held
<1>2. CASE Falter
  <2>1. row'.id = row.id /\ row'.refresh = row.refresh
    BY <1>t, <1>2 DEF Falter, TypeOK, Row, NoRow
  <2> QED BY <1>1, <1>2, <2>1 DEF Falter, envVars
<1>3. CASE Withdraw
  BY <1>t, <1>3 DEF Withdraw, Held, rowVars
<1>4. ASSUME NEW p \in Proc,
             \/ Start(p) \/ Acquire(p) \/ TimeOut(p) \/ Release(p) \/ Disconnect(p)
             \/ StopWatch(p) \/ ReadGrant(p) \/ Lookup(p) \/ \E s \in State : Consume(p, s)
      PROVE  \A q \in Proc : Held(q)'
  <2>1. Others(p) /\ call'[p].pc \notin {"provider", "revoked"}
    BY <1>t, <1>4, Effect
  <2>2. UNCHANGED <<row, live>>
    BY <1>4 DEF Start, Acquire, TimeOut, Release, Disconnect, StopWatch, ReadGrant,
                Lookup, Consume, rowVars, envVars
  <2> QED BY <1>t, <2>1, <2>2, HeldKept
<1>5. ASSUME NEW p \in Proc, Exchange(p) \/ Kill(p)
      PROVE  \A q \in Proc : Held(q)'
  <2>1. Others(p) /\ call'[p].pc \notin {"provider", "revoked"} /\ row' = row
    BY <1>t, <1>5, Effect DEF Exchange, Kill, rowVars
  <2>2. \/ live' \subseteq live
        \/ \E u \in Token : NewToken(u) /\ live' = live \cup {u}
    BY <1>5 DEF Exchange, Kill
  <2> QED BY <1>t, <1>u, <2>1, <2>2, HeldKept
<1>6. ASSUME NEW p \in Proc, Reread(p)
      PROVE  \A q \in Proc : Held(q)'
  <2>1. UNCHANGED <<row, live>> /\ Others(p)
    BY <1>t, <1>6, Effect DEF Reread, rowVars, envVars
  <2>2. CASE Moves(p, "leave")
    BY <1>t, <2>1, <2>2, HeldKept
  <2>3. CASE Becomes(p, "provider", call[p].id, row.refresh)
    BY <1>t, <2>1, <2>3 DEF Held, Others
  <2> QED BY <1>t, <1>6, <2>2, <2>3, Effect
<1>7. ASSUME NEW p \in Proc, Refresh(p)
      PROVE  \A q \in Proc : Held(q)'
  <2>1. row' = row /\ Others(p) /\ call[p].pc = "provider"
    BY <1>t, <1>7, Effect DEF Refresh, rowVars
  <2>2. CASE call[p].token \notin live /\ Move(p, "revoked") /\ live' = live
    <3>1. call'[p].pc = "revoked" /\ call'[p].token = call[p].token /\ call'[p].id = call[p].id
      BY <1>t, <2>2, MoveMoves
    <3> QED BY <1>t, <2>1, <2>2, <3>1 DEF Held, Others
  <2>3. CASE call[p].token \in live
    <3>1. \/ Move(p, "write") /\ live' = live
          \/ \E u \in Token :
               /\ Rotate(call[p].token, u)
               /\ Goto(p, [call[p] EXCEPT !.pc = "write", !.token = u])
      BY <1>7, <2>3 DEF Refresh
    <3>2. CASE Move(p, "write") /\ live' = live
      <4>1. call'[p].pc = "write"
        BY <1>t, <3>2, MoveMoves
      <4> QED BY <1>t, <2>1, <3>2, <4>1, HeldKept
    <3>3. ASSUME NEW u \in Token, Rotate(call[p].token, u),
                 Goto(p, [call[p] EXCEPT !.pc = "write", !.token = u])
          PROVE  \A q \in Proc : Held(q)'
      <4>1. call'[p].pc = "write"
        BY <1>t, <3>3 DEF Goto, TypeOK, Call
      <4>2. NewToken(u) /\ live' = (live \ {call[p].token}) \cup {u}
        BY <3>3 DEF Rotate
      <4> QED BY <1>t, <1>u, <2>1, <4>1, <4>2, HeldKept
    <3> QED BY <3>1, <3>2, <3>3
  <2>4. \/ call[p].token \notin live /\ Move(p, "revoked") /\ live' = live
        \/ call[p].token \in live
    BY <1>7 DEF Refresh, Rotate
  <2> QED BY <2>2, <2>3, <2>4
<1>8. ASSUME NEW p \in Proc, Write(p) \/ MarkRevoked(p)
      PROVE  \A q \in Proc : Held(q)'
  <2>1. Others(p) /\ call[p].pc \in Inside /\ call'[p].pc = "leave" /\ live' = live
    BY <1>t, <1>8, Effect DEF Write, MarkRevoked, envVars, Inside
  <2>2. \A q \in Proc \ {p} : call[q].pc \in {"provider", "revoked"} => call[q].id # call[p].id
    BY <1>l, <2>1 DEF Inside
  <2>3. row' = row \/ (row.id = call[p].id /\ row'.id = row.id)
    BY <1>t, <1>8 DEF Write, MarkRevoked, TypeOK, Row, NoRow
  <2> QED BY <1>t, <2>1, <2>2, <2>3, HeldKept
<1>9. ASSUME NEW p \in Proc, Update(p) \/ Upsert(p)
      PROVE  \A q \in Proc : Held(q)'
  <2>1. Others(p) /\ call'[p].pc = "idle" /\ live' = live
    BY <1>t, <1>9, Effect DEF Update, Upsert, envVars
  <2>2. CASE row' = row
    BY <1>t, <2>1, <2>2, HeldKept
  <2>3. CASE row' # row
    <3>1. \A q \in Proc : call[q].pc \notin {"provider", "revoked"}
      BY <1>9, <2>3 DEF ReconnectsApart
    <3> QED BY <1>t, <2>1, <3>1, HeldKept
  <2> QED BY <2>2, <2>3
<1>10. ASSUME NEW p \in Proc, Create(p)
       PROVE  \A q \in Proc : Held(q)'
  <2>1. Others(p) /\ call'[p].pc \notin {"provider", "revoked"} /\ live' = live
    BY <1>t, <1>10, Effect DEF Create, envVars
  <2>2. CASE row' = row
    BY <1>t, <2>1, <2>2, HeldKept
  <2>3. CASE row' # row
    <3>1. PICK i \in Id : trail[i].connected = 0 /\ row'.id = i
      BY <1>10, <2>3 DEF Create, NewId, Connected, rowVars
    <3>2. \A q \in Proc : call[q].pc \in {"provider", "revoked"} => call[q].id # i
      BY <3>1 DEF DropInv, Known, Refreshing, Inside
    <3> QED BY <1>t, <2>1, <3>1, <3>2, HeldKept
  <2> QED BY <2>2, <2>3
<1>11. ASSUME NEW p \in Proc, Delete(p)
       PROVE  \A q \in Proc : Held(q)'
  <2>1. Others(p) /\ call'[p].pc = "idle" /\ live' = live
    BY <1>t, <1>11, Effect DEF Delete, envVars
  <2>2. row' = row \/ row'.refresh = NoToken
    BY <1>11 DEF Delete, NoRow, rowVars
  <2> QED BY <1>t, <2>1, <2>2, HeldKept
<1>12. ASSUME NEW p \in Proc, Throw(p) \/ Crash(p)
       PROVE  \A q \in Proc : Held(q)'
  <2>1. Others(p) /\ call'[p].pc \notin {"provider", "revoked"}
    BY <1>t, <1>12, Effect
  <2>2. row' = row
    BY <1>12 DEF Throw, Crash, rowVars
  <2>3. \/ live' = live
        \/ \E u \in Token : NewToken(u) /\ live' = (live \ {call[p].token}) \cup {u}
    BY <1>12 DEF Throw, Crash, Rotate
  <2> QED BY <1>t, <1>u, <2>1, <2>2, <2>3, HeldKept
<1>13. CASE UNCHANGED <<call, live, row>>
  BY <1>1, <1>13
<1> QED
  BY <1>2, <1>3, <1>4, <1>5, <1>6, <1>7, <1>8, <1>9, <1>10, <1>11, <1>12, <1>13
  DEF Next, GetAccessToken, Complete, Forget, vars, rowVars, envVars, Age, RotateKey,
      ExpireLock, Lapse

LEMMA NoneLapsed ==
  ASSUME lapsed = {}, [Next]_vars, NoneLapses
  PROVE  lapsed' = {}
BY DEF NoneLapses, Next, vars, lockVars, Withdraw, Age, Falter, RotateKey, ExpireLock, Start,
  Acquire, TimeOut, GetAccessToken, Reread, Refresh, Write, MarkRevoked, Release, Consume,
  Complete, Exchange, Lookup, Update, Create, Upsert, Disconnect, Forget, StopWatch,
  ReadGrant, Kill, Delete, Throw, Crash, Leave

LEMMA DropStep ==
  ASSUME VaultInv, DropInv, [Next]_vars, ReconnectsApart, NoneLapses
  PROVE  DropInv'
BY VaultAssumption, KnownStep, HeldStep, NoneLapsed DEF DropInv, VaultInv

\* markRevoked drops no token that the provider still accepts, unless a
\* reconnect is stored under a refresh that is at the provider, or a lock runs
\* out: those two are all that can make a user reconnect for nothing.
THEOREM DropsOnlyDeadUnlessRaced ==
  Spec => ([][ReconnectsApart /\ NoneLapses]_vars => DropsOnlyDead)
<1>1. Init => DropInv
  BY DEF Init, DropInv, Known, Held, At, Rest, Refreshing, Inside
<1>2. VaultInv /\ DropInv /\ [Next]_vars /\ [ReconnectsApart /\ NoneLapses]_vars => DropInv'
  <2>1. CASE UNCHANGED vars
    BY <2>1 DEF DropInv, Known, Held, At, vars, rowVars, envVars, lockVars
  <2> QED BY <2>1, DropStep
<1>3. VaultInv /\ DropInv /\ [Next]_vars =>
        [\A p \in Proc : MarkRevoked(p) /\ row.refresh # row'.refresh =>
           row.refresh \notin live]_vars
  <2> SUFFICES ASSUME VaultInv, DropInv, NEW p \in Proc, MarkRevoked(p), row.refresh # row'.refresh
               PROVE  row.refresh \notin live
    OBVIOUS
  <2>1. row.id = call[p].id /\ call[p].pc = "revoked"
    BY DEF MarkRevoked, At
  <2>2. row.refresh \in {call[p].token, NoToken} /\ call[p].token \notin live
    BY <2>1 DEF DropInv, Held, At
  <2>3. NoToken \notin live
    BY VaultAssumption DEF VaultInv, TypeOK, VaultAssumption
  <2> QED BY <2>2, <2>3
<1> QED BY <1>1, <1>2, <1>3, VaultSafe, PTL DEF Spec, DropsOnlyDead

(******************************** Access ***********************************)

\* The operations the filter is put on.
Filtered(model, op) ==
  \/ op \in FilteredOps /\ Tenancy[model] # <<>>
  \/ op = "upsert" /\ Direct(model)

\* The rows of a user.
RowsOf(user, owner) == {r \in DOMAIN owner : owner[r] = user}

LEMMA NarrowedRow ==
  ASSUME NEW model, NEW op, NEW where, NEW user, NEW owner, Filtered(model, op), NEW r
  PROVE  r \in Reached(model, op, where, user, owner) <=>
           /\ r \in RowsOf(user, owner)
           /\ \A k \in DOMAIN where : k # Head(Tenancy[model]) => r \in where[k]
<1> DEFINE column == Head(Tenancy[model])
           mine == RowsOf(user, owner)
           filter == TenantFilter(model, user, owner)
           narrowed == Narrowed(model, op, where, user, owner)
<1>1. DOMAIN filter = {column} /\ filter[column] = mine
  BY DEF TenantFilter, RowsOf
<1>2. narrowed = [k \in DOMAIN filter \cup DOMAIN where |->
                    IF k \in DOMAIN filter THEN filter[k] ELSE where[k]]
  BY DEF Narrowed, Filtered
<1>3. mine \subseteq DOMAIN owner
  BY DEF RowsOf
<1> HIDE DEF filter, column, mine, narrowed
<1>4. /\ DOMAIN narrowed = {column} \cup DOMAIN where /\ narrowed[column] = mine
      /\ \A k \in DOMAIN where : k # column => narrowed[k] = where[k]
  BY <1>1, <1>2
<1>5. (r \in DOMAIN owner /\ \A k \in DOMAIN narrowed : r \in narrowed[k]) <=>
        r \in mine /\ \A k \in DOMAIN where : k # column => r \in where[k]
  BY <1>3, <1>4
<1> QED BY <1>5 DEF Reached, Selected, narrowed, column, mine

\* What a narrowed operation reaches: the user's rows that meet the caller's
\* conditions, but the one on the filter's own key, which is lost.
THEOREM NarrowedReach ==
  ASSUME NEW model \in Model, NEW op, NEW where, NEW user, NEW owner, Filtered(model, op)
  PROVE  Reached(model, op, where, user, owner) =
           {r \in RowsOf(user, owner) :
              \A k \in DOMAIN where \ {Head(Tenancy[model])} : r \in where[k]}
BY NarrowedRow

\* And those are the only narrowed ones: whatever conditions the caller gives,
\* nobody else's row is reached, exactly where the filter is put on, or where
\* there is nobody else.
THEOREM OnlyTheUsersRows ==
  ASSUME NEW model \in Model, NEW op, NEW user, NEW owner
  PROVE  (\A where : Reached(model, op, where, user, owner) \subseteq RowsOf(user, owner))
           <=> Filtered(model, op) \/ RowsOf(user, owner) = DOMAIN owner
<1> DEFINE all == [k \in {} |-> {}]
<1>1. ASSUME Filtered(model, op), NEW where
      PROVE  Reached(model, op, where, user, owner) \subseteq RowsOf(user, owner)
  BY <1>1, NarrowedRow
<1>2. ASSUME NEW where PROVE Reached(model, op, where, user, owner) \subseteq DOMAIN owner
  BY DEF Reached, Selected
<1>3. ASSUME ~Filtered(model, op) PROVE Reached(model, op, all, user, owner) = DOMAIN owner
  <2>1. Narrowed(model, op, all, user, owner) = all
    BY <1>3 DEF Narrowed, Filtered
  <2>2. Selected(all, DOMAIN owner) = DOMAIN owner
    BY DEF Selected
  <2> QED BY <2>1, <2>2 DEF Reached
<1>4. RowsOf(user, owner) \subseteq DOMAIN owner
  BY DEF RowsOf
<1> HIDE DEF all
<1> QED BY <1>1, <1>2, <1>3, <1>4

\* A token says who it is for: the API runs a request as the viewer the web
\* application saw, a reader as that reader and a visit of the demo as that
\* visit, or not at all, and that only where its own demo is off.
THEOREM TheViewerArrives ==
  ASSUME NEW session, NEW visit, NEW webDemo \in BOOLEAN, NEW apiDemo \in BOOLEAN,
         session # DEMO_USER_ID, visit # "malformed",
         getViewer(session, visit, webDemo) # Refused
  PROVE  LET viewer == getViewer(session, visit, webDemo)
         IN  sessionOf(mintInternalToken(viewer), apiDemo) =
               IF viewer.visit # "none" /\ ~apiDemo THEN Refused
               ELSE [id |-> viewer.userId, demo |-> viewer.visit # "none",
                     visit |-> viewer.visit]
<1>1. CASE session # "none"
  BY <1>1 DEF getViewer, mintInternalToken, sessionOf, isDemoUserId, DEMO_USER_ID
<1>2. CASE session = "none" /\ webDemo /\ visit # "none"
  <2> DEFINE token == [sub |-> DEMO_USER_ID, ses |-> "demo", sid |-> visit]
  <2>1. getViewer(session, visit, webDemo) = [userId |-> DEMO_USER_ID, visit |-> visit]
    BY <1>2 DEF getViewer
  <2>2. mintInternalToken([userId |-> DEMO_USER_ID, visit |-> visit]) = token
    BY <1>2 DEF mintInternalToken
  <2>3. token.sub = DEMO_USER_ID /\ token.ses = "demo" /\ token.sid = visit
    OBVIOUS
  <2> HIDE DEF token
  <2>4. sessionOf(token, apiDemo) =
          IF ~apiDemo THEN Refused ELSE [id |-> DEMO_USER_ID, demo |-> TRUE, visit |-> visit]
    BY <1>2, <2>3 DEF sessionOf, isDemoUserId, DEMO_USER_ID
  <2> DEFINE viewer == getViewer(session, visit, webDemo)
  <2>5. viewer.userId = DEMO_USER_ID /\ viewer.visit = visit
    BY <2>1
  <2>6. mintInternalToken(viewer) = token
    BY <2>1, <2>2
  <2> HIDE DEF viewer
  <2>7. (viewer.visit # "none") = TRUE
    BY <1>2, <2>5
  <2>8. sessionOf(mintInternalToken(viewer), apiDemo) =
          IF viewer.visit # "none" /\ ~apiDemo THEN Refused
          ELSE [id |-> viewer.userId, demo |-> viewer.visit # "none", visit |-> viewer.visit]
    BY <2>4, <2>5, <2>6, <2>7
  <2> QED BY <2>8 DEF viewer
<1> QED BY <1>1, <1>2 DEF getViewer

\* Whatever a token claims, a session of the demo is the demo user's and no
\* other is, the demo is on, and the visit has a name of its own to be rationed by.
THEOREM KindsStayApart ==
  ASSUME NEW payload, NEW demoMode \in BOOLEAN, sessionOf(payload, demoMode) # Refused
  PROVE  LET user == sessionOf(payload, demoMode)
         IN  /\ user.id = payload.sub /\ user.id # "none"
             /\ user.demo <=> isDemoUserId(user.id)
             /\ user.demo => demoMode /\ user.visit \notin {"none", "malformed"}
<1> DEFINE kind == IF payload.ses = "absent" THEN "user" ELSE payload.ses
<1>1. /\ payload.sub # "none" /\ kind \in {"user", "demo"}
      /\ kind = "user" => ~isDemoUserId(payload.sub)
      /\ kind = "demo" => /\ demoMode /\ isDemoUserId(payload.sub)
                         /\ payload.sid \notin {"none", "malformed"}
  BY DEF sessionOf
<1> HIDE DEF kind
<1>2. sessionOf(payload, demoMode) =
        IF kind = "user" THEN [id |-> payload.sub, demo |-> FALSE, visit |-> "none"]
        ELSE [id |-> payload.sub, demo |-> TRUE, visit |-> payload.sid]
  BY <1>1 DEF sessionOf, kind
<1>3. CASE kind = "user"
  BY <1>1, <1>2, <1>3 DEF isDemoUserId
<1>4. CASE kind = "demo"
  BY <1>1, <1>2, <1>4 DEF isDemoUserId
<1> QED BY <1>1, <1>3, <1>4

\* A visit's requests before the i-th of the hour.
Asked(asking, v, i) == {j \in 1 .. i - 1 : asking[j] = v}

LEMMA AskedLess ==
  ASSUME NEW asking, NEW v, NEW i \in Nat, NEW k \in Nat, i < k, i # 0, asking[i] = v
  PROVE  /\ Cardinality(Asked(asking, v, i)) \in Nat /\ Cardinality(Asked(asking, v, k)) \in Nat
         /\ Cardinality(Asked(asking, v, i)) < Cardinality(Asked(asking, v, k))
<1>1. IsFiniteSet(1 .. k - 1)
  BY FS_Interval
<1>2. Asked(asking, v, k) \subseteq 1 .. k - 1 /\ IsFiniteSet(Asked(asking, v, k))
  BY <1>1, FS_Subset DEF Asked
<1>3. /\ Asked(asking, v, i) \subseteq Asked(asking, v, k)
      /\ i \in Asked(asking, v, k) /\ i \notin Asked(asking, v, i)
  BY DEF Asked
<1> QED BY <1>2, <1>3, FS_Subset, FS_CardinalityType

LEMMA UpTo ==
  ASSUME NEW a \in Nat, NEW b \in Nat, a <= b
  PROVE  IsFiniteSet(a .. b) /\ Cardinality(a .. b) = b - a + 1
BY FS_Interval

\* A visit gets six live calls in an hour and all visits together thirty,
\* whoever asks in whatever order, and however often.
THEOREM RationsHold ==
  ASSUME NEW visits, NEW asking \in Seq(visits), NEW v \in visits
  PROVE  LET granted == {i \in DOMAIN asking : Granted(visits, asking)[i]}
         IN  /\ Cardinality({i \in granted : asking[i] = v}) <= PER_SESSION_PER_HOUR
             /\ Cardinality(granted) <= ALL_SESSIONS_PER_HOUR
<1> DEFINE granted == {i \in DOMAIN asking : Granted(visits, asking)[i]}
           rank == [i \in {i \in granted : asking[i] = v} |-> Cardinality(Asked(asking, v, i))]
<1>1. DOMAIN asking = 1 .. Len(asking) /\ Len(asking) \in Nat
      /\ \A i \in DOMAIN asking : asking[i] \in visits
  OBVIOUS
<1>2. \A i \in granted :
        /\ i \in DOMAIN asking
        /\ Cardinality(Asked(asking, asking[i], i)) + 1 <= PER_SESSION_PER_HOUR
        /\ i - 1 + 1 <= ALL_SESSIONS_PER_HOUR
  BY <1>1 DEF Granted, takeDemoAiAllowance, Counted, Asked
<1> HIDE DEF granted
<1>3. Cardinality(granted) <= ALL_SESSIONS_PER_HOUR
  <2>1. granted \subseteq 1 .. 30
    <3> SUFFICES ASSUME NEW i \in granted PROVE i \in 1 .. 30
      OBVIOUS
    <3>1. i \in 1 .. Len(asking) /\ i - 1 + 1 <= 30
      BY <1>1, <1>2 DEF ALL_SESSIONS_PER_HOUR
    <3> QED BY <1>1, <3>1
  <2>2. IsFiniteSet(1 .. 30) /\ Cardinality(1 .. 30) = 30
    <3>1. 1 \in Nat /\ 30 \in Nat /\ 1 <= 30
      OBVIOUS
    <3>2. IsFiniteSet(1 .. 30) /\ Cardinality(1 .. 30) = 30 - 1 + 1
      BY <3>1, UpTo, Zenon
    <3> QED BY <3>2
  <2> QED BY <2>1, <2>2, FS_Subset, FS_CardinalityType DEF ALL_SESSIONS_PER_HOUR
<1>4. Cardinality({i \in granted : asking[i] = v}) <= PER_SESSION_PER_HOUR
  <2> DEFINE mine == {i \in granted : asking[i] = v}
  <2>1. \A i \in mine : i \in Nat /\ i # 0 /\ asking[i] = v
    BY <1>1, <1>2
  <2>2. \A i \in mine : Cardinality(Asked(asking, v, i)) \in 0 .. 5
    <3> SUFFICES ASSUME NEW i \in mine PROVE Cardinality(Asked(asking, v, i)) \in 0 .. 5
      OBVIOUS
    <3>1. Cardinality(Asked(asking, v, i)) \in Nat
      <4>1. i \in Nat /\ i + 1 \in Nat /\ i < i + 1 /\ i # 0 /\ asking[i] = v
        BY <2>1
      <4> QED BY <4>1, AskedLess
    <3>2. Cardinality(Asked(asking, v, i)) + 1 <= 6
      BY <1>2, <2>1 DEF PER_SESSION_PER_HOUR
    <3> QED BY <3>1, <3>2
  <2>3. rank \in Injection(mine, 0 .. 5)
    <3>1. rank \in [mine -> 0 .. 5]
      BY <2>2
    <3>2. ASSUME NEW i \in mine, NEW k \in mine, i # k PROVE rank[i] # rank[k]
      <4>1. i < k \/ k < i
        BY <2>1, <3>2
      <4> QED BY <2>1, <4>1, AskedLess
    <3> QED BY <3>1, <3>2 DEF Injection, IsInjective
  <2>4. IsFiniteSet(0 .. 5) /\ Cardinality(0 .. 5) = 6
    <3>1. 0 \in Nat /\ 5 \in Nat /\ 0 <= 5
      OBVIOUS
    <3>2. IsFiniteSet(0 .. 5) /\ Cardinality(0 .. 5) = 5 - 0 + 1
      BY <3>1, UpTo, Zenon
    <3> QED BY <3>2
  <2> HIDE DEF mine, rank
  <2>5. Cardinality(mine) <= 6
    BY <2>3, <2>4, FS_Injection
  <2> QED BY <2>5 DEF mine, PER_SESSION_PER_HOUR
<1> QED BY <1>3, <1>4 DEF granted
=============================================================================
