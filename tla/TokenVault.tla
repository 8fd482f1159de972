----------------------------- MODULE TokenVault -----------------------------
(***************************************************************************)
(* The life of one mailbox's grant: getAccessToken with its Redis mutex    *)
(* (providers/tokenManager.ts, lib/mutex.ts), the connect flow with its    *)
(* one-use state (routes/oauth.ts, lib/oauthState.ts), and connect,        *)
(* reconnect and disconnect (services/mailAccounts.ts).  The provider      *)
(* gives out refresh tokens; one that rotates takes the old one back at    *)
(* every use.  A process stands for a request or a job; it does one of     *)
(* these operations at a time, and each of its steps ends at an await.     *)
(***************************************************************************)
EXTENDS Naturals, FiniteSets

CONSTANTS
  Proc,
  State,     \* the OAuth states that are issued
  Token,     \* the refresh tokens the provider gives out, some of them again
  MaxKey,    \* bound on the versions of the encryption key
  MaxFaults  \* bound on the faults of one behaviour

NoToken == 0
Id == 1..Cardinality(State)

ASSUME VaultAssumption ==
  /\ IsFiniteSet(State)
  /\ IsFiniteSet(Token) /\ Token \subseteq Nat \ {NoToken}
  /\ MaxKey \in Nat \ {0} /\ MaxFaults \in Nat
  /\ Proc \cap {"free", "dead"} = {}

VARIABLES
  rotating,   \* the provider is one that rotates refresh tokens
  live,       \* the refresh tokens it accepts
  nonce,      \* the OAuth states issued and not consumed; one that expires is
              \* one that never is
  row,        \* the MailAccount row; its id is 0 when there is none
  fresh,      \* its access token is good for five minutes or more
  trail,      \* MailAccountEvent: how often each id was connected, disconnected
  key,        \* the version of the key this release encrypts with
  lock,       \* the mutex of each id: the process whose token is in it,
              \* "free", or "dead"
  call,       \* what each process is doing
  lapsed,     \* auxiliary: processes in the critical section without their lock
  spent,      \* auxiliary: refresh tokens taken back at a use
  exchanged,  \* auxiliary: how often each state led to an exchange
  mishap,     \* auxiliary: an answer with a rotated token may have been lost
  faults

rowVars == <<row, fresh, trail>>
flowVars == <<nonce, exchanged>>
envVars == <<rotating, live, key, spent, mishap, faults>>
lockVars == <<lock, lapsed>>
vars == <<rowVars, flowVars, envVars, lockVars, call>>

Status == {"OK", "ERROR", "REVOKED"}   \* OK stands for PENDING and what follows
NoRow == [id |-> 0, status |-> "OK", refresh |-> NoToken, key |-> 1]
Row == [id: Id, status: Status, refresh: Token \cup {NoToken}, key: 1..MaxKey]

Inside == {"reread", "provider", "write", "revoked", "leave"}
Step == Inside \cup {"idle", "wait", "exchange", "lookup", "update", "create",
                     "upsert", "stop", "revoke", "kill", "delete"}
Call == [pc: Step, id: Id \cup {0}, token: Token \cup {NoToken}, flag: BOOLEAN]
Rest == [pc |-> "idle", id |-> 0, token |-> NoToken, flag |-> FALSE]

TypeOK ==
  /\ rotating \in BOOLEAN /\ live \subseteq Token /\ spent \subseteq Token
  /\ nonce \subseteq State
  /\ row \in Row \cup {NoRow} /\ fresh \in BOOLEAN
  /\ trail \in [Id -> [connected: 0..1, disconnected: 0..1]]
  /\ key \in 1..MaxKey
  /\ lock \in [Id -> Proc \cup {"free", "dead"}] /\ lapsed \subseteq Proc
  /\ call \in [Proc -> Call]
  /\ exchanged \in [State -> Nat]
  /\ mishap \in BOOLEAN /\ faults \in 0..MaxFaults

Init ==
  /\ rotating \in BOOLEAN /\ live = {} /\ spent = {}
  /\ nonce = State
  /\ row = NoRow /\ fresh = FALSE
  /\ trail = [i \in Id |-> [connected |-> 0, disconnected |-> 0]]
  /\ key = 1
  /\ lock = [i \in Id |-> "free"] /\ lapsed = {}
  /\ call = [p \in Proc |-> Rest]
  /\ exchanged = [s \in State |-> 0]
  /\ mishap = FALSE /\ faults = 0

At(p, step) == call[p].pc = step
Goto(p, c) == call' = [call EXCEPT ![p] = c]
Move(p, step) == Goto(p, [call[p] EXCEPT !.pc = step])
Fault == faults < MaxFaults /\ faults' = faults + 1

(***************************************************************************)
(* The provider and the deployment.                                        *)
(***************************************************************************)

\* Tokens that mean something to somebody.
InUse == live \cup {row.refresh} \cup {call[p].token : p \in Proc}
NewToken(t) == t \notin InUse /\ \A u \in Token \ InUse : t <= u

\* A use of token t at a provider that rotates: u takes its place.
Rotate(t, u) ==
  /\ t \in live /\ rotating /\ NewToken(u)
  /\ live' = (live \ {t}) \cup {u}
  /\ spent' = (spent \cup {t}) \ {u}

\* The user withdraws the grant at the provider.
Withdraw ==
  /\ live # {} /\ live' = {}
  /\ UNCHANGED <<rowVars, flowVars, rotating, key, spent, mishap, faults, lockVars, call>>

\* The access token comes within five minutes of its end.
Age ==
  /\ fresh /\ fresh' = FALSE
  /\ UNCHANGED <<row, trail, flowVars, envVars, lockVars, call>>

\* A transient failure of a sync is recorded on the row.
Falter ==
  /\ row.id # 0 /\ row.status = "OK" /\ row' = [row EXCEPT !.status = "ERROR"]
  /\ UNCHANGED <<fresh, trail, flowVars, envVars, lockVars, call>>

\* A release with the next version of the key; only that key is loaded.
RotateKey ==
  /\ key < MaxKey /\ \A p \in Proc : At(p, "idle")
  /\ key' = key + 1
  /\ UNCHANGED <<rowVars, flowVars, rotating, live, spent, mishap, faults, lockVars, call>>

(***************************************************************************)
(* getAccessToken.                                                         *)
(***************************************************************************)

Usable == fresh /\ row.key = key

\* The row is read: an answer, an error, or a refresh.
Start(p) ==
  /\ At(p, "idle") /\ row.id # 0
  /\ row.status # "REVOKED" /\ ~Usable
  /\ Goto(p, [Rest EXCEPT !.pc = "wait", !.id = row.id, !.token = row.refresh])
  /\ UNCHANGED <<rowVars, flowVars, envVars, lockVars>>

\* SET NX PX succeeds on the key of this id: a refresher of a deleted row and
\* one of the row that came after it have different keys.
Acquire(p) ==
  /\ At(p, "wait") /\ lock[call[p].id] = "free"
  /\ lock' = [lock EXCEPT ![call[p].id] = p]
  /\ Move(p, "reread")
  /\ UNCHANGED <<rowVars, flowVars, envVars, lapsed>>

\* The wait's deadline passes.
TimeOut(p) ==
  /\ At(p, "wait") /\ lock[call[p].id] # "free"
  /\ Goto(p, Rest)
  /\ UNCHANGED <<rowVars, flowVars, envVars, lockVars>>

\* Mutant of Reread: the row that was read before the wait is good enough.
RereadNot(p) ==
  /\ At(p, "reread")
  /\ Move(p, "provider")
  /\ UNCHANGED <<rowVars, flowVars, envVars, lockVars>>

\* The row is read again under the lock.  Without a row, a grant or a key that
\* opens the refresh token there is an error; a token that somebody else
\* refreshed is the answer.
Reread(p) ==
  /\ At(p, "reread")
  /\ IF \/ row.id # call[p].id \/ row.status = "REVOKED" \/ Usable
        \/ row.key # key \/ row.refresh = NoToken
       THEN Move(p, "leave")
       ELSE Goto(p, [call[p] EXCEPT !.pc = "provider", !.token = row.refresh,
                       !.flag = (row.status = "ERROR")])
  /\ UNCHANGED <<rowVars, flowVars, envVars, lockVars>>

\* Mutant of Throw: the release is not in a finally block.
ThrowPast(p) ==
  /\ ~At(p, "idle") /\ Fault
  /\ Goto(p, Rest)
  /\ mishap' = (mishap \/ call[p].pc \in {"provider", "write"})
  /\ lapsed' = lapsed \ {p}
  /\ UNCHANGED <<rowVars, flowVars, rotating, live, key, spent, lock>>

\* The provider answers the refresh.
Refresh(p) ==
  /\ At(p, "provider")
  /\ \/ /\ call[p].token \notin live
        /\ Move(p, "revoked")
        /\ UNCHANGED <<live, spent>>
     \/ /\ call[p].token \in live /\ ~rotating
        /\ Move(p, "write")
        /\ UNCHANGED <<live, spent>>
     \/ \E u \in Token :
          /\ Rotate(call[p].token, u)
          /\ Goto(p, [call[p] EXCEPT !.pc = "write", !.token = u])
  /\ UNCHANGED <<rowVars, flowVars, rotating, key, mishap, faults, lockVars>>

\* The new tokens are stored under the current key; a row that is gone makes
\* the update throw.  An ERROR that was read is over.
Write(p) ==
  /\ At(p, "write")
  /\ IF row.id = call[p].id
       THEN /\ fresh' = TRUE
            /\ row' = [row EXCEPT !.key = key,
                         !.refresh = IF rotating THEN call[p].token ELSE @,
                         !.status = IF call[p].flag THEN "OK" ELSE @]
       ELSE UNCHANGED <<row, fresh>>
  /\ Move(p, "leave")
  /\ UNCHANGED <<trail, flowVars, envVars, lockVars>>

\* markRevoked drops the ciphertexts.
MarkRevoked(p) ==
  /\ At(p, "revoked")
  /\ IF row.id = call[p].id
       THEN /\ row' = [row EXCEPT !.status = "REVOKED", !.refresh = NoToken]
            /\ fresh' = FALSE
       ELSE UNCHANGED <<row, fresh>>
  /\ Move(p, "leave")
  /\ UNCHANGED <<trail, flowVars, envVars, lockVars>>

\* What is left of the lock that p has, if it has one, once p is gone.
Leave(p, l) ==
  /\ lock' = [i \in Id |-> IF lock[i] = p THEN l ELSE lock[i]]
  /\ lapsed' = lapsed \ {p}

\* Mutant of Release: the lock is deleted whoever holds it.
ReleaseAny(p) ==
  /\ At(p, "leave")
  /\ Goto(p, Rest)
  /\ lock' = [lock EXCEPT ![call[p].id] = "free"] /\ lapsed' = lapsed \ {p}
  /\ UNCHANGED <<rowVars, flowVars, envVars>>

\* The lock is deleted if it is still ours.
Release(p) ==
  /\ At(p, "leave")
  /\ Goto(p, Rest)
  /\ Leave(p, "free")
  /\ UNCHANGED <<rowVars, flowVars, envVars>>

\* The time to live of a lock that nobody will delete passes.
ExpireLock(i) ==
  /\ lock[i] = "dead" /\ lock' = [lock EXCEPT ![i] = "free"]
  /\ UNCHANGED <<rowVars, flowVars, envVars, lapsed, call>>

\* It passes while the holder is still at work.
Lapse(p) ==
  /\ call[p].pc \in Inside /\ lock[call[p].id] = p
  /\ Fault
  /\ lock' = [lock EXCEPT ![call[p].id] = "free"] /\ lapsed' = lapsed \cup {p} /\ mishap' = TRUE
  /\ UNCHANGED <<rowVars, flowVars, rotating, live, key, spent, call>>

(***************************************************************************)
(* The connect flow.                                                       *)
(***************************************************************************)

\* Mutant of Consume: the nonce is looked up and deleted later.
ConsumeLater(p, s) ==
  /\ At(p, "idle") /\ s \in nonce
  /\ Goto(p, [Rest EXCEPT !.pc = "exchange"])
  /\ exchanged' = [exchanged EXCEPT ![s] = @ + 1]
  /\ UNCHANGED <<rowVars, nonce, envVars, lockVars>>

\* The callback, which a browser may repeat: DEL says whether the nonce was
\* there; only then is the code exchanged.
Consume(p, s) ==
  /\ At(p, "idle") /\ s \in nonce
  /\ nonce' = nonce \ {s}
  /\ exchanged' = [exchanged EXCEPT ![s] = @ + 1]
  /\ Goto(p, [Rest EXCEPT !.pc = "exchange"])
  /\ UNCHANGED <<rowVars, envVars, lockVars>>

\* exchangeCode and fetchIdentity, which may yield no refresh token or fail.
Exchange(p) ==
  /\ At(p, "exchange")
  /\ \/ Goto(p, Rest) /\ UNCHANGED <<live, spent>>
     \/ \E u \in Token :
          /\ NewToken(u)
          /\ live' = live \cup {u} /\ spent' = spent \ {u}
          /\ Goto(p, [Rest EXCEPT !.pc = "lookup", !.token = u])
  /\ UNCHANGED <<rowVars, flowVars, rotating, key, mishap, faults, lockVars>>

Lookup(p) ==
  /\ At(p, "lookup")
  /\ Goto(p, [call[p] EXCEPT !.id = row.id, !.pc = IF row.id = 0 THEN "create" ELSE "update"])
  /\ UNCHANGED <<rowVars, flowVars, envVars, lockVars>>

\* What a connect writes.
Connected(i, t) == [id |-> i, status |-> "OK", refresh |-> t, key |-> key]

\* A reconnect, with its event; throws when the row is gone.
Update(p) ==
  /\ At(p, "update")
  /\ IF row.id = call[p].id
       THEN row' = Connected(row.id, call[p].token) /\ fresh' = TRUE
       ELSE UNCHANGED <<row, fresh>>
  /\ Goto(p, Rest)
  /\ UNCHANGED <<trail, flowVars, envVars, lockVars>>

NewId(i) == trail[i].connected = 0 /\ \A j \in Id : trail[j].connected = 0 => i <= j

\* A first connect, with its event; the address is unique.
Create(p) ==
  /\ At(p, "create")
  /\ \/ /\ row.id = 0
        /\ \E i \in Id :
             /\ NewId(i)
             /\ row' = Connected(i, call[p].token) /\ fresh' = TRUE
             /\ trail' = [trail EXCEPT ![i].connected = @ + 1]
        /\ Goto(p, Rest)
     \/ row.id # 0 /\ Move(p, "upsert") /\ UNCHANGED rowVars
  /\ UNCHANGED <<flowVars, envVars, lockVars>>

\* The loser of two first connects updates the winner's row, by its address.
Upsert(p) ==
  /\ At(p, "upsert")
  /\ IF row.id # 0
       THEN row' = Connected(row.id, call[p].token) /\ fresh' = TRUE
       ELSE UNCHANGED <<row, fresh>>
  /\ Goto(p, Rest)
  /\ UNCHANGED <<trail, flowVars, envVars, lockVars>>

(***************************************************************************)
(* disconnectMailAccount.                                                  *)
(***************************************************************************)

Disconnect(p) ==
  /\ At(p, "idle") /\ row.id # 0
  /\ Goto(p, [Rest EXCEPT !.pc = "stop", !.id = row.id])
  /\ UNCHANGED <<rowVars, flowVars, envVars, lockVars>>

\* stopWatchForMailbox clears its columns; throws when the row is gone.
StopWatch(p) ==
  /\ At(p, "stop")
  /\ IF row.id = call[p].id THEN Move(p, "revoke") ELSE Goto(p, Rest)
  /\ UNCHANGED <<rowVars, flowVars, envVars, lockVars>>

\* revokeMailboxGrant reads the token, unless there is none to revoke or no
\* key that opens it.
ReadGrant(p) ==
  /\ At(p, "revoke")
  /\ \/ row.id # call[p].id /\ Goto(p, Rest)
     \/ /\ row.id = call[p].id /\ row.refresh = NoToken
        /\ Goto(p, [call[p] EXCEPT !.pc = "delete", !.flag = TRUE])
     \/ /\ row.id = call[p].id /\ row.refresh # NoToken
        /\ Goto(p, [call[p] EXCEPT !.token = row.refresh,
                      !.pc = IF row.key = key /\ ~rotating THEN "kill" ELSE "delete"])
  /\ UNCHANGED <<rowVars, flowVars, envVars, lockVars>>

\* revokeAccess, best effort: revoking a token ends the whole grant.
Kill(p) ==
  /\ At(p, "kill")
  /\ \/ Move(p, "delete") /\ UNCHANGED live
     \/ /\ Goto(p, [call[p] EXCEPT !.pc = "delete", !.flag = TRUE])
        /\ live' = IF call[p].token \in live THEN {} ELSE live
  /\ UNCHANGED <<rowVars, flowVars, rotating, key, spent, mishap, faults, lockVars>>

\* Mutant of Delete: the event is written outside the transaction.
DeleteUnrolled(p) ==
  /\ At(p, "delete")
  /\ row' = (IF row.id = call[p].id THEN NoRow ELSE row)
  /\ fresh' = (fresh /\ row.id # call[p].id)
  /\ trail' = [trail EXCEPT ![call[p].id].disconnected = @ + 1]
  /\ Goto(p, Rest)
  /\ UNCHANGED <<flowVars, envVars, lockVars>>

\* Mutant of Delete: deleteMany by address.
DeleteByAddress(p) ==
  /\ At(p, "delete")
  /\ row' = NoRow /\ fresh' = FALSE
  /\ trail' = [trail EXCEPT ![call[p].id].disconnected = 1]
  /\ Goto(p, Rest)
  /\ UNCHANGED <<flowVars, envVars, lockVars>>

\* The event and the delete, together; a row that is gone undoes both.
Delete(p) ==
  /\ At(p, "delete")
  /\ IF row.id = call[p].id
       THEN /\ row' = NoRow /\ fresh' = FALSE
            /\ trail' = [trail EXCEPT ![row.id].disconnected = @ + 1]
       ELSE UNCHANGED rowVars
  /\ Goto(p, Rest)
  /\ UNCHANGED <<flowVars, envVars, lockVars>>

(***************************************************************************)
(* Failures.                                                               *)
(***************************************************************************)

\* An awaited call fails; withMutex still releases.  At the provider the
\* rotation may have happened, and its answer is lost; so may the answer of a
\* SET that took effect, whose lock has then no holder.
Throw(p) ==
  /\ ~At(p, "idle") /\ Fault
  /\ \/ /\ call[p].pc \in Inside \ {"leave"}
        /\ Move(p, "leave")
        /\ UNCHANGED lockVars
     \/ /\ At(p, "leave")     \* the release itself fails
        /\ Goto(p, Rest)
        /\ Leave(p, "dead")
     \/ /\ At(p, "wait") /\ lock[call[p].id] = "free"
        /\ Goto(p, Rest)
        /\ lock' = [lock EXCEPT ![call[p].id] = "dead"] /\ UNCHANGED lapsed
     \/ /\ call[p].pc \notin Inside
        /\ Goto(p, Rest)
        /\ UNCHANGED lockVars
  /\ \/ UNCHANGED <<live, spent>>
     \/ At(p, "provider") /\ \E u \in Token : Rotate(call[p].token, u)
  /\ mishap' = (mishap \/ call[p].pc \in {"provider", "write"})
  /\ UNCHANGED <<rowVars, flowVars, rotating, key>>

\* The process dies; its lock outlives it.
Crash(p) ==
  /\ ~At(p, "idle") /\ Fault
  /\ Goto(p, Rest)
  /\ Leave(p, "dead")
  /\ mishap' = (mishap \/ At(p, "write"))
  /\ UNCHANGED <<rowVars, flowVars, rotating, live, key, spent>>

(***************************************************************************)
(* The specification.                                                      *)
(***************************************************************************)

GetAccessToken(p) ==
  Reread(p) \/ Refresh(p) \/ Write(p) \/ MarkRevoked(p) \/ Release(p)

Complete(p) == Exchange(p) \/ Lookup(p) \/ Update(p) \/ Create(p) \/ Upsert(p)

Forget(p) == StopWatch(p) \/ ReadGrant(p) \/ Kill(p) \/ Delete(p)

Next ==
  \/ Withdraw \/ Age \/ Falter \/ RotateKey \/ (\E i \in Id : ExpireLock(i))
  \/ \E p \in Proc :
       \/ Start(p) \/ Acquire(p) \/ TimeOut(p) \/ GetAccessToken(p) \/ Lapse(p)
       \/ (\E s \in State : Consume(p, s)) \/ Complete(p)
       \/ Disconnect(p) \/ Forget(p)
       \/ Throw(p) \/ Crash(p)

Spec == Init /\ [][Next]_vars

\* Steps of an operation under way are taken, a dead lock expires, waiters get
\* a free lock, and jobs keep asking for a token of a mailbox that needs one.
FairSpec ==
  /\ Spec
  /\ \A i \in Id : WF_vars(ExpireLock(i))
  /\ \A p \in Proc :
       /\ WF_vars(GetAccessToken(p)) /\ WF_vars(Complete(p)) /\ WF_vars(Forget(p))
       /\ WF_vars(TimeOut(p)) /\ SF_vars(Acquire(p)) /\ SF_vars(Start(p))

(***************************************************************************)
(* Properties.                                                             *)
(***************************************************************************)

\* "Read-refresh-write is atomic across processes": of the processes that
\* refresh one row only those whose lock ran out do not have it to themselves.
\* Refreshers of a deleted row and of its successor may run together.
RefreshAlone ==
  \A p, q \in Proc \ lapsed :
    call[p].pc \in Inside /\ call[q].pc \in Inside /\ call[p].id = call[q].id => p = q

\* Nobody who has left, by whatever error or early return, still has the lock:
\* a lock outlives its holder only when the holder died or could not delete it.
LockReturned ==
  \A i \in Id : lock[i] \in Proc =>
    call[lock[i]].pc \in Inside /\ call[lock[i]].id = i

\* "Two concurrent refreshes invalidate each other": unless a lock ran out or
\* an answer was lost, the provider never refuses us a token because we spent
\* it ourselves, whoever refreshes, reconnects and disconnects.
NeverSpendsTwice ==
  \A p \in Proc : At(p, "revoked") /\ call[p].token \in spent => mishap

\* "A state we did issue cannot be replayed".
StateOnce == \A s \in State : exchanged[s] <= 1

\* The audit trail accounts for the row: it is the one mailbox whose connect
\* is not matched by a disconnect, however connects and disconnects overlap.
Accounted ==
  \A i \in Id :
    /\ trail[i].disconnected <= trail[i].connected
    /\ (row.id = i) <=> (trail[i].connected = 1 /\ trail[i].disconnected = 0)

\* The inductive invariant behind these: who has the lock, what a state that
\* was not consumed means, and where a token that was spent can still be.
LockInv ==
  /\ \A p \in Proc : call[p].pc \in Inside /\ p \notin lapsed => lock[call[p].id] = p
  /\ \A p \in lapsed : call[p].pc \in Inside
  /\ LockReturned /\ \A i \in Id : lock[i] \notin lapsed
  /\ mishap \/ lapsed = {}

StateInv == StateOnce /\ \A s \in nonce : exchanged[s] = 0

\* A call that will write to a row by its id has one.
ById == Inside \cup {"wait", "update", "stop", "revoke", "kill", "delete"}
Named == \A p \in Proc : call[p].pc \in ById => call[p].id # 0

\* A token that a callback holds is new: nobody else has it yet.
Connecting == {"lookup", "update", "create", "upsert"}
Unshared ==
  \A p \in Proc :
    call[p].pc \in Connecting =>
      /\ call[p].token \in Token \ spent /\ call[p].token # row.refresh
      /\ \A q \in Proc \ {p} : call[q].token # call[p].token

\* The token of a refresher is not spent and belongs to the row it refreshes;
\* the row's is spent only until it is replaced.
Presenting == {"provider", "write", "revoked"}
Unspent ==
  /\ \A p \in Proc : call[p].pc \in Presenting =>
       /\ call[p].token \in Token \ spent
       /\ call[p].token = row.refresh => row.id = call[p].id
       /\ \A q \in Proc : call[q].pc \in Presenting /\ call[q].token = call[p].token =>
            call[q].id = call[p].id
  /\ row.refresh \in spent =>
       rotating /\ \E p \in Proc : At(p, "write") /\ row.id = call[p].id

VaultInv ==
  /\ TypeOK /\ LockInv /\ StateInv /\ Named /\ Accounted /\ Unshared
  /\ mishap \/ Unspent

\* A lock left behind, a timeout or a failure never freezes a mailbox: a
\* refresh token that is good is used to get an access token, or is replaced.
UsableAgain ==
  row.refresh \in live /\ row.key = key
    ~> Usable \/ row.status = "REVOKED" \/ row.refresh \notin live \/ row.key # key

\* "Old rows decrypt with the old key until touched": a good grant can still
\* be used after the key was rotated.
RotationKeeps == row.refresh \in live ~> Usable \/ row.refresh \notin live

\* The user who reconnects is not told to reconnect: markRevoked only drops a
\* token that the provider refuses.
DropsOnlyDead ==
  [][\A p \in Proc : MarkRevoked(p) /\ row.refresh # row'.refresh => row.refresh \notin live]_vars

\* "Disconnected means disconnected": a mailbox that is recorded as revoked
\* leaves no stored grant alive.
RevokedIsDead ==
  [][\A p \in Proc : Delete(p) /\ row.id # 0 /\ row'.id = 0 /\ call[p].flag => row.refresh \notin live]_vars
=============================================================================
