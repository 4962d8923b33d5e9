------------------------------ MODULE TagPayment ------------------------------
(***************************************************************************)
(* backend/services/PaymentService.js, processPayment: a @tag-to-@tag      *)
(* payment on Stellar, with the endpoint's user lock                       *)
(* (controllers/transactionController.js, services/LockService.js) and the *)
(* two unique indexes of the transactions table.                           *)
(*                                                                         *)
(* One database transaction spans the whole payment: duplicate check, key  *)
(* check, INSERT of the pending row, signing, submission to Horizon,       *)
(* UPDATE to completed, COMMIT.  A row is therefore either open (in an     *)
(* uncommitted transaction, seen by no one but the unique indexes) or      *)
(* committed.  Batch items and the scheduler call processPayment without   *)
(* the lock.                                                               *)
(*                                                                         *)
(* PostgreSQL, Redis and the Stellar network are external.  A request is   *)
(* one call; a client's retry is another request with the same fingerprint *)
(* or key.                                                                 *)
(***************************************************************************)
EXTENDS Naturals, FiniteSets

CONSTANTS
  Req,            \* bound: the requests of a behaviour
  Direct,         \* those that do not go through the endpoint's lock
  User, UserOf,   \* users, and the user (Stellar account) who sends a request
  Fp, FpOf,       \* fingerprints: user, tags, amount, asset
  Key, KeyOf,     \* idempotency keys: the client's, or generated with the memo
  MaxRetries,     \* PAYMENT_CONFIG.MAX_RETRIES
  ReadBack,       \* can Transaction.create read back the row it has inserted?
  Budget,         \* bound: how often each kind of fault may still happen
  MaxFaults,      \* bound: faults in all
  None            \* null, no holder, no answer

FaultKind == {"crash", "db", "net"}

ASSUME RequestAssumption ==
  /\ Direct \subseteq Req
  /\ UserOf \in [Req -> User] /\ FpOf \in [Req -> Fp] /\ KeyOf \in [Req -> Key]
  /\ \A r, q \in Req : FpOf[r] = FpOf[q] => UserOf[r] = UserOf[q]
ASSUME RetryAssumption == MaxRetries \in Nat \ {0}
ASSUME ReadAssumption == ReadBack \subseteq BOOLEAN /\ ReadBack # {}
ASSUME FaultAssumption == Budget \in [FaultKind -> Nat]

VARIABLES
  lock,       \* Redis: lock[u], the request that holds user:u:txn, or None
  pc,         \* where each request is
  row,        \* row[r]: the transactions row r inserted
  old,        \* requests whose row is older than DUPLICATE_WINDOW_MS
  recovered,  \* requests with a compensation row (no fingerprint, same key)
  audited,    \* requests whose compensation left an audit_logs row
  tries,      \* submitTransaction attempts
  seq,        \* sequence number r's transaction is signed with
  tx,         \* r's transaction on the network
  chainSeq,   \* sequence number of each user's Stellar account
  answer,     \* what the caller gets
  unsure,     \* history: requests that gave up without knowing or recording
              \* the outcome of their submission
  budget

vars == <<lock, pc, row, old, recovered, audited, tries, seq, tx, chainSeq, answer,
          unsure, budget>>

-----------------------------------------------------------------------------
(* Values *)

Pc == {"new", "dup", "key", "insert", "unread", "sign", "submit", "wait", "record",
       "compensate", "audit", "release", "done"}

RowState == {"none", "open", "completed", "failed"}
TxState  == {"none", "sent", "applied", "dead"}

\* "ok" answers name the request whose payment they report.
Error  == [kind |-> "error"]
Busy   == [kind |-> "busy"]
Ok(q)  == [kind |-> "ok", of |-> q]
Answer == {Error, Busy} \cup {Ok(q) : q \in Req}

ASSUME NullAssumption == None \notin Req \cup Answer

\* How many faults have happened.
Spent == (Budget["crash"] - budget["crash"]) + (Budget["db"] - budget["db"])
           + (Budget["net"] - budget["net"])

Spend(k) == Spent < MaxFaults /\ budget[k] > 0 /\ budget' = [budget EXCEPT ![k] = @ - 1]

SameFp(r, q)  == FpOf[r] = FpOf[q]
SameKey(r, q) == KeyOf[r] = KeyOf[q]

\* A key has a committed row: a payment's, whatever its status, or a recovery's.
HasKeyRow(q) == row[q] \in {"completed", "failed"} \/ q \in recovered

\* Mutant: the migration without the partial unique index on fingerprint.
ConflictKeyOnly(r) == \E q \in Req : HasKeyRow(q) /\ SameKey(r, q)

\* uniq_txn_fingerprint_active and the unique idempotency_key: the INSERT waits
\* for an open row with the same entry and fails on a committed one.
Blocked(r)  == \E q \in Req \ {r} : row[q] = "open" /\ (SameFp(r, q) \/ SameKey(r, q))
Conflict(r) == \E q \in Req : \/ row[q] = "completed" /\ SameFp(r, q)
                              \/ HasKeyRow(q) /\ SameKey(r, q)

\* The call is over; the endpoint still has to release its lock.
Reply(r, a) ==
  /\ answer' = [answer EXCEPT ![r] = a]
  /\ pc' = [pc EXCEPT ![r] = IF r \in Direct THEN "done" ELSE "release"]

\* The catch of processPayment before or after the row exists: ROLLBACK, audit
\* of the failure, and an UPDATE to failed that finds no row.
Fail(r) ==
  /\ row' = [row EXCEPT ![r] = "none"]
  /\ Reply(r, Error)

Init ==
  /\ lock      = [u \in User |-> None]
  /\ pc        = [r \in Req |-> "new"]
  /\ row       = [r \in Req |-> "none"]
  /\ old       = {}
  /\ recovered = {}
  /\ audited   = {}
  /\ tries     = [r \in Req |-> 0]
  /\ seq       = [r \in Req |-> 0]
  /\ tx        = [r \in Req |-> "none"]
  /\ chainSeq  = [u \in User |-> 0]
  /\ answer    = [r \in Req |-> None]
  /\ unsure    = {}
  /\ budget    = Budget

-----------------------------------------------------------------------------
(* The endpoint's lock *)

AcquireLock(r) ==
  /\ pc[r] = "new" /\ r \notin Direct
  /\ lock[UserOf[r]] = None
  /\ lock' = [lock EXCEPT ![UserOf[r]] = r]
  /\ pc' = [pc EXCEPT ![r] = "dup"]
  /\ UNCHANGED <<row, old, recovered, audited, tries, seq, tx, chainSeq, answer, unsure, budget>>

\* Ten attempts found the lock taken: 429.
LockBusy(r) ==
  /\ pc[r] = "new" /\ r \notin Direct
  /\ lock[UserOf[r]] # None
  /\ answer' = [answer EXCEPT ![r] = Busy]
  /\ pc' = [pc EXCEPT ![r] = "done"]
  /\ UNCHANGED <<lock, row, old, recovered, audited, tries, seq, tx, chainSeq, unsure, budget>>

SkipLock(r) ==
  /\ pc[r] = "new" /\ r \in Direct
  /\ pc' = [pc EXCEPT ![r] = "dup"]
  /\ UNCHANGED <<lock, row, old, recovered, audited, tries, seq, tx, chainSeq, answer, unsure, budget>>

\* The TTL of 15 s runs out, whatever the holder is doing.
LockExpires(u) ==
  /\ lock[u] # None
  /\ lock' = [lock EXCEPT ![u] = None]
  /\ UNCHANGED <<pc, row, old, recovered, audited, tries, seq, tx, chainSeq, answer, unsure, budget>>

\* finally: the lock is deleted only when it is still this request's.
ReleaseLock(r) ==
  /\ pc[r] = "release"
  /\ lock' = [lock EXCEPT ![UserOf[r]] = IF @ = r THEN None ELSE @]
  /\ pc' = [pc EXCEPT ![r] = "done"]
  /\ UNCHANGED <<row, old, recovered, audited, tries, seq, tx, chainSeq, answer, unsure, budget>>

-----------------------------------------------------------------------------
(* Up to the row *)

\* Step 0a: SELECT ... FOR UPDATE by fingerprint.  Only committed rows inside
\* the window are found, and there is nothing to lock when there is none.
CheckDuplicate(r) ==
  LET dups == {q \in Req : row[q] = "completed" /\ SameFp(r, q) /\ q \notin old} IN
  /\ pc[r] = "dup"
  /\ \/ \E q \in dups : Reply(r, Ok(q))
     \/ dups = {} /\ pc' = [pc EXCEPT ![r] = "key"] /\ UNCHANGED answer
  /\ UNCHANGED <<lock, row, old, recovered, audited, tries, seq, tx, chainSeq, unsure, budget>>

\* Step 0b: the idempotency key, at any age.
CheckKey(r) ==
  LET same == {q \in Req : HasKeyRow(q) /\ SameKey(r, q)} IN
  /\ pc[r] = "key"
  /\ \/ \E q \in same : Reply(r, IF row[q] = "failed" THEN Error ELSE Ok(q))
     \/ same = {} /\ pc' = [pc EXCEPT ![r] = "insert"] /\ UNCHANGED answer
  /\ UNCHANGED <<lock, row, old, recovered, audited, tries, seq, tx, chainSeq, unsure, budget>>

\* Validation, the balance, the recipient or a query fails before the row exists.
Refuse(r) ==
  /\ pc[r] \in {"dup", "key", "insert"}
  /\ Reply(r, Error)
  /\ UNCHANGED <<lock, row, old, recovered, audited, tries, seq, tx, chainSeq, unsure, budget>>

\* Step 6: Transaction.create.
Insert(r) ==
  /\ pc[r] = "insert" /\ ~Blocked(r) /\ ~Conflict(r)
  /\ row' = [row EXCEPT ![r] = "open"]
  /\ \E found \in ReadBack : pc' = [pc EXCEPT ![r] = IF found THEN "sign" ELSE "unread"]
  /\ UNCHANGED <<lock, old, recovered, audited, tries, seq, tx, chainSeq, answer, unsure, budget>>

InsertConflict(r) ==
  /\ pc[r] = "insert" /\ ~Blocked(r) /\ Conflict(r)
  /\ Reply(r, Error)
  /\ UNCHANGED <<lock, row, old, recovered, audited, tries, seq, tx, chainSeq, unsure, budget>>

\* create() returns findById(id), which reads on another connection: it does not
\* see the uncommitted row, and transactionRecord.id throws.
Unread(r) ==
  /\ pc[r] = "unread"
  /\ Fail(r)
  /\ UNCHANGED <<lock, old, recovered, audited, tries, seq, tx, chainSeq, unsure, budget>>

-----------------------------------------------------------------------------
(* The Stellar transaction *)

\* Step 7: createTransaction signs with the account's next sequence number.
Sign(r) ==
  /\ pc[r] = "sign"
  /\ seq' = [seq EXCEPT ![r] = chainSeq[UserOf[r]] + 1]
  /\ pc' = [pc EXCEPT ![r] = "submit"]
  /\ UNCHANGED <<lock, row, old, recovered, audited, tries, tx, chainSeq, answer, unsure, budget>>

\* Mutant: the catch of processPayment without its rollback.
SignFailsNoRollback(r) ==
  /\ pc[r] = "sign"
  /\ Reply(r, Error)
  /\ UNCHANGED <<lock, row, old, recovered, audited, tries, seq, tx, chainSeq, unsure, budget>>

SignFails(r) ==
  /\ pc[r] = "sign"
  /\ Fail(r)
  /\ UNCHANGED <<lock, old, recovered, audited, tries, seq, tx, chainSeq, unsure, budget>>

\* Step 8: one attempt.  The same envelope may be submitted again.
Submit(r) ==
  /\ pc[r] = "submit"
  /\ tries' = [tries EXCEPT ![r] = @ + 1]
  /\ tx' = [tx EXCEPT ![r] = IF @ = "none" THEN "sent" ELSE @]
  /\ pc' = [pc EXCEPT ![r] = "wait"]
  /\ UNCHANGED <<lock, row, old, recovered, audited, seq, chainSeq, answer, unsure, budget>>

\* The network applies a submitted transaction whose sequence number is next.
ChainApplies(r) ==
  LET u == UserOf[r] IN
  /\ tx[r] = "sent" /\ seq[r] = chainSeq[u] + 1
  /\ tx' = [tx EXCEPT ![r] = "applied"]
  /\ chainSeq' = [chainSeq EXCEPT ![u] = @ + 1]
  /\ UNCHANGED <<lock, pc, row, old, recovered, audited, tries, seq, answer, unsure, budget>>

\* Its sequence number is used, it fails, or its time bound (30 s) passes.
ChainDrops(r) ==
  /\ tx[r] = "sent"
  /\ tx' = [tx EXCEPT ![r] = "dead"]
  /\ UNCHANGED <<lock, pc, row, old, recovered, audited, tries, seq, chainSeq, answer, unsure, budget>>

SubmitOk(r) ==
  /\ pc[r] = "wait" /\ tx[r] = "applied"
  /\ pc' = [pc EXCEPT ![r] = "record"]
  /\ UNCHANGED <<lock, row, old, recovered, audited, tries, seq, tx, chainSeq, answer, unsure, budget>>

SubmitRejected(r) ==
  /\ pc[r] = "wait" /\ tx[r] = "dead"
  /\ Fail(r)
  /\ UNCHANGED <<lock, old, recovered, audited, tries, seq, tx, chainSeq, unsure, budget>>

\* The call to Horizon ends without an answer.  _isNetworkError recognises the
\* error or not; only a recognised one is retried.
SubmitUnanswered(r) ==
  /\ pc[r] = "wait"
  /\ Spend("net")
  /\ \/ /\ tries[r] < MaxRetries
        /\ pc' = [pc EXCEPT ![r] = "submit"]
        /\ UNCHANGED <<row, answer, unsure>>
     \/ /\ Fail(r)
        /\ unsure' = unsure \cup {r}
  /\ UNCHANGED <<lock, old, recovered, audited, tries, seq, tx, chainSeq>>

-----------------------------------------------------------------------------
(* Recording the outcome *)

\* Step 9: UPDATE to completed, COMMIT.
Record(r) ==
  /\ pc[r] = "record"
  /\ row' = [row EXCEPT ![r] = "completed"]
  /\ Reply(r, Ok(r))
  /\ UNCHANGED <<lock, old, recovered, audited, tries, seq, tx, chainSeq, unsure, budget>>

\* Mutant: a failed UPDATE goes to the outer catch instead of compensation.
RecordFailsThrows(r) ==
  /\ pc[r] = "record"
  /\ Spend("db")
  /\ Fail(r)
  /\ UNCHANGED <<lock, old, recovered, audited, tries, seq, tx, chainSeq, unsure>>

\* The UPDATE fails: ROLLBACK and compensation.
RecordFails(r) ==
  /\ pc[r] = "record"
  /\ Spend("db")
  /\ row' = [row EXCEPT ![r] = "none"]
  /\ pc' = [pc EXCEPT ![r] = "compensate"]
  /\ UNCHANGED <<lock, old, recovered, audited, tries, seq, tx, chainSeq, answer, unsure>>

\* COMMIT succeeds, then User.findByTag in the same try fails: compensation too.
RecordThenFails(r) ==
  /\ pc[r] = "record"
  /\ Spend("db")
  /\ row' = [row EXCEPT ![r] = "completed"]
  /\ pc' = [pc EXCEPT ![r] = "compensate"]
  /\ UNCHANGED <<lock, old, recovered, audited, tries, seq, tx, chainSeq, answer, unsure>>

\* _attemptCompensation: the recovery row has the key and no fingerprint.
Recover(r) ==
  /\ pc[r] = "compensate"
  /\ \A q \in Req : SameKey(r, q) => row[q] # "open" /\ ~HasKeyRow(q)
  /\ recovered' = recovered \cup {r}
  /\ audited' = audited \cup {r}
  /\ Reply(r, Ok(r))
  /\ UNCHANGED <<lock, row, old, tries, seq, tx, chainSeq, unsure, budget>>

\* The recovery row is refused: another row has the key.
RecoverConflict(r) ==
  /\ pc[r] = "compensate"
  /\ \A q \in Req : SameKey(r, q) => row[q] # "open"
  /\ \E q \in Req : SameKey(r, q) /\ HasKeyRow(q)
  /\ pc' = [pc EXCEPT ![r] = "audit"]
  /\ UNCHANGED <<lock, row, old, recovered, audited, tries, seq, tx, chainSeq, answer, unsure, budget>>

\* The INSERT of the recovery row fails, or the audit entry after it.
RecoverFails(r) ==
  /\ pc[r] = "compensate"
  /\ Spend("db")
  /\ pc' = [pc EXCEPT ![r] = "audit"]
  /\ \/ UNCHANGED recovered
     \/ /\ \A q \in Req : SameKey(r, q) => row[q] # "open" /\ ~HasKeyRow(q)
        /\ recovered' = recovered \cup {r}
  /\ UNCHANGED <<lock, row, old, audited, tries, seq, tx, chainSeq, answer, unsure>>

\* Mutant: no audit entry when compensation fails.
AuditSkipped(r) ==
  /\ pc[r] = "audit"
  /\ Reply(r, Ok(r))
  /\ UNCHANGED <<lock, row, old, recovered, audited, tries, seq, tx, chainSeq, unsure, budget>>

\* catch of _attemptCompensation: requires_manual_reconciliation.
Audit(r) ==
  /\ pc[r] = "audit"
  /\ audited' = audited \cup {r}
  /\ Reply(r, Ok(r))
  /\ UNCHANGED <<lock, row, old, recovered, tries, seq, tx, chainSeq, unsure, budget>>

\* That audit entry fails as well: the outer catch, whose own audit entry and
\* UPDATE to failed may succeed.
AuditFails(r) ==
  /\ pc[r] = "audit"
  /\ Spend("db")
  /\ audited' \in {audited, audited \cup {r}}
  /\ \/ UNCHANGED row
     \/ row[r] = "completed" /\ row' = [row EXCEPT ![r] = "failed"]
  /\ unsure' = unsure \cup {r}
  /\ Reply(r, Error)
  /\ UNCHANGED <<lock, old, recovered, tries, seq, tx, chainSeq>>

-----------------------------------------------------------------------------
(* Time and crashes *)

\* 60 s pass since the row was created.
WindowPasses(r) ==
  /\ row[r] = "completed" /\ r \notin old
  /\ old' = old \cup {r}
  /\ UNCHANGED <<lock, pc, row, recovered, audited, tries, seq, tx, chainSeq, answer, unsure, budget>>

\* The process dies: open transactions roll back, callers get no answer, locks
\* stay until they expire and submitted transactions stay on the network.
Crash ==
  LET gone == {r \in Req : pc[r] \notin {"new", "done"}} IN
  /\ gone # {}
  /\ Spend("crash")
  /\ pc'  = [r \in Req |-> IF r \in gone THEN "done" ELSE pc[r]]
  /\ row' = [r \in Req |-> IF row[r] = "open" THEN "none" ELSE row[r]]
  /\ UNCHANGED <<lock, old, recovered, audited, tries, seq, tx, chainSeq, answer, unsure>>

-----------------------------------------------------------------------------
Advance(r) ==
  \/ AcquireLock(r) \/ LockBusy(r) \/ SkipLock(r) \/ ReleaseLock(r)
  \/ CheckDuplicate(r) \/ CheckKey(r) \/ Insert(r) \/ InsertConflict(r) \/ Unread(r)
  \/ Sign(r) \/ Submit(r) \/ SubmitOk(r) \/ SubmitRejected(r)
  \/ Record(r) \/ Recover(r) \/ RecoverConflict(r) \/ Audit(r)

GoWrong(r) ==
  \/ Refuse(r) \/ SignFails(r) \/ SubmitUnanswered(r) \/ RecordFails(r)
  \/ RecordThenFails(r) \/ RecoverFails(r) \/ AuditFails(r)

Network(r) == ChainApplies(r) \/ ChainDrops(r)

\* Every caller has its answer; nothing more need happen.
Finished == (\A r \in Req : pc[r] = "done") /\ UNCHANGED vars

Next ==
  \/ \E r \in Req : Advance(r) \/ GoWrong(r) \/ Network(r) \/ WindowPasses(r)
  \/ \E u \in User : LockExpires(u)
  \/ Crash
  \/ Finished

Spec == Init /\ [][Next]_vars

\* Every call the code awaits returns, and the network decides every submitted
\* transaction, at the latest when its time bound passes.
FairSpec == Spec /\ \A r \in Req : WF_vars(Advance(r)) /\ WF_vars(Network(r))

-----------------------------------------------------------------------------
(* Properties *)

\* Every variable stays in its type; no payment is submitted more than
\* MAX_RETRIES times.
TypeOK ==
  /\ lock \in [User -> Req \cup {None}]
  /\ pc \in [Req -> Pc]
  /\ row \in [Req -> RowState]
  /\ old \subseteq Req /\ recovered \subseteq Req /\ audited \subseteq Req /\ unsure \subseteq Req
  /\ tries \in [Req -> 0..MaxRetries]
  /\ seq \in [Req -> Nat]
  /\ tx \in [Req -> TxState]
  /\ chainSeq \in [User -> Nat]
  /\ answer \in [Req -> Answer \cup {None}]
  /\ budget \in [FaultKind -> Nat]

\* While no crash, database or network fault has happened, two requests with the
\* same fingerprint or the same key never both have a transaction that is or may
\* be applied: the unique indexes alone guarantee it, for requests that skip the
\* endpoint's lock or outlive its TTL, and after the duplicate window.
NeverPaidTwice ==
  budget = Budget =>
    \A r, q \in Req : r # q /\ (SameFp(r, q) \/ SameKey(r, q)) =>
      ~(tx[r] \in {"sent", "applied"} /\ tx[q] \in {"sent", "applied"})

\* An "ok" answer reports a payment of the same fingerprint or key that is on
\* the network and can be found in the database: its row, its recovery row or
\* the audit entry that asks for manual reconciliation.
OkIsPaidAndTraceable ==
  \A r \in Req : \A q \in Req : answer[r] = Ok(q) =>
    /\ SameFp(r, q) \/ SameKey(r, q)
    /\ tx[q] = "applied"
    /\ row[q] \in {"completed", "failed"} \/ q \in recovered \cup audited

\* A caller who gets an error has paid nothing and will pay nothing, unless a
\* submission stayed unanswered or nothing about the payment could be stored.
ErrorIsUnpaid ==
  \A r \in Req : answer[r] = Error /\ r \notin unsure => tx[r] \notin {"sent", "applied"}

HoldsFp(r)  == row[r] \in {"open", "completed"}
HoldsKey(r) == row[r] = "open" \/ HasKeyRow(r)

\* Of the requests with one fingerprint at most one has a live row, and likewise
\* for keys, recovery rows included.
RowsUnique ==
  \A r, q \in Req : r # q =>
    /\ SameFp(r, q)  => ~(HoldsFp(r) /\ HoldsFp(q))
    /\ SameKey(r, q) => ~(HoldsKey(r) /\ HoldsKey(q))

\* How far a request is tells the state of its row and of its transaction.
Progress(r) ==
  /\ row[r] = "open" <=> pc[r] \in {"unread", "sign", "submit", "wait", "record"}
  /\ pc[r] \in {"new", "dup", "key", "insert", "unread", "sign"} =>
       tx[r] = "none" /\ row[r] \in {"none", "open"} /\ r \notin recovered
  /\ pc[r] \in {"submit", "wait", "record", "compensate"} => r \notin recovered
  /\ pc[r] \in {"new", "dup", "key", "insert", "unread", "sign", "submit"} =>
       tries[r] < MaxRetries
  /\ pc[r] = "wait" => tx[r] # "none"
  /\ pc[r] \in {"record", "compensate", "audit"} => tx[r] = "applied"
  /\ pc[r] \in {"compensate", "audit"} => row[r] \in {"none", "completed"}
  /\ row[r] \in {"completed", "failed"} \/ r \in recovered \cup audited => tx[r] = "applied"
  /\ pc[r] \notin {"release", "done"} => answer[r] = None /\ r \notin unsure

ProgressMatches == \A r \in Req : Progress(r)

\* Without faults a transaction never outlives its row.
CalmRowsHold ==
  budget = Budget => \A r \in Req : tx[r] \in {"sent", "applied"} => HoldsFp(r)

\* The inductive invariant behind the properties above.
PaymentInv ==
  ProgressMatches /\ RowsUnique /\ CalmRowsHold /\ OkIsPaidAndTraceable /\ ErrorIsUnpaid

\* Every request is answered, or ended by a crash: no one waits forever for the
\* lock, for another request's row or for the network.
EveryRequestEnds == <>[](\A r \in Req : pc[r] = "done")

-----------------------------------------------------------------------------
(* What the source and its documents say and the code does not do *)

\* processPayment: "Supports idempotency keys to prevent duplicate processing".
KeyPaidOnce ==
  \A r, q \in Req : r # q /\ SameKey(r, q) => ~(tx[r] = "applied" /\ tx[q] = "applied")

\* PAYMENT_SYSTEM.md, steps 6 and 7: the pending record is created, then the
\* Stellar transaction is created and signed.
CreatedIsSigned ==
  \A r \in Req : row[r] = "open" => pc[r] \in {"sign", "submit", "wait", "record"}
=============================================================================
