-------------------------- MODULE TagPayment_proofs --------------------------
(***************************************************************************)
(* Theorems about TagPayment for any number of requests, users,            *)
(* fingerprints, keys, retries and faults; and, at the end, about the      *)
(* scheduler that calls processPayment (ScheduledPayment).                 *)
(*                                                                         *)
(* The argument: a step of request r changes nothing of another request,   *)
(* takes a fingerprint or key only when no one holds it, and answers what  *)
(* it can show (Effect).  PaymentInv is preserved by every such step.      *)
(***************************************************************************)
EXTENDS TagPayment, ScheduledPayment, TLAPS

\* No fault budget ever grows.
BudgetBounded == \A k \in FaultKind : budget[k] <= Budget[k]

Inv == TypeOK /\ BudgetBounded /\ PaymentInv

Live(r) == tx[r] \in {"sent", "applied"}

Traceable(q) ==
  tx[q] = "applied" /\ (row[q] \in {"completed", "failed"} \/ q \in recovered \cup audited)

\* What an action of request r may do.
OthersKept(r) ==
  \A q \in Req \ {r} :
    /\ pc'[q] = pc[q] /\ row'[q] = row[q] /\ tx'[q] = tx[q] /\ answer'[q] = answer[q]
    /\ tries'[q] = tries[q]
    /\ q \in recovered' <=> q \in recovered
    /\ q \in audited' <=> q \in audited
    /\ q \in unsure' <=> q \in unsure

OutcomeKept(r) ==
  /\ tx[r] = "applied" => tx'[r] = "applied"
  /\ row[r] \in {"completed", "failed"} => row'[r] \in {"completed", "failed"}
  /\ r \in recovered => r \in recovered'
  /\ r \in audited => r \in audited'
  /\ r \in unsure => r \in unsure'

AnswerJustified(r) ==
  \/ answer'[r] = answer[r] /\ (Live(r)' => Live(r) \/ answer[r] = None)
  \/ answer'[r] = Busy
  \/ answer'[r] = Error /\ (~Live(r)' \/ r \in unsure')
  \/ \E q \in Req : /\ answer'[r] = Ok(q)
                    /\ SameFp(r, q) \/ SameKey(r, q)
                    /\ Traceable(q)'

ClaimsFree(r) ==
  /\ HoldsFp(r)' => HoldsFp(r) \/ \A q \in Req \ {r} : ~(SameFp(r, q) /\ HoldsFp(q))
  /\ HoldsKey(r)' => HoldsKey(r) \/ \A q \in Req \ {r} : ~(SameKey(r, q) /\ HoldsKey(q))

CalmKept(r) ==
  budget' = Budget => budget = Budget /\ (Live(r)' => HoldsFp(r)')

Effect(r) ==
  OthersKept(r) /\ OutcomeKept(r) /\ AnswerJustified(r) /\ ClaimsFree(r) /\ CalmKept(r)
    /\ Progress(r)'

-----------------------------------------------------------------------------
(* Answers are distinct *)

LEMMA AnswersDiffer ==
  /\ Error # Busy
  /\ \A q : Error # Ok(q) /\ Busy # Ok(q)
  /\ \A q, s : Ok(q) = Ok(s) => q = s
<1>1. Error.kind = "error" /\ Busy.kind = "busy" /\ \A q : Ok(q).kind = "ok" /\ Ok(q).of = q
  BY DEF Error, Busy, Ok
<1> QED
  BY <1>1

\* An effect on one request keeps the invariant.
LEMMA EffectInv ==
  ASSUME PaymentInv, NEW r \in Req, Effect(r)
  PROVE  PaymentInv'
<1> USE DEF Effect
<1>1. ProgressMatches'
  BY DEF PaymentInv, ProgressMatches, Progress, OthersKept
<1>2. RowsUnique'
  <2>1. \A q \in Req \ {r} : /\ HoldsFp(q)' <=> HoldsFp(q)
                             /\ HoldsKey(q)' <=> HoldsKey(q)
    BY DEF OthersKept, HoldsFp, HoldsKey, HasKeyRow
  <2>2. \A q, s : SameFp(q, s) <=> SameFp(s, q)
    BY DEF SameFp
  <2>3. \A q, s : SameKey(q, s) <=> SameKey(s, q)
    BY DEF SameKey
  <2>4. RowsUnique
    BY DEF PaymentInv
  <2>5. \A q, s : (SameFp(q, s)' <=> SameFp(q, s)) /\ (SameKey(q, s)' <=> SameKey(q, s))
    BY DEF SameFp, SameKey
  <2> QED
    BY <2>1, <2>2, <2>3, <2>4, <2>5 DEF RowsUnique, ClaimsFree
<1>3. CalmRowsHold'
  BY DEF PaymentInv, CalmRowsHold, CalmKept, Live, OthersKept, HoldsFp
<1>4. OkIsPaidAndTraceable'
  <2> SUFFICES ASSUME NEW p \in Req, NEW q \in Req, answer'[p] = Ok(q)
               PROVE  (SameFp(p, q) \/ SameKey(p, q)) /\ Traceable(q)'
    BY DEF OkIsPaidAndTraceable, Traceable, SameFp, SameKey
  <2>1. Traceable(q) => Traceable(q)'
    BY DEF Traceable, OthersKept, OutcomeKept
  <2>2. CASE answer'[p] = answer[p]
    BY <2>1, <2>2 DEF PaymentInv, OkIsPaidAndTraceable, Traceable
  <2>3. CASE answer'[p] # answer[p]
    <3>1. p = r
      BY <2>3 DEF OthersKept
    <3>2. \E s \in Req : answer'[r] = Ok(s) /\ (SameFp(r, s) \/ SameKey(r, s)) /\ Traceable(s)'
      BY <2>3, <3>1, AnswersDiffer DEF AnswerJustified
    <3> QED
      BY <3>1, <3>2, AnswersDiffer
  <2> QED
    BY <2>2, <2>3
<1>5. ErrorIsUnpaid'
  <2> SUFFICES ASSUME NEW p \in Req, answer'[p] = Error, p \notin unsure'
               PROVE  ~Live(p)'
    BY DEF ErrorIsUnpaid, Live
  <2>1. CASE p # r
    BY <2>1 DEF PaymentInv, ErrorIsUnpaid, OthersKept, Live
  <2>2. CASE p = r /\ answer'[r] = answer[r] /\ (Live(r)' => Live(r) \/ answer[r] = None)
    <3>1. r \notin unsure
      BY <2>2 DEF OutcomeKept
    <3>2. answer[r] # None
      BY <2>2, NullAssumption DEF Answer
    <3> QED
      BY <2>2, <3>1, <3>2 DEF PaymentInv, ErrorIsUnpaid, Live
  <2> QED
    BY <2>1, <2>2, AnswersDiffer DEF AnswerJustified
<1> QED
  BY <1>1, <1>2, <1>3, <1>4, <1>5 DEF PaymentInv
-----------------------------------------------------------------------------
(* Every action of a request has such an effect *)

LEMMA LockEffect ==
  ASSUME Inv, NEW r \in Req, AcquireLock(r) \/ LockBusy(r) \/ SkipLock(r) \/ ReleaseLock(r)
  PROVE  Effect(r)
<1> USE DEF Inv, TypeOK, PaymentInv, ProgressMatches, Progress
<1>1. OthersKept(r) /\ OutcomeKept(r)
  BY DEF OthersKept, OutcomeKept, AcquireLock, LockBusy, SkipLock, ReleaseLock
<1>2. AnswerJustified(r)
  BY DEF AnswerJustified, Live, AcquireLock, LockBusy, SkipLock, ReleaseLock
<1>3. ClaimsFree(r)
  BY DEF ClaimsFree, HoldsFp, HoldsKey, HasKeyRow, AcquireLock, LockBusy, SkipLock, ReleaseLock
<1>4. CalmKept(r)
  BY DEF CalmKept, CalmRowsHold, Live, HoldsFp, AcquireLock, LockBusy, SkipLock, ReleaseLock
<1>5. Progress(r)'
  BY DEF AcquireLock, LockBusy, SkipLock, ReleaseLock
<1> QED
  BY <1>1, <1>2, <1>3, <1>4, <1>5 DEF Effect

\* A fault leaves a budget that is no longer the initial one.
LEMMA SpendIsNoticed ==
  ASSUME TypeOK, BudgetBounded, NEW k \in FaultKind, Spend(k)
  PROVE  budget' \in [FaultKind -> Nat] /\ BudgetBounded' /\ budget' # Budget
<1>1. budget[k] \in Nat /\ Budget[k] \in Nat /\ budget[k] <= Budget[k]
  BY FaultAssumption DEF TypeOK, BudgetBounded
<1>2. budget' \in [FaultKind -> Nat] /\ budget'[k] = budget[k] - 1
  BY <1>1 DEF TypeOK, Spend
<1>3. BudgetBounded'
  BY <1>1, FaultAssumption DEF TypeOK, BudgetBounded, Spend
<1> QED
  BY <1>1, <1>2, <1>3

LEMMA CheckEffect ==
  ASSUME Inv, NEW r \in Req, CheckDuplicate(r) \/ CheckKey(r) \/ Refuse(r)
  PROVE  Effect(r)
<1> USE DEF Inv, TypeOK, PaymentInv, ProgressMatches, Progress, Reply, Fail
<1>1. OthersKept(r) /\ OutcomeKept(r)
  BY DEF OthersKept, OutcomeKept, CheckDuplicate, CheckKey, Refuse
<1>2. AnswerJustified(r)
  BY DEF AnswerJustified, Live, Traceable, SameFp, SameKey, HasKeyRow, CheckDuplicate, CheckKey, Refuse
<1>3. ClaimsFree(r)
  BY DEF ClaimsFree, HoldsFp, HoldsKey, HasKeyRow, Blocked, Conflict, CheckDuplicate, CheckKey, Refuse
<1>4. CalmKept(r)
  BY DEF CalmKept, CalmRowsHold, Live, HoldsFp, CheckDuplicate, CheckKey, Refuse
<1>5. Progress(r)'
  BY DEF CheckDuplicate, CheckKey, Refuse
<1> QED
  BY <1>1, <1>2, <1>3, <1>4, <1>5 DEF Effect

LEMMA InsertEffect ==
  ASSUME Inv, NEW r \in Req, Insert(r) \/ InsertConflict(r) \/ Unread(r)
  PROVE  Effect(r)
<1> USE DEF Inv, TypeOK, PaymentInv, ProgressMatches, Progress, Reply, Fail
<1>1. OthersKept(r) /\ OutcomeKept(r)
  BY DEF OthersKept, OutcomeKept, Insert, InsertConflict, Unread
<1>2. AnswerJustified(r)
  BY DEF AnswerJustified, Live, Traceable, SameFp, SameKey, HasKeyRow, Insert, InsertConflict, Unread
<1>3. ClaimsFree(r)
  BY DEF ClaimsFree, HoldsFp, HoldsKey, HasKeyRow, Blocked, Conflict, Insert, InsertConflict, Unread
<1>4. CalmKept(r)
  BY DEF CalmKept, CalmRowsHold, Live, HoldsFp, Insert, InsertConflict, Unread
<1>5. Progress(r)'
  BY DEF Insert, InsertConflict, Unread
<1> QED
  BY <1>1, <1>2, <1>3, <1>4, <1>5 DEF Effect

LEMMA SubmitEffect ==
  ASSUME Inv, NEW r \in Req, Sign(r) \/ SignFails(r) \/ Submit(r) \/ SubmitOk(r) \/ SubmitRejected(r)
  PROVE  Effect(r)
<1> USE DEF Inv, TypeOK, PaymentInv, ProgressMatches, Progress, Reply, Fail
<1>1. OthersKept(r) /\ OutcomeKept(r)
  BY DEF OthersKept, OutcomeKept, Sign, SignFails, Submit, SubmitOk, SubmitRejected
<1>2. AnswerJustified(r)
  BY DEF AnswerJustified, Live, Traceable, SameFp, SameKey, HasKeyRow, Sign, SignFails, Submit, SubmitOk, SubmitRejected
<1>3. ClaimsFree(r)
  BY DEF ClaimsFree, HoldsFp, HoldsKey, HasKeyRow, Blocked, Conflict, Sign, SignFails, Submit, SubmitOk, SubmitRejected
<1>4. CalmKept(r)
  BY DEF CalmKept, CalmRowsHold, Live, HoldsFp, Sign, SignFails, Submit, SubmitOk, SubmitRejected
<1>5. Progress(r)'
  BY DEF Sign, SignFails, Submit, SubmitOk, SubmitRejected
<1> QED
  BY <1>1, <1>2, <1>3, <1>4, <1>5 DEF Effect

LEMMA NetworkEffect ==
  ASSUME Inv, NEW r \in Req, ChainApplies(r) \/ ChainDrops(r)
  PROVE  Effect(r)
<1> USE DEF Inv, TypeOK, PaymentInv, ProgressMatches, Progress, Reply, Fail
<1>1. OthersKept(r) /\ OutcomeKept(r)
  BY DEF OthersKept, OutcomeKept, ChainApplies, ChainDrops
<1>2. AnswerJustified(r)
  BY DEF AnswerJustified, Live, Traceable, SameFp, SameKey, HasKeyRow, ChainApplies, ChainDrops
<1>3. ClaimsFree(r)
  BY DEF ClaimsFree, HoldsFp, HoldsKey, HasKeyRow, Blocked, Conflict, ChainApplies, ChainDrops
<1>4. CalmKept(r)
  BY DEF CalmKept, CalmRowsHold, Live, HoldsFp, ChainApplies, ChainDrops
<1>5. Progress(r)'
  BY DEF ChainApplies, ChainDrops
<1> QED
  BY <1>1, <1>2, <1>3, <1>4, <1>5 DEF Effect

LEMMA UnansweredEffect ==
  ASSUME Inv, NEW r \in Req, SubmitUnanswered(r)
  PROVE  Effect(r)
<1> USE DEF Inv, TypeOK, PaymentInv, ProgressMatches, Progress, Reply, Fail
<1>1. OthersKept(r) /\ OutcomeKept(r)
  BY DEF OthersKept, OutcomeKept, SubmitUnanswered
<1>2. AnswerJustified(r)
  BY DEF AnswerJustified, Live, Traceable, SameFp, SameKey, HasKeyRow, SubmitUnanswered
<1>3. ClaimsFree(r)
  BY DEF ClaimsFree, HoldsFp, HoldsKey, HasKeyRow, Blocked, Conflict, SubmitUnanswered
<1>4. CalmKept(r)
  <2>1. \A k \in FaultKind : Spend(k) => budget' # Budget
    BY SpendIsNoticed
  <2> QED
    BY <2>1 DEF FaultKind, CalmKept, CalmRowsHold, Live, HoldsFp, SubmitUnanswered
<1>5. Progress(r)'
  BY DEF SubmitUnanswered
<1> QED
  BY <1>1, <1>2, <1>3, <1>4, <1>5 DEF Effect

LEMMA RecordEffect ==
  ASSUME Inv, NEW r \in Req, Record(r) \/ RecordFails(r) \/ RecordThenFails(r)
  PROVE  Effect(r)
<1> USE DEF Inv, TypeOK, PaymentInv, ProgressMatches, Progress, Reply, Fail
<1>1. OthersKept(r) /\ OutcomeKept(r)
  BY DEF OthersKept, OutcomeKept, Record, RecordFails, RecordThenFails
<1>2. AnswerJustified(r)
  BY DEF AnswerJustified, Live, Traceable, SameFp, SameKey, HasKeyRow, Record, RecordFails, RecordThenFails
<1>3. ClaimsFree(r)
  BY DEF ClaimsFree, HoldsFp, HoldsKey, HasKeyRow, Blocked, Conflict, Record, RecordFails, RecordThenFails
<1>4. CalmKept(r)
  <2>1. \A k \in FaultKind : Spend(k) => budget' # Budget
    BY SpendIsNoticed
  <2> QED
    BY <2>1 DEF FaultKind, CalmKept, CalmRowsHold, Live, HoldsFp, Record, RecordFails, RecordThenFails
<1>5. Progress(r)'
  BY DEF Record, RecordFails, RecordThenFails
<1> QED
  BY <1>1, <1>2, <1>3, <1>4, <1>5 DEF Effect

LEMMA RecoverEffect ==
  ASSUME Inv, NEW r \in Req, Recover(r) \/ RecoverConflict(r) \/ RecoverFails(r)
  PROVE  Effect(r)
<1> USE DEF Inv, TypeOK, PaymentInv, ProgressMatches, Progress, Reply, Fail
<1>1. OthersKept(r) /\ OutcomeKept(r)
  BY DEF OthersKept, OutcomeKept, Recover, RecoverConflict, RecoverFails
<1>2. AnswerJustified(r)
  BY DEF AnswerJustified, Live, Traceable, SameFp, SameKey, HasKeyRow, Recover, RecoverConflict, RecoverFails
<1>3. ClaimsFree(r)
  BY DEF ClaimsFree, HoldsFp, HoldsKey, HasKeyRow, Blocked, Conflict, Recover, RecoverConflict, RecoverFails
<1>4. CalmKept(r)
  <2>1. \A k \in FaultKind : Spend(k) => budget' # Budget
    BY SpendIsNoticed
  <2> QED
    BY <2>1 DEF FaultKind, CalmKept, CalmRowsHold, Live, HoldsFp, Recover, RecoverConflict, RecoverFails
<1>5. Progress(r)'
  BY DEF Recover, RecoverConflict, RecoverFails
<1> QED
  BY <1>1, <1>2, <1>3, <1>4, <1>5 DEF Effect

LEMMA AuditEffect ==
  ASSUME Inv, NEW r \in Req, Audit(r) \/ AuditFails(r)
  PROVE  Effect(r)
<1> USE DEF Inv, TypeOK, PaymentInv, ProgressMatches, Progress, Reply, Fail
<1>1. OthersKept(r) /\ OutcomeKept(r)
  BY DEF OthersKept, OutcomeKept, Audit, AuditFails
<1>2. AnswerJustified(r)
  BY DEF AnswerJustified, Live, Traceable, SameFp, SameKey, HasKeyRow, Audit, AuditFails
<1>3. ClaimsFree(r)
  BY DEF ClaimsFree, HoldsFp, HoldsKey, HasKeyRow, Blocked, Conflict, Audit, AuditFails
<1>4. CalmKept(r)
  <2>1. \A k \in FaultKind : Spend(k) => budget' # Budget
    BY SpendIsNoticed
  <2> QED
    BY <2>1 DEF FaultKind, CalmKept, CalmRowsHold, Live, HoldsFp, Audit, AuditFails
<1>5. Progress(r)'
  BY DEF Audit, AuditFails
<1> QED
  BY <1>1, <1>2, <1>3, <1>4, <1>5 DEF Effect

LEMMA WindowEffect ==
  ASSUME Inv, NEW r \in Req, WindowPasses(r)
  PROVE  Effect(r)
<1> USE DEF Inv, TypeOK, PaymentInv, ProgressMatches, Progress, Reply, Fail
<1>1. OthersKept(r) /\ OutcomeKept(r)
  BY DEF OthersKept, OutcomeKept, WindowPasses
<1>2. AnswerJustified(r)
  BY DEF AnswerJustified, Live, Traceable, SameFp, SameKey, HasKeyRow, WindowPasses
<1>3. ClaimsFree(r)
  BY DEF ClaimsFree, HoldsFp, HoldsKey, HasKeyRow, Blocked, Conflict, WindowPasses
<1>4. CalmKept(r)
  BY DEF CalmKept, CalmRowsHold, Live, HoldsFp, WindowPasses
<1>5. Progress(r)'
  BY DEF WindowPasses
<1> QED
  BY <1>1, <1>2, <1>3, <1>4, <1>5 DEF Effect

LEMMA RequestEffect ==
  ASSUME Inv, NEW r \in Req, Advance(r) \/ GoWrong(r) \/ Network(r) \/ WindowPasses(r)
  PROVE  Effect(r)
BY LockEffect, CheckEffect, InsertEffect, SubmitEffect, NetworkEffect, UnansweredEffect,
   RecordEffect, RecoverEffect, AuditEffect, WindowEffect
   DEF Advance, GoWrong, Network

-----------------------------------------------------------------------------
(* Types *)

LEMMA RequestTypes ==
  ASSUME Inv, NEW r \in Req, Advance(r) \/ GoWrong(r) \/ Network(r) \/ WindowPasses(r)
  PROVE  TypeOK' /\ BudgetBounded'
<1> USE RequestAssumption, RetryAssumption
    DEF Inv, TypeOK, Pc, RowState, TxState, Answer, Reply, Fail
<1>1. budget' = budget \/ \E k \in FaultKind : Spend(k)
  BY DEF FaultKind, Advance, GoWrong, Network, AcquireLock, LockBusy, SkipLock, ReleaseLock,
     CheckDuplicate, CheckKey, Refuse, Insert, InsertConflict, Unread, Sign, SignFails, Submit,
     ChainApplies, ChainDrops, SubmitOk, SubmitRejected, SubmitUnanswered, Record, RecordFails,
     RecordThenFails, Recover, RecoverConflict, RecoverFails, Audit, AuditFails, WindowPasses
<1>2. budget' \in [FaultKind -> Nat] /\ BudgetBounded'
  <2>1. CASE budget' = budget
    BY <2>1 DEF BudgetBounded
  <2>2. CASE \E k \in FaultKind : Spend(k)
    BY <2>2, SpendIsNoticed
  <2> QED
    BY <1>1, <2>1, <2>2
<1>3. CASE AcquireLock(r) \/ LockBusy(r) \/ SkipLock(r) \/ ReleaseLock(r)
  <2>1. CASE AcquireLock(r)
    BY <1>2, <2>1 DEF AcquireLock
  <2>2. CASE LockBusy(r)
    BY <1>2, <2>2 DEF LockBusy
  <2>3. CASE SkipLock(r)
    BY <1>2, <2>3 DEF SkipLock
  <2>4. CASE ReleaseLock(r)
    BY <1>2, <2>4 DEF ReleaseLock
  <2> QED
    BY <1>3, <2>1, <2>2, <2>3, <2>4
<1>4. CASE CheckDuplicate(r) \/ CheckKey(r) \/ Refuse(r)
  <2>1. CASE CheckDuplicate(r)
    BY <1>2, <2>1 DEF CheckDuplicate
  <2>2. CASE CheckKey(r)
    BY <1>2, <2>2 DEF CheckKey
  <2>3. CASE Refuse(r)
    BY <1>2, <2>3 DEF Refuse
  <2> QED
    BY <1>4, <2>1, <2>2, <2>3
<1>5. CASE Insert(r) \/ InsertConflict(r) \/ Unread(r)
  <2>1. CASE Insert(r)
    BY <1>2, <2>1 DEF Insert
  <2>2. CASE InsertConflict(r)
    BY <1>2, <2>2 DEF InsertConflict
  <2>3. CASE Unread(r)
    BY <1>2, <2>3 DEF Unread
  <2> QED
    BY <1>5, <2>1, <2>2, <2>3
<1>6. CASE Sign(r) \/ SignFails(r) \/ SubmitOk(r) \/ SubmitRejected(r)
  <2>1. CASE Sign(r)
    BY <1>2, <2>1 DEF Sign
  <2>2. CASE SignFails(r)
    BY <1>2, <2>2 DEF SignFails
  <2>3. CASE SubmitOk(r)
    BY <1>2, <2>3 DEF SubmitOk
  <2>4. CASE SubmitRejected(r)
    BY <1>2, <2>4 DEF SubmitRejected
  <2> QED
    BY <1>6, <2>1, <2>2, <2>3, <2>4
<1>7. CASE Submit(r)
  BY <1>2, <1>7 DEF Submit, PaymentInv, ProgressMatches, Progress
<1>8. CASE ChainApplies(r) \/ ChainDrops(r) \/ WindowPasses(r)
  <2>1. CASE ChainApplies(r)
    BY <1>2, <2>1 DEF ChainApplies
  <2>2. CASE ChainDrops(r)
    BY <1>2, <2>2 DEF ChainDrops
  <2>3. CASE WindowPasses(r)
    BY <1>2, <2>3 DEF WindowPasses
  <2> QED
    BY <1>8, <2>1, <2>2, <2>3
<1>9. CASE SubmitUnanswered(r)
  BY <1>2, <1>9 DEF SubmitUnanswered
<1>10. CASE Record(r) \/ RecordFails(r) \/ RecordThenFails(r)
  <2>1. CASE Record(r)
    BY <1>2, <2>1 DEF Record
  <2>2. CASE RecordFails(r)
    BY <1>2, <2>2 DEF RecordFails
  <2>3. CASE RecordThenFails(r)
    BY <1>2, <2>3 DEF RecordThenFails
  <2> QED
    BY <1>10, <2>1, <2>2, <2>3
<1>11. CASE Recover(r) \/ RecoverConflict(r) \/ RecoverFails(r)
  <2>1. CASE Recover(r)
    BY <1>2, <2>1 DEF Recover
  <2>2. CASE RecoverConflict(r)
    BY <1>2, <2>2 DEF RecoverConflict
  <2>3. CASE RecoverFails(r)
    BY <1>2, <2>3 DEF RecoverFails
  <2> QED
    BY <1>11, <2>1, <2>2, <2>3
<1>12. CASE Audit(r) \/ AuditFails(r)
  BY <1>2, <1>12 DEF Audit, AuditFails
<1> QED
  BY <1>3, <1>4, <1>5, <1>6, <1>7, <1>8, <1>9, <1>10, <1>11, <1>12 DEF Advance, GoWrong, Network

-----------------------------------------------------------------------------
(* The invariant *)

LEMMA InvInit == Init => Inv
<1> SUFFICES ASSUME Init PROVE Inv
  OBVIOUS
<1>1. TypeOK /\ BudgetBounded
  BY FaultAssumption, RetryAssumption
     DEF Init, TypeOK, BudgetBounded, Pc, RowState, TxState, FaultKind
<1>2. \A r \in Req : Progress(r) /\ ~HoldsFp(r) /\ ~HoldsKey(r) /\ answer[r] = None
  BY RetryAssumption DEF Init, Progress, HoldsFp, HoldsKey, HasKeyRow
<1>3. PaymentInv
  BY <1>2, NullAssumption DEF Init, PaymentInv, ProgressMatches, RowsUnique, CalmRowsHold,
     OkIsPaidAndTraceable, ErrorIsUnpaid, Answer
<1> QED
  BY <1>1, <1>3 DEF Inv

\* A crash frees fingerprints and keys, but changes no transaction and no answer.
LEMMA CrashStep ==
  ASSUME Inv, Crash
  PROVE  Inv'
<1> USE DEF Inv, PaymentInv, Crash
<1>1. "crash" \in FaultKind /\ Spend("crash")
  BY DEF FaultKind
<1>2. budget' \in [FaultKind -> Nat] /\ BudgetBounded' /\ budget' # Budget
  BY <1>1, SpendIsNoticed
<1>3. TypeOK'
  BY <1>2 DEF TypeOK, Pc, RowState
<1>4. \A r \in Req : /\ pc'[r] = IF pc[r] \in {"new", "done"} THEN pc[r] ELSE "done"
                     /\ row'[r] = IF row[r] = "open" THEN "none" ELSE row[r]
  OBVIOUS
<1>5. ProgressMatches'
  BY <1>4 DEF ProgressMatches, Progress
<1>6. RowsUnique'
  BY <1>4 DEF RowsUnique, HoldsFp, HoldsKey, HasKeyRow, SameFp, SameKey
<1>7. CalmRowsHold'
  BY <1>2 DEF CalmRowsHold
<1>8. OkIsPaidAndTraceable'
  BY <1>4 DEF OkIsPaidAndTraceable, SameFp, SameKey
<1>9. ErrorIsUnpaid'
  BY DEF ErrorIsUnpaid
<1> QED
  BY <1>2, <1>3, <1>5, <1>6, <1>7, <1>8, <1>9

\* What only touches the lock, or nothing, keeps the invariant.
LEMMA QuietStep ==
  ASSUME Inv, (\E u \in User : LockExpires(u)) \/ UNCHANGED vars
  PROVE  Inv'
<1> USE DEF Inv, LockExpires, vars
<1>1. TypeOK' /\ BudgetBounded'
  BY DEF TypeOK, BudgetBounded
<1>2. UNCHANGED <<pc, row, recovered, audited, tries, tx, answer, unsure, budget>>
  OBVIOUS
<1>3. PaymentInv'
  BY <1>2 DEF PaymentInv, ProgressMatches, Progress, RowsUnique, CalmRowsHold,
     OkIsPaidAndTraceable, ErrorIsUnpaid, HoldsFp, HoldsKey, HasKeyRow, SameFp, SameKey
<1> QED
  BY <1>1, <1>3

LEMMA InvStep == Inv /\ [Next]_vars => Inv'
<1> SUFFICES ASSUME Inv, [Next]_vars PROVE Inv'
  OBVIOUS
<1>1. CASE \E r \in Req : Advance(r) \/ GoWrong(r) \/ Network(r) \/ WindowPasses(r)
  <2> PICK r \in Req : Advance(r) \/ GoWrong(r) \/ Network(r) \/ WindowPasses(r)
    BY <1>1
  <2>1. Effect(r)
    BY RequestEffect
  <2>2. PaymentInv'
    BY <2>1, EffectInv DEF Inv
  <2> QED
    BY <2>2, RequestTypes DEF Inv
<1>2. CASE Crash
  BY <1>2, CrashStep
<1>3. CASE (\E u \in User : LockExpires(u)) \/ UNCHANGED vars
  BY <1>3, QuietStep
<1> QED
  BY <1>1, <1>2, <1>3 DEF Next, Finished

LEMMA Invariance == Spec => []Inv
BY InvInit, InvStep, PTL DEF Spec

-----------------------------------------------------------------------------
(* Theorems *)

\* Every variable stays in its type; no payment is submitted more than
\* MAX_RETRIES times, for any number of requests and faults.
THEOREM PaymentTypes == Spec => []TypeOK
<1>1. Inv => TypeOK
  BY DEF Inv
<1> QED
  BY <1>1, Invariance, PTL

\* processPayment keeps the invariant that relates how far each request is to
\* its row, its transaction, its answer and the rows of the others.
THEOREM PaymentInvariant == Spec => []PaymentInv
<1>1. Inv => PaymentInv
  BY DEF Inv
<1> QED
  BY <1>1, Invariance, PTL

\* Without faults the unique indexes alone keep two requests with one
\* fingerprint or key from both paying.
THEOREM PaidAtMostOnce == Spec => []NeverPaidTwice
<1>1. Inv => NeverPaidTwice
  BY DEF Inv, PaymentInv, NeverPaidTwice, CalmRowsHold, RowsUnique, ProgressMatches, Progress,
     HoldsFp, HoldsKey, HasKeyRow
<1> QED
  BY <1>1, Invariance, PTL

\* An "ok" answer of processPayment reports a payment that is on the network and
\* that the database can account for, whatever fails.
THEOREM OkTheorem == Spec => []OkIsPaidAndTraceable
<1>1. Inv => OkIsPaidAndTraceable
  BY DEF Inv, PaymentInv
<1> QED
  BY <1>1, Invariance, PTL

\* An error of processPayment means that nothing was paid, unless the submission
\* stayed unanswered or compensation failed to its last step.
THEOREM ErrorTheorem == Spec => []ErrorIsUnpaid
<1>1. Inv => ErrorIsUnpaid
  BY DEF Inv, PaymentInv
<1> QED
  BY <1>1, Invariance, PTL

-----------------------------------------------------------------------------
(* The scheduler, which calls processPayment without the endpoint's lock:
   ScheduledPayment.

   The argument: an execution is counted when the row is marked as processing,
   its failure when recordFailure has written what it read.  In between, where
   the executor is tells by how much the counts differ; a request that resets
   one of them finds the payment paused, or is one of two that overlap. *)
USE ScheduledAssumption

Executing == {"pay", "complete", "fail"}
RowStatus == {"none", "pending", "processing", "completed", "paused", "cancelled"}
RowRec  == [status: {"none", "pending", "processing", "completed", "paused", "cancelled"},
            due: BOOLEAN, failures: 0..MaxFailures, notified: BOOLEAN]
ExecRec == [pc: {"idle", "next", "pay", "complete", "fail", "record"}, list: SUBSET Payment,
            cur: Payment \cup {Nil}, count: 0..MaxFailures]
NotifierRec == [pc: {"idle", "next", "note"}, list: SUBSET Payment, cur: Payment \cup {Nil}]

\* The history is counted in naturals, and the jobs are where their lists say.
Counts ==
  /\ paid \in [Payment -> Nat] /\ runs \in [Payment -> Nat] /\ reminded \in [Payment -> Nat]

Places ==
  /\ exec.cur \in Payment <=> exec.pc \in Executing \cup {"record"}
  /\ exec.cur \notin exec.list
  /\ exec.pc = "idle" => exec.list = {}
  /\ exec.pc = "record" => exec.count < MaxFailures
  /\ notifier.cur \in Payment <=> notifier.pc = "note"
  /\ notifier.cur \notin notifier.list
  /\ notifier.pc = "idle" => notifier.list = {}

CallsAreAsked == \A p \in Payment : call[p].cancel + call[p].resume <= asked

InHand(p) == p \in exec.list \/ p = exec.cur

\* A payment that the executor has, or may get, has failed less than MaxFailures
\* times; one that is paused it does not have.
StillTried(p) ==
  /\ InHand(p) \/ rows[p].status \notin {"paused", "cancelled"} => rows[p].failures < MaxFailures
  /\ rows[p].status = "paused" => ~InHand(p)

\* Executions are at most the failures recorded and, in the middle of one, one more.
NoMoreTries(p) ==
  /\ runs[p] <= MaxFailures
  /\ rows[p].status \in {"none", "pending"} \/ p \in exec.list => runs[p] <= rows[p].failures
  /\ p = exec.cur /\ exec.pc \in Executing => runs[p] <= rows[p].failures + 1
  /\ p = exec.cur /\ exec.pc = "record" => runs[p] <= exec.count + 1

\* They are no fewer, unless a row could not be marked or requests overlapped.
NoFewerTries(p) ==
  \/ "db" \in cause[p] \/ asked > 1
  \/ /\ rows[p].failures <= runs[p]
     /\ p = exec.cur /\ exec.pc \in Executing => rows[p].failures + 1 <= runs[p]
     /\ p = exec.cur /\ exec.pc = "record" => exec.count + 1 <= runs[p]
     /\ call[p].resume > 0 => rows[p].status = "paused"

PausedInTime(p) ==
  rows[p].status = "paused" => runs[p] = MaxFailures \/ "db" \in cause[p] \/ asked > 1
RunsIfProcessing(p) == rows[p].status = "processing" => exec.cur = p \/ cause[p] # {}

Retried(p) ==
  StillTried(p) /\ NoMoreTries(p) /\ NoFewerTries(p) /\ PausedInTime(p) /\ RunsIfProcessing(p)

\* A payment with no fault: what the reminder job has read and sent.
Reminders(p) ==
  \/ cause[p] # {}
  \/ /\ p \in notifier.list => reminded[p] = 0
     /\ reminded[p] > 0 => rows[p].notified \/ notifier.cur = p
     /\ reminded[p] <= 1

\* Whoever may still write a cancelled payment had read it before.
LateIsNoted(p) ==
  rows[p].status = "cancelled" => /\ InHand(p) => "executor" \in late[p]
                                  /\ call[p].resume > 0 => "resume" \in late[p]

\* What was paid and answered is known to processPayment.
PaidIsPosted(p) ==
  cause[p] \cap {"unposted", "unanswered", "crash"} = {} =>
    paid[p] <= 1 /\ (paid[p] > 0 => Content[p] \in posted)

Typing == ScheduleTypeOK /\ Counts /\ Places /\ CallsAreAsked
\* Inductive: the executor's position tells how far its counts have diverged.
ScheduledInv == /\ Typing
       /\ \A p \in Payment : Retried(p) /\ Reminders(p) /\ LateIsNoted(p) /\ PaidIsPosted(p)

-----------------------------------------------------------------------------
\* Nothing is scheduled at first.
LEMMA InitInv == ScheduleInit => ScheduledInv
<1> SUFFICES ASSUME ScheduleInit PROVE ScheduledInv
  OBVIOUS
<1>1. Idle \in ExecRec /\ Quiet \in NotifierRec /\ Idle.cur = Nil /\ Idle.pc = "idle"
      /\ Idle.list = {} /\ Quiet.cur = Nil /\ Quiet.pc = "idle" /\ Quiet.list = {}
  BY DEF Idle, Quiet, ExecRec, NotifierRec
<1>2. Typing
  BY <1>1 DEF ScheduleInit, Typing, ScheduleTypeOK, Counts, Places, CallsAreAsked, Executing, ExecRec, NotifierRec
<1>3. \A p \in Payment : Retried(p) /\ Reminders(p) /\ LateIsNoted(p) /\ PaidIsPosted(p)
  BY <1>1
  DEF ScheduleInit, Retried, StillTried, NoMoreTries, NoFewerTries, PausedInTime, RunsIfProcessing,
      Reminders, LateIsNoted, PaidIsPosted, InHand, Executing
<1> QED
  BY <1>2, <1>3 DEF ScheduledInv

-----------------------------------------------------------------------------
(* Types and places *)

\* What writing fields of p's row does.
Wrote(p, s, n, told) ==
  /\ rows' \in [Payment -> RowRec]
  /\ rows'[p].status = s /\ rows'[p].failures = n /\ rows'[p].notified = told
  /\ \A q \in Payment : q # p => rows'[q] = rows[q]

\* A record written to a row in whole.
LEMMA WroteRecord ==
  ASSUME rows \in [Payment -> RowRec], NEW p \in Payment, NEW x \in RowRec,
         rows' = [rows EXCEPT ![p] = x]
  PROVE  Wrote(p, x.status, x.failures, x.notified)
BY DEF Wrote

\* The ways in which the actions write fields of a row.
LEMMA Writing ==
  ASSUME rows \in [Payment -> RowRec], NEW p \in Payment
  PROVE  /\ \A s \in RowStatus : Status(p, s) => Wrote(p, s, rows[p].failures, rows[p].notified)
         /\ \A s \in RowStatus, n \in 0..MaxFailures :
              rows' = [rows EXCEPT ![p].status = s, ![p].failures = n]
                => Wrote(p, s, n, rows[p].notified)
         /\ \A s \in RowStatus, n \in 0..MaxFailures, b \in BOOLEAN :
              rows' = [rows EXCEPT ![p].status = s, ![p].failures = n, ![p].due = b]
                => Wrote(p, s, n, rows[p].notified)
         /\ rows' = [rows EXCEPT ![p].due = TRUE]
              => Wrote(p, rows[p].status, rows[p].failures, rows[p].notified)
         /\ rows' = [rows EXCEPT ![p].notified = TRUE]
              => Wrote(p, rows[p].status, rows[p].failures, TRUE)
<1> DEFINE r == rows[p]
<1>1. r \in RowRec
  OBVIOUS
<1>2. ASSUME NEW s \in RowStatus, Status(p, s) PROVE Wrote(p, s, r.failures, r.notified)
  <2> DEFINE x == [r EXCEPT !.status = s]
  <2>1. x \in RowRec /\ x.status = s /\ x.failures = r.failures /\ x.notified = r.notified
    BY <1>1 DEF RowRec, RowStatus
  <2>2. rows' = [rows EXCEPT ![p] = x]
    BY <1>2 DEF Status
  <2> HIDE DEF x
  <2> QED
    BY <2>1, <2>2, WroteRecord
<1>3. ASSUME NEW s \in RowStatus, NEW n \in 0..MaxFailures,
             rows' = [rows EXCEPT ![p].status = s, ![p].failures = n]
      PROVE  Wrote(p, s, n, r.notified)
  <2> DEFINE x == [r EXCEPT !.status = s, !.failures = n]
  <2>1. x \in RowRec /\ x.status = s /\ x.failures = n /\ x.notified = r.notified
    BY <1>1 DEF RowRec, RowStatus
  <2>2. rows' = [rows EXCEPT ![p] = x]
    BY <1>3
  <2> HIDE DEF x
  <2> QED
    BY <2>1, <2>2, WroteRecord
<1>4. ASSUME NEW s \in RowStatus, NEW n \in 0..MaxFailures, NEW b \in BOOLEAN,
             rows' = [rows EXCEPT ![p].status = s, ![p].failures = n, ![p].due = b]
      PROVE  Wrote(p, s, n, r.notified)
  <2> DEFINE x == [r EXCEPT !.status = s, !.failures = n, !.due = b]
  <2>1. x \in RowRec /\ x.status = s /\ x.failures = n /\ x.notified = r.notified
    BY <1>1 DEF RowRec, RowStatus
  <2>2. rows' = [rows EXCEPT ![p] = x]
    BY <1>4
  <2> HIDE DEF x
  <2> QED
    BY <2>1, <2>2, WroteRecord
<1>5. ASSUME rows' = [rows EXCEPT ![p].due = TRUE] PROVE Wrote(p, r.status, r.failures, r.notified)
  <2> DEFINE x == [r EXCEPT !.due = TRUE]
  <2>1. /\ x \in RowRec /\ x.status = r.status /\ x.failures = r.failures
        /\ x.notified = r.notified
    BY <1>1 DEF RowRec
  <2>2. rows' = [rows EXCEPT ![p] = x]
    BY <1>5
  <2> HIDE DEF x
  <2> QED
    BY <2>1, <2>2, WroteRecord
<1>6. ASSUME rows' = [rows EXCEPT ![p].notified = TRUE] PROVE Wrote(p, r.status, r.failures, TRUE)
  <2> DEFINE x == [r EXCEPT !.notified = TRUE]
  <2>1. x \in RowRec /\ x.status = r.status /\ x.failures = r.failures /\ x.notified = TRUE
    BY <1>1 DEF RowRec
  <2>2. rows' = [rows EXCEPT ![p] = x]
    BY <1>6
  <2> HIDE DEF x
  <2> QED
    BY <2>1, <2>2, WroteRecord
<1> QED
  BY <1>2, <1>3, <1>4, <1>5, <1>6

\* What each action writes to the row it is about.
LEMMA RowEffects ==
  ASSUME Typing, NEW p \in Payment
  PROVE  /\ Mark(p) => Wrote(p, "processing", rows[p].failures, rows[p].notified)
         /\ CreateScheduledPayment(p) => Wrote(p, "pending", rows[p].failures, rows[p].notified)
         /\ Cancel(p) => Wrote(p, "cancelled", rows[p].failures, rows[p].notified)
         /\ Resume(p) => Wrote(p, "pending", 0, rows[p].notified)
         /\ ComesDue(p) => Wrote(p, rows[p].status, rows[p].failures, rows[p].notified)
         /\ Complete /\ p = exec.cur => Wrote(p, "completed", 0, rows[p].notified)
         /\ Note /\ p = notifier.cur => Wrote(p, rows[p].status, rows[p].failures, TRUE)
         /\ RecordFailure /\ p = exec.cur /\ exec.count < MaxFailures =>
              \E s \in {"paused", "pending"} :
                /\ Wrote(p, s, exec.count + 1, rows[p].notified)
                /\ s = "paused" <=> exec.count + 1 >= MaxFailures
<1>1. rows \in [Payment -> RowRec] /\ exec.count \in Nat
  BY DEF Typing, ScheduleTypeOK, RowRec
<1>2. {"pending", "processing", "completed", "paused", "cancelled"} \subseteq RowStatus
  BY DEF RowStatus
<1>3. 0 \in 0..MaxFailures /\ MaxFailures \in Nat
  BY DEF ScheduledAssumption
<1>4. Mark(p) => Wrote(p, "processing", rows[p].failures, rows[p].notified)
  BY <1>1, <1>2, Writing DEF Mark
<1>5. CreateScheduledPayment(p) => Wrote(p, "pending", rows[p].failures, rows[p].notified)
  BY <1>1, <1>2, Writing DEF CreateScheduledPayment
<1>6. Cancel(p) => Wrote(p, "cancelled", rows[p].failures, rows[p].notified)
  BY <1>1, <1>2, Writing DEF Cancel
<1>7. Resume(p) => Wrote(p, "pending", 0, rows[p].notified)
  BY <1>1, <1>2, <1>3, Writing DEF Resume
<1>8. ComesDue(p) => Wrote(p, rows[p].status, rows[p].failures, rows[p].notified)
  BY <1>1, Writing DEF ComesDue
<1>9. Complete /\ p = exec.cur => Wrote(p, "completed", 0, rows[p].notified)
  BY <1>1, <1>2, <1>3, Writing DEF Complete
<1>10. Note /\ p = notifier.cur => Wrote(p, rows[p].status, rows[p].failures, TRUE)
  BY <1>1, Writing DEF Note
<1>11. ASSUME RecordFailure, p = exec.cur, exec.count < MaxFailures
       PROVE  \E s \in {"paused", "pending"} :
                /\ Wrote(p, s, exec.count + 1, rows[p].notified)
                /\ s = "paused" <=> exec.count + 1 >= MaxFailures
  <2>1. exec.count + 1 \in 0..MaxFailures
    BY <1>1, <1>3, <1>11
  <2>2. CASE exec.count + 1 >= MaxFailures
    <3>1. Wrote(p, "paused", exec.count + 1, rows[p].notified)
      BY <1>1, <1>2, <1>11, <2>1, <2>2, Writing DEF RecordFailure
    <3> QED
      BY <2>2, <3>1
  <2>3. CASE ~(exec.count + 1 >= MaxFailures)
    <3>1. Wrote(p, "pending", exec.count + 1, rows[p].notified)
      BY <1>1, <1>2, <1>11, <2>1, <2>3, Writing DEF RecordFailure
    <3> QED
      BY <2>3, <3>1
  <2> QED
    BY <2>2, <2>3
<1> QED
  BY <1>4, <1>5, <1>6, <1>7, <1>8, <1>9, <1>10, <1>11

\* What a request does to the calls.
Called(p, m, n) ==
  /\ call' \in [Payment -> [cancel: 0..Requests, resume: 0..Requests]]
  /\ call'[p].cancel = m /\ call'[p].resume = n
  /\ \A q \in Payment : q # p => call'[q] = call[q]

\* What each request does to the requests that are under way.
LEMMA CallEffects ==
  ASSUME Typing, NEW p \in Payment
  PROVE  /\ Cancel(p) => Called(p, call[p].cancel - 1, call[p].resume)
         /\ Resume(p) => Called(p, call[p].cancel, call[p].resume - 1)
         /\ AskCancel(p) => Called(p, call[p].cancel + 1, call[p].resume)
         /\ AskResume(p) => Called(p, call[p].cancel, call[p].resume + 1)
<1> DEFINE c == call[p]
<1>1. /\ call \in [Payment -> [cancel: 0..Requests, resume: 0..Requests]]
      /\ c \in [cancel: 0..Requests, resume: 0..Requests]
      /\ Requests \in Nat /\ asked \in Nat /\ c.cancel + c.resume <= asked
  BY DEF Typing, ScheduleTypeOK, CallsAreAsked, ScheduledAssumption
<1>2. ASSUME NEW n \in 0..Requests, call' = [call EXCEPT ![p].cancel = n]
      PROVE  Called(p, n, c.resume)
  BY <1>1, <1>2 DEF Called
<1>3. ASSUME NEW n \in 0..Requests, call' = [call EXCEPT ![p].resume = n]
      PROVE  Called(p, c.cancel, n)
  BY <1>1, <1>3 DEF Called
<1>4. Cancel(p) => Called(p, c.cancel - 1, c.resume)
  <2>1. c.cancel > 0 => c.cancel - 1 \in 0..Requests
    BY <1>1
  <2> QED
    BY <1>2, <2>1 DEF Cancel
<1>5. Resume(p) => Called(p, c.cancel, c.resume - 1)
  <2>1. c.resume > 0 => c.resume - 1 \in 0..Requests
    BY <1>1
  <2> QED
    BY <1>3, <2>1 DEF Resume
<1>6. AskCancel(p) => Called(p, c.cancel + 1, c.resume)
  <2>1. asked < Requests => c.cancel + 1 \in 0..Requests
    BY <1>1
  <2> QED
    BY <1>2, <2>1 DEF AskCancel, Asked
<1>7. AskResume(p) => Called(p, c.cancel, c.resume + 1)
  <2>1. asked < Requests => c.resume + 1 \in 0..Requests
    BY <1>1
  <2> QED
    BY <1>3, <2>1 DEF AskResume, Asked
<1> QED
  BY <1>4, <1>5, <1>6, <1>7

\* A fault that happens is one fewer to come.
LEMMA FaultTyping ==
  ASSUME Typing, Fault
  PROVE  faults' \in 0..Faults
BY DEF Typing, ScheduleTypeOK, Fault

\* A fault is noted for the payment it meets, and none is forgotten.
LEMMA BlameTyping ==
  ASSUME Typing, NEW p \in Payment, NEW why \in {"db", "unposted", "unanswered", "crash"}, Blame(p, why)
  PROVE  /\ cause' \in [Payment -> SUBSET {"db", "unposted", "unanswered", "crash"}] /\ faults' \in 0..Faults
         /\ why \in cause'[p] /\ \A q \in Payment : cause[q] \subseteq cause'[q]
<1>1. cause' \in [Payment -> SUBSET {"db", "unposted", "unanswered", "crash"}]
  BY DEF Typing, ScheduleTypeOK, Blame
<1>2. why \in cause'[p] /\ \A q \in Payment : cause[q] \subseteq cause'[q]
  BY DEF Typing, ScheduleTypeOK, Blame
<1> QED
  BY <1>1, <1>2, FaultTyping DEF Blame

\* The executor's next row, or the end of its list.
LEMMA NextRowPlaces ==
  ASSUME Typing, NextRow
  PROVE  /\ exec' \in ExecRec /\ exec'.list = exec.list /\ exec'.cur = Nil
         /\ exec'.pc \in {"idle", "next"} /\ (exec'.pc = "idle" => exec'.list = {})
<1>1. exec' = [pc |-> IF exec.list = {} THEN "idle" ELSE "next", list |-> exec.list,
               cur |-> Nil, count |-> 0]
  BY DEF NextRow, Idle
<1>2. exec.list \in SUBSET Payment /\ 0 \in 0..MaxFailures
  BY DEF Typing, ScheduleTypeOK, ScheduledAssumption
<1> QED
  BY <1>1, <1>2 DEF ExecRec

\* The reminder job's next row, or the end of its list.
LEMMA NotifierNextPlaces ==
  ASSUME Typing, NotifierNext
  PROVE  /\ notifier' \in NotifierRec /\ notifier'.list = notifier.list /\ notifier'.cur = Nil
         /\ notifier'.pc \in {"idle", "next"} /\ (notifier'.pc = "idle" => notifier'.list = {})
<1>1. notifier' = [pc |-> IF notifier.list = {} THEN "idle" ELSE "next", list |-> notifier.list,
                   cur |-> Nil]
  BY DEF NotifierNext, Quiet
<1>2. notifier.list \in SUBSET Payment
  BY DEF Typing, ScheduleTypeOK
<1> QED
  BY <1>1, <1>2 DEF NotifierRec

\* The executor while it has a row.
LEMMA AtRow ==
  ASSUME Typing
  PROVE  /\ exec \in ExecRec /\ notifier \in NotifierRec /\ rows \in [Payment -> RowRec]
         /\ exec.pc \in Executing \cup {"record"} => exec.cur \in Payment
         /\ Nil \notin Payment
BY DEF Typing, ScheduleTypeOK, Places, ExecRec, NotifierRec, RowRec

\* The types and places under the executor's steps ...
LEMMA ExecutorTyping ==
  ASSUME ScheduledInv, Executor \/ ExecutorGoesWrong
  PROVE  Typing'
<1> DEFINE Rest == UNCHANGED <<notifier, call, asked>>
           Placed == /\ exec' \in ExecRec
                     /\ exec'.cur \in Payment <=> exec'.pc \in Executing \cup {"record"}
                     /\ exec'.cur \notin exec'.list
                     /\ exec'.pc = "idle" => exec'.list = {}
                     /\ exec'.pc = "record" => exec'.count < MaxFailures
           Data == /\ rows' \in [Payment -> RowRec] /\ Counts'
                   /\ late' \in [Payment -> SUBSET {"executor", "resume"}]
                   /\ cause' \in [Payment -> SUBSET {"db", "unposted", "unanswered", "crash"}]
                   /\ faults' \in 0..Faults
<1>1. Typing /\ exec \in ExecRec /\ rows \in [Payment -> RowRec] /\ Nil \notin Payment
  BY AtRow DEF ScheduledInv
<1>2. Rest /\ Placed /\ Data => Typing'
  BY <1>1 DEF Typing, ScheduleTypeOK, Places, CallsAreAsked, ExecRec, NotifierRec, RowRec, Executing
<1>3. CASE Tick
  <2>0. PICK due \in SUBSET Payment : exec' = [pc |-> "next", list |-> due, cur |-> Nil, count |-> 0]
    BY <1>3 DEF Tick, Idle
  <2>1. exec' \in ExecRec /\ exec'.pc = "next" /\ exec'.cur = Nil
    BY <2>0 DEF ExecRec, ScheduledAssumption
  <2> QED
    <3>1. exec'.list \subseteq Payment /\ exec'.pc \notin Executing \cup {"record"} /\ exec'.pc # "idle"
      BY <2>0, <2>1 DEF Executing
    <3>2. Placed
      BY <1>1, <2>1, <3>1
    <3>3. Rest /\ Data
      BY <1>1, <1>3 DEF Tick, Typing, ScheduleTypeOK, Counts
    <3> QED
      BY <1>2, <3>2, <3>3
<1>4. ASSUME NEW p \in Payment, Mark(p) PROVE Typing'
  <2>1. Placed
    BY <1>1, <1>4 DEF Mark, ExecutorAt, ExecRec, Executing
  <2>2. Data
    <3>1. rows' \in [Payment -> RowRec]
      BY <1>1, <1>4, RowEffects DEF Wrote
    <3>2. runs' \in [Payment -> Nat]
      BY <1>1, <1>4 DEF Mark, Typing, Counts
    <3> QED
      BY <1>1, <1>4, <3>1, <3>2 DEF Mark, Counts, Typing, ScheduleTypeOK
  <2> QED
    BY <1>2, <1>4, <2>1, <2>2 DEF Mark
<1>5. ASSUME NEW p \in Payment, MarkFails(p) PROVE Typing'
  <2>1. Placed
    BY <1>1, <1>5 DEF MarkFails, ExecutorAt, ExecRec, Executing
  <2>2. Data
    BY <1>1, <1>5, BlameTyping DEF MarkFails, Counts, Typing, ScheduleTypeOK
  <2> QED
    BY <1>2, <1>5, <2>1, <2>2 DEF MarkFails
<1>6. CASE Pay \/ PayRefused \/ PayUnanswered \/ PayUnposted \/ CompleteFails
  <2>1. exec.pc \in Executing /\ exec.cur \in Payment
    BY <1>1, <1>6, AtRow DEF Pay, PayRefused, PayUnanswered, PayUnposted, CompleteFails, ExecutorAt, Executing
  <2>2. PICK l \in {"complete", "fail"} : exec' = [exec EXCEPT !.pc = l]
    BY <1>6 DEF Pay, PayRefused, PayUnanswered, PayUnposted, CompleteFails, Goto
  <2>3. Placed
    BY <1>1, <2>1, <2>2 DEF ExecRec, Executing, Typing, Places
  <2>4. Counts' /\ rows' = rows
    BY <1>1, <1>6, <2>1 DEF Pay, PayRefused, PayUnanswered, PayUnposted, CompleteFails, Counts, Typing
  <2>5. Data
    BY <1>1, <1>6, <2>1, <2>4, BlameTyping
    DEF Pay, PayRefused, PayUnanswered, PayUnposted, CompleteFails, Typing, ScheduleTypeOK
  <2> QED
    BY <1>2, <1>6, <2>3, <2>5 DEF Pay, PayRefused, PayUnanswered, PayUnposted, CompleteFails
<1>7. CASE Complete \/ RecordFailure
  <2>1. exec.cur \in Payment /\ (RecordFailure => exec.count < MaxFailures)
    BY <1>1, <1>7, AtRow DEF Complete, RecordFailure, ExecutorAt, Executing, Typing, Places
  <2>2. Placed
    <3>1. /\ exec' \in ExecRec /\ exec'.list = exec.list /\ exec'.cur = Nil
          /\ exec'.pc \in {"idle", "next"} /\ (exec'.pc = "idle" => exec'.list = {})
      BY <1>1, <1>7, NextRowPlaces DEF Complete, RecordFailure
    <3>2. exec.list \subseteq Payment
      BY <1>1 DEF ExecRec
    <3> QED
      BY <1>1, <3>1, <3>2 DEF Executing
  <2>3. rows' \in [Payment -> RowRec]
    BY <1>1, <1>7, <2>1, RowEffects DEF Wrote
  <2>4. Data
    <3>1. late' \in [Payment -> SUBSET {"executor", "resume"}]
      BY <1>1, <1>7 DEF Complete, RecordFailure, NextRow, Typing, ScheduleTypeOK
    <3> QED
      BY <1>1, <1>7, <2>3, <3>1 DEF Complete, RecordFailure, Counts, Typing, ScheduleTypeOK
  <2> QED
    BY <1>2, <1>7, <2>2, <2>4 DEF Complete, RecordFailure
<1>8. CASE ReadCount
  <2>1. exec.cur \in Payment
    BY <1>1, <1>8, AtRow DEF ReadCount, ExecutorAt, Executing
  <2>2. rows[exec.cur].failures \in 0..MaxFailures /\ rows[exec.cur].failures < MaxFailures
    BY <1>1, <2>1 DEF ScheduledInv, Retried, StillTried, InHand, RowRec
  <2>3. Placed
    BY <1>1, <1>8, <2>1, <2>2 DEF ReadCount, ExecRec, Executing, Typing, Places
  <2> QED
    BY <1>1, <1>2, <1>8, <2>3 DEF ReadCount, Counts, Typing, ScheduleTypeOK
<1>9. CASE CatchFails
  <2>1. exec.cur \in Payment
    BY <1>1, <1>9, AtRow DEF CatchFails, Executing
  <2>2. Placed
    BY <1>1, <1>9 DEF CatchFails, Idle, ExecRec, Executing
  <2>3. Data
    <3>1. late' \in [Payment -> SUBSET {"executor", "resume"}]
      BY <1>1, <1>9 DEF CatchFails, Typing, ScheduleTypeOK
    <3> QED
      BY <1>1, <1>9, <2>1, <3>1, BlameTyping DEF CatchFails, Counts, Typing
  <2> QED
    BY <1>2, <1>9, <2>2, <2>3 DEF CatchFails
<1> QED
  BY <1>3, <1>4, <1>5, <1>6, <1>7, <1>8, <1>9 DEF Executor, ExecutorGoesWrong

\* ... and under everybody else's.
LEMMA OtherTyping ==
  ASSUME ScheduledInv, Notifier \/ NoteFails \/ Answers \/ Users \/ SchedulerDies \/ \E p \in Payment : ComesDue(p)
  PROVE  Typing'
<1>1. /\ Typing /\ exec \in ExecRec /\ notifier \in NotifierRec /\ rows \in [Payment -> RowRec]
      /\ Nil \notin Payment
  BY AtRow DEF ScheduledInv
<1>2. CASE NotifierTick
  <2>1. /\ notifier' \in NotifierRec /\ notifier'.pc = "next" /\ notifier'.cur = Nil
    BY <1>2 DEF NotifierTick, Quiet, NotifierRec
  <2> QED
    BY <1>1, <1>2, <2>1 DEF NotifierTick, Typing, ScheduleTypeOK, Counts, Places, CallsAreAsked, NotifierRec
<1>3. ASSUME NEW p \in Payment, Remind(p) PROVE Typing'
  <2>1. /\ notifier' \in NotifierRec /\ notifier'.pc = "note" /\ notifier'.cur = p
        /\ p \notin notifier'.list
    BY <1>1, <1>3 DEF Remind, NotifierRec
  <2>2. reminded' \in [Payment -> Nat]
    BY <1>1, <1>3 DEF Remind, Typing, Counts
  <2> QED
    BY <1>1, <1>3, <2>1, <2>2 DEF Remind, Typing, ScheduleTypeOK, Counts, Places, CallsAreAsked, NotifierRec
<1>4. CASE Note \/ NoteFails
  <2>1. notifier.cur \in Payment
    BY <1>1, <1>4 DEF Note, NoteFails, Typing, Places
  <2>2. rows' \in [Payment -> RowRec]
    BY <1>1, <1>4, <2>1, RowEffects DEF NoteFails, Wrote
  <2>3. cause' \in [Payment -> SUBSET {"db", "unposted", "unanswered", "crash"}] /\ faults' \in 0..Faults
    BY <1>1, <1>4, <2>1, BlameTyping DEF Note, NoteFails, Typing, ScheduleTypeOK
  <2>4. /\ notifier' \in NotifierRec /\ notifier'.cur = Nil
        /\ notifier'.pc \in {"idle", "next"} /\ (notifier'.pc = "idle" => notifier'.list = {})
    BY <1>1, <1>4, NotifierNextPlaces DEF Note, NoteFails
  <2>5. UNCHANGED <<exec, call, asked, paid, runs, reminded, late>>
    BY <1>4 DEF Note, NoteFails
  <2> QED
    BY <1>1, <2>2, <2>3, <2>4, <2>5
    DEF Typing, ScheduleTypeOK, Counts, Places, CallsAreAsked, NotifierRec, RowRec
<1>5. ASSUME NEW p \in Payment, Cancel(p) \/ Resume(p) PROVE Typing'
  <2>1. rows' \in [Payment -> RowRec]
    BY <1>1, <1>5, RowEffects DEF Wrote
  <2>2. /\ call' \in [Payment -> [cancel: 0..Requests, resume: 0..Requests]]
        /\ \A q \in Payment : call'[q].cancel + call'[q].resume <= call[q].cancel + call[q].resume
    <3>1. call[p].cancel \in Nat /\ call[p].resume \in Nat
      BY <1>1 DEF Typing, ScheduleTypeOK
    <3>2. \A q \in Payment : call[q].cancel + call[q].resume \in Nat
      BY <1>1 DEF Typing, ScheduleTypeOK
    <3> QED
      BY <1>1, <1>5, <3>1, <3>2, CallEffects DEF Called
  <2>3. runs' \in [Payment -> Nat] /\ late' \in [Payment -> SUBSET {"executor", "resume"}]
    <3>1. AtWork(p) \subseteq {"executor", "resume"}
      BY DEF AtWork
    <3>2. runs \in [Payment -> Nat] /\ late \in [Payment -> SUBSET {"executor", "resume"}]
      BY <1>1 DEF Typing, Counts, ScheduleTypeOK
    <3>3. UNCHANGED late \/ late' = [late EXCEPT ![p] = AtWork(p)]
      BY <1>5 DEF Cancel, Resume
    <3>4. UNCHANGED runs \/ runs' = [runs EXCEPT ![p] = 0]
      BY <1>5 DEF Cancel, Resume
    <3> QED
      BY <3>1, <3>2, <3>3, <3>4
  <2>4. CallsAreAsked'
    BY <1>1, <1>5, <2>2 DEF Cancel, Resume, Typing, ScheduleTypeOK, CallsAreAsked
  <2> QED
    BY <1>1, <1>5, <2>1, <2>2, <2>3, <2>4 DEF Cancel, Resume, Typing, ScheduleTypeOK, Counts, Places, RowRec
<1>6. ASSUME NEW p \in Payment, AskCancel(p) \/ AskResume(p) PROVE Typing'
  <2>1. asked' = asked + 1 /\ asked' \in 0..Requests
    BY <1>1, <1>6 DEF AskCancel, AskResume, Asked, Typing, ScheduleTypeOK
  <2>2. call[p].cancel + call[p].resume <= asked
    BY <1>1 DEF Typing, CallsAreAsked
  <2>3. /\ call' \in [Payment -> [cancel: 0..Requests, resume: 0..Requests]]
        /\ CallsAreAsked'
    <3>1. \A q \in Payment : /\ call[q].cancel \in Nat /\ call[q].resume \in Nat
                             /\ call[q].cancel + call[q].resume <= asked
      BY <1>1 DEF Typing, ScheduleTypeOK, CallsAreAsked
    <3>2. asked \in Nat
      BY <1>1 DEF Typing, ScheduleTypeOK
    <3> QED
      BY <1>1, <1>6, <2>1, <3>1, <3>2, CallEffects DEF Called, CallsAreAsked
  <2> QED
    BY <1>1, <1>6, <2>1, <2>3 DEF AskCancel, AskResume, Typing, ScheduleTypeOK, Counts, Places
<1>7. ASSUME NEW p \in Payment, CreateScheduledPayment(p) \/ ComesDue(p) PROVE Typing'
  <2>1. rows' \in [Payment -> RowRec]
    BY <1>1, <1>7, RowEffects DEF Wrote
  <2> QED
    BY <1>1, <1>7, <2>1
    DEF CreateScheduledPayment, ComesDue, Typing, ScheduleTypeOK, Counts, Places, CallsAreAsked, RowRec
<1>8. CASE SchedulerDies
  <2>1. /\ exec' \in ExecRec /\ exec'.pc = "idle" /\ exec'.cur = Nil /\ exec'.list = {}
        /\ notifier' \in NotifierRec /\ notifier'.pc = "idle" /\ notifier'.cur = Nil
        /\ notifier'.list = {}
    BY <1>8 DEF SchedulerDies, Idle, Quiet, ExecRec, NotifierRec
  <2>2. paid' \in [Payment -> Nat]
    BY <1>1, <1>8 DEF SchedulerDies, Typing, Counts
  <2>3. cause' \in [Payment -> SUBSET {"db", "unposted", "unanswered", "crash"}] /\ faults' \in 0..Faults
    BY <1>1, <1>8, FaultTyping DEF SchedulerDies, Typing, ScheduleTypeOK
  <2>4. call' \in [Payment -> [cancel: 0..Requests, resume: 0..Requests]] /\ CallsAreAsked'
    BY <1>1, <1>8 DEF SchedulerDies, Typing, ScheduleTypeOK, CallsAreAsked
  <2>5. UNCHANGED <<rows, asked, posted, runs, reminded>>
        /\ late' \in [Payment -> SUBSET {"executor", "resume"}]
    BY <1>8 DEF SchedulerDies
  <2> QED
    BY <1>1, <2>1, <2>2, <2>3, <2>4, <2>5
    DEF Typing, ScheduleTypeOK, Counts, Places, ExecRec, NotifierRec, Executing
<1> QED
  BY <1>2, <1>3, <1>4, <1>5, <1>6, <1>7, <1>8 DEF Notifier, Answers, Users

-----------------------------------------------------------------------------
(* Tries and failures *)

\* What Retried looks at, in numbers and known strings.
LEMMA Facts ==
  ASSUME ScheduledInv, NEW p \in Payment
  PROVE  /\ Retried(p)
         /\ rows[p] \in RowRec /\ rows[p].failures \in Nat /\ runs[p] \in Nat
         /\ exec \in ExecRec /\ exec.count \in Nat /\ asked \in Nat
         /\ call[p].cancel \in Nat /\ call[p].resume \in Nat
         /\ call[p].cancel + call[p].resume <= asked
         /\ MaxFailures \in Nat /\ MaxFailures > 0
BY AtRow DEF ScheduledInv, Typing, ScheduleTypeOK, Counts, CallsAreAsked, ScheduledAssumption, RowRec, ExecRec

\* A payment that a step does not touch, or that it leaves in the middle of its
\* execution.
LEMMA Aside ==
  ASSUME ScheduledInv, Typing', NEW p \in Payment,
         rows'[p].status = rows[p].status, rows'[p].failures = rows[p].failures,
         runs'[p] = runs[p], cause[p] \subseteq cause'[p],
         asked' >= asked,
         asked' <= 1 => call'[p].resume <= call[p].resume,
         p \in exec'.list => p \in exec.list,
         p = exec'.cur => /\ p = exec.cur
                          /\ \/ exec.pc \in Executing /\ exec'.pc \in Executing
                             \/ exec'.pc = exec.pc /\ exec'.count = exec.count,
         p = exec.cur /\ p # exec'.cur => cause'[p] # {} \/ rows[p].status # "processing"
  PROVE  Retried(p)'
<1>1. /\ Retried(p) /\ rows[p].failures \in Nat /\ runs[p] \in Nat /\ exec.count \in Nat
      /\ asked \in Nat /\ call[p].resume \in Nat /\ MaxFailures \in Nat
  BY Facts
<1>2. asked' \in Nat /\ call'[p].resume \in Nat
  BY DEF Typing, ScheduleTypeOK
<1>3. InHand(p)' => InHand(p)
  BY DEF InHand
<1>4. StillTried(p)'
  BY <1>1, <1>3 DEF Retried, StillTried
<1>5. NoMoreTries(p)'
  BY <1>1 DEF Retried, NoMoreTries, Executing
<1>6. NoFewerTries(p)'
  <2>1. CASE "db" \in cause[p] \/ asked' > 1
    BY <2>1 DEF NoFewerTries
  <2>2. CASE ~("db" \in cause[p] \/ asked' > 1)
    <3>1. asked' <= 1 /\ ~(asked > 1)
      BY <1>1, <1>2, <2>2
    <3>2. /\ rows[p].failures <= runs[p]
          /\ p = exec.cur /\ exec.pc \in Executing => rows[p].failures + 1 <= runs[p]
          /\ p = exec.cur /\ exec.pc = "record" => exec.count + 1 <= runs[p]
          /\ call[p].resume > 0 => rows[p].status = "paused"
      BY <1>1, <2>2, <3>1 DEF Retried, NoFewerTries
    <3>3. call'[p].resume > 0 => rows'[p].status = "paused"
      BY <1>1, <1>2, <3>1, <3>2
    <3> QED
      BY <3>2, <3>3 DEF NoFewerTries, Executing
  <2> QED
    BY <2>1, <2>2
<1>7. PausedInTime(p)'
  BY <1>1, <1>2 DEF Retried, PausedInTime
<1>8. RunsIfProcessing(p)'
  BY <1>1 DEF Retried, RunsIfProcessing
<1> QED
  BY <1>4, <1>5, <1>6, <1>7, <1>8 DEF Retried

\* The executor counts executions and failures together ...
LEMMA ExecutorRetried ==
  ASSUME ScheduledInv, Executor \/ ExecutorGoesWrong, NEW p \in Payment
  PROVE  Retried(p)'
<1>1. /\ Typing /\ Typing' /\ Places /\ exec \in ExecRec /\ rows \in [Payment -> RowRec]
      /\ Nil \notin Payment /\ Places'
  BY ExecutorTyping, AtRow DEF ScheduledInv, Typing
<1>2. /\ Retried(p) /\ rows[p].failures \in Nat /\ runs[p] \in Nat /\ exec.count \in Nat
      /\ asked \in Nat /\ call[p].resume \in Nat /\ MaxFailures \in Nat /\ MaxFailures > 0
  BY Facts
<1>3. CASE Tick
  <2>1. /\ exec.pc = "idle" /\ exec'.cur = Nil
        /\ p \in exec'.list => rows[p].status = "pending"
    BY <1>3 DEF Tick, ExecutorAt, Idle
  <2>2. UNCHANGED <<rows, runs, cause, asked, call>> /\ ~InHand(p) /\ p # exec'.cur
    BY <1>1, <1>3, <2>1 DEF Tick, InHand, Places, Executing
  <2> QED
    BY <1>2, <2>1, <2>2
    DEF Retried, StillTried, NoMoreTries, NoFewerTries, PausedInTime, RunsIfProcessing, InHand
<1>4. ASSUME NEW q \in Payment, Mark(q) PROVE Retried(p)'
  <2>1. /\ Wrote(q, "processing", rows[q].failures, rows[q].notified)
        /\ UNCHANGED <<call, asked, cause>>
    BY <1>1, <1>4, RowEffects DEF Mark
  <2>2. /\ exec'.pc = "pay" /\ exec'.list = exec.list \ {q} /\ exec'.cur = q
        /\ q \in exec.list /\ exec.cur \notin Payment
    BY <1>1, <1>4 DEF Mark, ExecutorAt, ExecRec, Places, Executing
  <2>3. CASE p = q
    <3>1. /\ rows'[p].status = "processing" /\ rows'[p].failures = rows[p].failures
          /\ runs'[p] = runs[p] + 1
      BY <1>1, <1>4, <2>1, <2>3 DEF Wrote, Mark, Typing, Counts
    <3>2. rows[p].failures < MaxFailures /\ runs[p] <= rows[p].failures
      BY <1>2, <2>2, <2>3 DEF Retried, StillTried, NoMoreTries, InHand
    <3>3. /\ StillTried(p)' /\ PausedInTime(p)' /\ RunsIfProcessing(p)'
      BY <2>2, <2>3, <3>1, <3>2 DEF StillTried, PausedInTime, RunsIfProcessing
    <3>4. NoMoreTries(p)'
      BY <1>2, <2>2, <2>3, <3>1, <3>2 DEF NoMoreTries
    <3>5. NoFewerTries(p)'
      <4>1. CASE "db" \in cause[p] \/ asked > 1
        BY <2>1, <4>1 DEF NoFewerTries
      <4>2. CASE ~("db" \in cause[p] \/ asked > 1)
        <5>1. rows[p].failures <= runs[p] /\ (call[p].resume > 0 => rows[p].status = "paused")
          BY <1>2, <4>2 DEF Retried, NoFewerTries
        <5>2. rows[p].status # "paused"
          BY <1>2, <2>2, <2>3 DEF Retried, StillTried, InHand
        <5> QED
          BY <1>2, <2>1, <2>2, <3>1, <5>1, <5>2 DEF NoFewerTries, Executing
      <4> QED
        BY <4>1, <4>2
    <3> QED
      BY <3>3, <3>4, <3>5 DEF Retried
  <2>4. CASE p # q
    <3>1. rows'[p] = rows[p] /\ runs'[p] = runs[p]
      BY <1>1, <1>4, <2>1, <2>4 DEF Wrote, Mark, Typing, Counts
    <3> QED
      BY <1>1, <1>2, <2>1, <2>2, <2>4, <3>1, Aside
  <2> QED
    BY <2>3, <2>4
<1>5. ASSUME NEW q \in Payment, MarkFails(q) PROVE Retried(p)'
  <2>1. /\ UNCHANGED <<rows, call, asked, runs>> /\ "db" \in cause'[q]
        /\ cause[p] \subseteq cause'[p]
    BY <1>1, <1>5, BlameTyping DEF MarkFails
  <2>2. /\ exec'.pc = "fail" /\ exec'.list = exec.list \ {q} /\ exec'.cur = q
        /\ q \in exec.list /\ exec.cur \notin Payment
    BY <1>1, <1>5 DEF MarkFails, ExecutorAt, ExecRec, Places, Executing
  <2>3. CASE p = q
    <3>1. InHand(p) /\ InHand(p)'
      BY <2>2, <2>3 DEF InHand
    <3>2. /\ StillTried(p)' /\ PausedInTime(p)' /\ RunsIfProcessing(p)' /\ NoFewerTries(p)'
      BY <1>2, <2>1, <2>2, <2>3, <3>1
      DEF Retried, StillTried, PausedInTime, RunsIfProcessing, NoFewerTries
    <3>3. NoMoreTries(p)'
      BY <1>2, <2>1, <2>2, <2>3 DEF Retried, NoMoreTries
    <3> QED
      BY <3>2, <3>3 DEF Retried
  <2>4. CASE p # q
    BY <1>1, <1>2, <2>1, <2>2, <2>4, Aside
  <2> QED
    BY <2>3, <2>4
<1>6. CASE Pay \/ PayRefused \/ PayUnanswered \/ PayUnposted \/ CompleteFails
  <2>1. exec.pc \in Executing /\ exec.cur \in Payment
    BY <1>1, <1>6, AtRow DEF Pay, PayRefused, PayUnanswered, PayUnposted, CompleteFails, ExecutorAt, Executing
  <2>2. PICK l \in {"complete", "fail"} : exec' = [exec EXCEPT !.pc = l]
    BY <1>6 DEF Pay, PayRefused, PayUnanswered, PayUnposted, CompleteFails, Goto
  <2>3. exec'.pc \in Executing /\ exec'.list = exec.list /\ exec'.cur = exec.cur
    BY <1>1, <2>2 DEF ExecRec, Executing
  <2>4. cause[p] \subseteq cause'[p] /\ UNCHANGED <<rows, call, asked, runs>>
    BY <1>1, <1>6, <2>1, BlameTyping DEF Pay, PayRefused, PayUnanswered, PayUnposted, CompleteFails
  <2> QED
    BY <1>1, <1>2, <2>1, <2>3, <2>4, Aside
<1>7. CASE Complete
  <2>1. exec.cur \in Payment /\ UNCHANGED <<call, asked, runs, cause>>
    BY <1>1, <1>7, AtRow DEF Complete, ExecutorAt, Executing
  <2>2. Wrote(exec.cur, "completed", 0, rows[exec.cur].notified)
    BY <1>1, <1>7, <2>1, RowEffects
  <2>3. exec'.list = exec.list /\ exec'.cur = Nil
    BY <1>1, <1>7, NextRowPlaces DEF Complete
  <2>4. CASE p = exec.cur
    <3>1. /\ rows'[p].status = "completed" /\ rows'[p].failures = 0 /\ runs'[p] = runs[p]
          /\ ~InHand(p)' /\ p # exec'.cur
      BY <1>1, <2>1, <2>2, <2>3, <2>4 DEF Wrote, InHand, Places
    <3>2. /\ StillTried(p)' /\ PausedInTime(p)' /\ RunsIfProcessing(p)'
      BY <1>2, <3>1 DEF StillTried, PausedInTime, RunsIfProcessing
    <3>3. NoMoreTries(p)'
      BY <1>2, <3>1 DEF Retried, NoMoreTries, InHand
    <3>4. NoFewerTries(p)'
      <4>1. CASE "db" \in cause[p] \/ asked > 1
        BY <2>1, <4>1 DEF NoFewerTries
      <4>2. CASE ~("db" \in cause[p] \/ asked > 1)
        <5>1. call[p].resume > 0 => rows[p].status = "paused"
          BY <1>2, <4>2 DEF Retried, NoFewerTries
        <5>2. rows[p].status # "paused"
          BY <1>2, <2>4 DEF Retried, StillTried, InHand
        <5> QED
          BY <1>2, <2>1, <3>1, <5>1, <5>2 DEF NoFewerTries
      <4> QED
        BY <4>1, <4>2
    <3> QED
      BY <3>2, <3>3, <3>4 DEF Retried
  <2>5. CASE p # exec.cur
    <3>1. rows'[p] = rows[p]
      BY <2>2, <2>5 DEF Wrote
    <3> QED
      BY <1>1, <1>2, <2>1, <2>3, <2>5, <3>1, Aside
  <2> QED
    BY <2>4, <2>5
<1>8. CASE ReadCount
  <2>1. exec.cur \in Payment /\ exec.pc = "fail" /\ UNCHANGED <<rows, call, asked, runs, cause>>
    BY <1>1, <1>8, AtRow DEF ReadCount, ExecutorAt, Executing
  <2>2. /\ exec'.pc = "record" /\ exec'.count = rows[exec.cur].failures /\ exec'.cur = exec.cur
        /\ exec'.list = exec.list
    BY <1>1, <1>8 DEF ReadCount, ExecRec
  <2>3. CASE p = exec.cur
    <3>1. InHand(p)' <=> InHand(p)
      BY <2>2 DEF InHand
    <3>2. /\ StillTried(p)' /\ PausedInTime(p)' /\ RunsIfProcessing(p)'
      BY <1>2, <2>1, <2>2, <3>1 DEF Retried, StillTried, PausedInTime, RunsIfProcessing
    <3>3. NoMoreTries(p)' /\ NoFewerTries(p)'
      BY <1>2, <2>1, <2>2, <2>3 DEF Retried, NoMoreTries, NoFewerTries, Executing
    <3> QED
      BY <3>2, <3>3 DEF Retried
  <2>4. CASE p # exec.cur
    BY <1>1, <1>2, <2>1, <2>2, <2>4, Aside
  <2> QED
    BY <2>3, <2>4
<1>9. CASE RecordFailure
  <2>1. /\ exec.cur \in Payment /\ exec.pc = "record" /\ exec.count < MaxFailures
        /\ UNCHANGED <<call, asked, runs, cause>>
    BY <1>1, <1>9, AtRow DEF RecordFailure, ExecutorAt, Executing, Places
  <2>2. PICK s \in {"paused", "pending"} :
          /\ Wrote(exec.cur, s, exec.count + 1, rows[exec.cur].notified)
          /\ s = "paused" <=> exec.count + 1 >= MaxFailures
    BY <1>1, <1>9, <2>1, RowEffects
  <2>3. exec'.list = exec.list /\ exec'.cur = Nil
    BY <1>1, <1>9, NextRowPlaces DEF RecordFailure
  <2>4. CASE p = exec.cur
    <3>1. /\ rows'[p].status = s /\ rows'[p].failures = exec.count + 1 /\ runs'[p] = runs[p]
          /\ ~InHand(p)' /\ p # exec'.cur /\ p \notin exec'.list
      BY <1>1, <2>1, <2>2, <2>3, <2>4 DEF Wrote, InHand, Places
    <3>2. runs[p] <= exec.count + 1 /\ runs[p] <= MaxFailures
      BY <1>2, <2>1, <2>4 DEF Retried, NoMoreTries
    <3>3. StillTried(p)' /\ RunsIfProcessing(p)' /\ NoMoreTries(p)'
      BY <1>2, <2>1, <2>2, <3>1, <3>2 DEF StillTried, RunsIfProcessing, NoMoreTries
    <3>4. NoFewerTries(p)' /\ PausedInTime(p)'
      <4>1. CASE "db" \in cause[p] \/ asked > 1
        BY <2>1, <4>1 DEF NoFewerTries, PausedInTime
      <4>2. CASE ~("db" \in cause[p] \/ asked > 1)
        <5>1. exec.count + 1 <= runs[p] /\ (call[p].resume > 0 => rows[p].status = "paused")
          BY <1>2, <2>1, <2>4, <4>2 DEF Retried, NoFewerTries
        <5>2. rows[p].status # "paused"
          BY <1>2, <2>4 DEF Retried, StillTried, InHand
        <5>3. s = "paused" => runs[p] = MaxFailures
          BY <1>2, <2>2, <3>2, <5>1
        <5> QED
          BY <1>2, <2>1, <3>1, <5>1, <5>2, <5>3 DEF NoFewerTries, PausedInTime
      <4> QED
        BY <4>1, <4>2
    <3> QED
      BY <3>3, <3>4 DEF Retried
  <2>5. CASE p # exec.cur
    <3>1. rows'[p] = rows[p]
      BY <2>2, <2>5 DEF Wrote
    <3> QED
      BY <1>1, <1>2, <2>1, <2>3, <2>5, <3>1, Aside
  <2> QED
    BY <2>4, <2>5
<1>10. CASE CatchFails
  <2>1. exec.cur \in Payment
    BY <1>1, <1>10, AtRow DEF CatchFails, Executing
  <2>2. /\ UNCHANGED <<rows, call, asked, runs>> /\ "db" \in cause'[exec.cur]
        /\ cause[p] \subseteq cause'[p]
    BY <1>1, <1>10, <2>1, BlameTyping DEF CatchFails
  <2>3. exec'.list = {} /\ exec'.cur = Nil
    BY <1>10 DEF CatchFails, Idle
  <2> QED
    BY <1>1, <1>2, <2>2, <2>3, Aside
<1> QED
  BY <1>3, <1>4, <1>5, <1>6, <1>7, <1>8, <1>9, <1>10 DEF Executor, ExecutorGoesWrong

\* ... and nobody else upsets the two counts unnoticed.
LEMMA OtherRetried ==
  ASSUME ScheduledInv, Notifier \/ NoteFails \/ Answers \/ Users \/ SchedulerDies \/ \E q \in Payment : ComesDue(q),
         NEW p \in Payment
  PROVE  Retried(p)'
<1>1. /\ Typing /\ Typing' /\ Places /\ exec \in ExecRec /\ rows \in [Payment -> RowRec]
      /\ Nil \notin Payment
  BY OtherTyping, AtRow DEF ScheduledInv, Typing
<1>2. /\ Retried(p) /\ rows[p].failures \in Nat /\ runs[p] \in Nat /\ exec.count \in Nat
      /\ asked \in Nat /\ call[p].resume \in Nat /\ call[p].cancel \in Nat
      /\ call[p].cancel + call[p].resume <= asked /\ MaxFailures \in Nat /\ MaxFailures > 0
  BY Facts
<1>3. CASE Notifier \/ NoteFails
  <2>1. UNCHANGED <<exec, call, asked, runs>> /\ cause[p] \subseteq cause'[p]
    <3>1. Note \/ NoteFails => notifier.cur \in Payment
      BY <1>1 DEF Note, NoteFails, Places
    <3> QED
      BY <1>1, <1>3, <3>1, BlameTyping DEF Notifier, NotifierTick, Remind, Note, NoteFails
  <2>2. rows'[p].status = rows[p].status /\ rows'[p].failures = rows[p].failures
    <3>1. CASE Note
      <4>1. notifier.cur \in Payment
        BY <1>1, <3>1 DEF Note, Places
      <4>2. PICK q \in Payment : q = notifier.cur
        BY <4>1
      <4>3. Wrote(q, rows[q].status, rows[q].failures, TRUE)
        BY <1>1, <3>1, <4>2, RowEffects
      <4> QED
        BY <4>3 DEF Wrote
    <3>2. CASE UNCHANGED rows
      BY <3>2
    <3> QED
      BY <1>3, <3>1, <3>2 DEF Notifier, NotifierTick, Remind, NoteFails
  <2> QED
    BY <1>1, <1>2, <2>1, <2>2, Aside
<1>4. ASSUME NEW q \in Payment, ComesDue(q) PROVE Retried(p)'
  <2>1. rows'[p].status = rows[p].status /\ rows'[p].failures = rows[p].failures
    BY <1>1, <1>4, RowEffects DEF Wrote
  <2> QED
    BY <1>1, <1>2, <1>4, <2>1, Aside DEF ComesDue
<1>5. ASSUME NEW q \in Payment, CreateScheduledPayment(q) PROVE Retried(p)'
  <2>1. /\ Wrote(q, "pending", rows[q].failures, rows[q].notified) /\ rows[q].status = "none"
        /\ UNCHANGED <<exec, call, asked, runs, cause>>
    BY <1>1, <1>5, RowEffects DEF CreateScheduledPayment
  <2>2. CASE p = q
    <3>1. rows'[p].status = "pending" /\ rows'[p].failures = rows[p].failures
      BY <2>1, <2>2 DEF Wrote
    <3> QED
      BY <1>2, <2>1, <2>2, <3>1
      DEF Retried, StillTried, NoMoreTries, NoFewerTries, PausedInTime, RunsIfProcessing, InHand
  <2>3. CASE p # q
    BY <1>1, <1>2, <2>1, <2>3, Aside DEF Wrote
  <2> QED
    BY <2>2, <2>3
<1>6. ASSUME NEW q \in Payment, Cancel(q) PROVE Retried(p)'
  <2>1. /\ Wrote(q, "cancelled", rows[q].failures, rows[q].notified)
        /\ Called(q, call[q].cancel - 1, call[q].resume) /\ call[q].cancel > 0
        /\ UNCHANGED <<exec, asked, runs, cause>>
    BY <1>1, <1>6, RowEffects, CallEffects DEF Cancel
  <2>2. call'[p].resume = call[p].resume
    BY <2>1 DEF Called
  <2>3. CASE p = q
    <3>1. /\ rows'[p].status = "cancelled" /\ rows'[p].failures = rows[p].failures
      BY <2>1, <2>3 DEF Wrote
    <3>2. /\ StillTried(p)' /\ NoMoreTries(p)' /\ PausedInTime(p)' /\ RunsIfProcessing(p)'
      BY <1>2, <2>1, <3>1
      DEF Retried, StillTried, NoMoreTries, PausedInTime, RunsIfProcessing, InHand
    <3>3. asked <= 1 => call[p].resume = 0
      BY <1>2, <2>1, <2>3
    <3>4. NoFewerTries(p)'
      BY <1>2, <2>1, <2>2, <3>1, <3>3 DEF Retried, NoFewerTries
    <3> QED
      BY <3>2, <3>4 DEF Retried
  <2>4. CASE p # q
    BY <1>1, <1>2, <2>1, <2>2, <2>4, Aside DEF Wrote
  <2> QED
    BY <2>3, <2>4
<1>7. ASSUME NEW q \in Payment, Resume(q) PROVE Retried(p)'
  <2>1. /\ Wrote(q, "pending", 0, rows[q].notified)
        /\ Called(q, call[q].cancel, call[q].resume - 1) /\ call[q].resume > 0
        /\ UNCHANGED <<exec, asked, cause>>
    BY <1>1, <1>7, RowEffects, CallEffects DEF Resume
  <2>2. CASE p = q
    <3>1. /\ rows'[p].status = "pending" /\ rows'[p].failures = 0 /\ runs'[p] = 0
          /\ call'[p].resume = call[p].resume - 1
      BY <1>1, <1>7, <2>1, <2>2 DEF Wrote, Called, Resume, Typing, Counts
    <3>2. /\ StillTried(p)' /\ NoMoreTries(p)' /\ PausedInTime(p)' /\ RunsIfProcessing(p)'
      BY <1>2, <2>1, <3>1
      DEF Retried, StillTried, NoMoreTries, PausedInTime, RunsIfProcessing
    <3>3. NoFewerTries(p)'
      <4>1. CASE "db" \in cause[p] \/ asked > 1
        BY <2>1, <4>1 DEF NoFewerTries
      <4>2. CASE ~("db" \in cause[p] \/ asked > 1)
        <5>1. rows[p].status = "paused" /\ ~InHand(p)
          BY <1>2, <2>1, <2>2, <4>2 DEF Retried, NoFewerTries, StillTried
        <5>2. call'[p].resume = 0
          BY <1>2, <2>1, <2>2, <3>1, <4>2
        <5> QED
          BY <2>1, <3>1, <5>1, <5>2 DEF NoFewerTries, InHand
      <4> QED
        BY <4>1, <4>2
    <3> QED
      BY <3>2, <3>3 DEF Retried
  <2>3. CASE p # q
    <3>1. runs'[p] = runs[p]
      BY <1>1, <1>7, <2>3 DEF Resume, Typing, Counts
    <3> QED
      BY <1>1, <1>2, <2>1, <2>3, <3>1, Aside DEF Wrote, Called
  <2> QED
    BY <2>2, <2>3
<1>8. ASSUME NEW q \in Payment, AskCancel(q) PROVE Retried(p)'
  <2>1. /\ Called(q, call[q].cancel + 1, call[q].resume) /\ asked' = asked + 1
        /\ UNCHANGED <<rows, exec, runs, cause>>
    BY <1>1, <1>8, CallEffects DEF AskCancel, Asked
  <2>2. call'[p].resume = call[p].resume
    BY <2>1 DEF Called
  <2> QED
    BY <1>1, <1>2, <2>1, <2>2, Aside
<1>9. ASSUME NEW q \in Payment, AskResume(q) PROVE Retried(p)'
  <2>1. /\ Called(q, call[q].cancel, call[q].resume + 1) /\ asked' = asked + 1
        /\ rows[q].status = "paused" /\ UNCHANGED <<rows, exec, runs, cause>>
    BY <1>1, <1>9, CallEffects DEF AskResume, Asked
  <2>2. CASE p = q
    <3>1. /\ StillTried(p)' /\ NoMoreTries(p)' /\ PausedInTime(p)' /\ RunsIfProcessing(p)'
      BY <1>2, <2>1, <2>2
      DEF Retried, StillTried, NoMoreTries, PausedInTime, RunsIfProcessing, InHand
    <3>2. NoFewerTries(p)'
      BY <1>2, <2>1, <2>2 DEF Retried, NoFewerTries
    <3> QED
      BY <3>1, <3>2 DEF Retried
  <2>3. CASE p # q
    BY <1>1, <1>2, <2>1, <2>3, Aside DEF Called
  <2> QED
    BY <2>2, <2>3
<1>10. CASE SchedulerDies
  <2>1. /\ exec'.list = {} /\ exec'.cur = Nil /\ UNCHANGED <<rows, asked, runs>>
        /\ call'[p].resume = 0
    BY <1>10 DEF SchedulerDies, Idle
  <2>2. cause[p] \subseteq cause'[p] /\ (p = exec.cur => cause'[p] # {})
    BY <1>10 DEF SchedulerDies
  <2> QED
    BY <1>1, <1>2, <2>1, <2>2, Aside
<1> QED
  BY <1>3, <1>4, <1>5, <1>6, <1>7, <1>8, <1>9, <1>10 DEF Answers, Users

-----------------------------------------------------------------------------
(* Reminders, cancelled payments and money *)

\* What each step keeps of the causes and of what the row notes.
LEMMA Kept ==
  ASSUME ScheduledInv, ScheduleNext, NEW p \in Payment
  PROVE  /\ cause[p] \subseteq cause'[p]
         /\ rows[p].notified => rows'[p].notified
<1>1. Typing /\ rows \in [Payment -> RowRec]
  BY AtRow DEF ScheduledInv
<1>2. /\ exec.pc \in Executing \cup {"record"} => exec.cur \in Payment
      /\ notifier.pc = "note" => notifier.cur \in Payment
  BY <1>1, AtRow DEF Typing, Places
<1>3. cause[p] \subseteq cause'[p]
  <2>1. ASSUME NEW q \in Payment, NEW why \in {"db", "unposted", "unanswered", "crash"}, Blame(q, why)
        PROVE  cause[p] \subseteq cause'[p]
    BY <1>1, <2>1, BlameTyping
  <2>2. CASE PayUnanswered
    <3>1. exec.cur \in Payment /\ Blame(exec.cur, "unanswered")
      BY <1>2, <2>2 DEF PayUnanswered, ExecutorAt, Executing
    <3> QED
      BY <2>1, <3>1
  <2>9. CASE PayUnposted
    <3>1. exec.cur \in Payment /\ (Blame(exec.cur, "unposted") \/ Blame(exec.cur, "db"))
      BY <1>2, <2>9 DEF PayUnposted, ExecutorAt, Executing
    <3> QED
      BY <2>1, <3>1
  <2>3. CASE CompleteFails \/ CatchFails
    <3>1. exec.cur \in Payment /\ Blame(exec.cur, "db")
      BY <1>2, <2>3 DEF CompleteFails, CatchFails, ExecutorAt, Executing
    <3> QED
      BY <2>1, <3>1
  <2>4. CASE NoteFails
    <3>1. notifier.cur \in Payment /\ Blame(notifier.cur, "db")
      BY <1>2, <2>4 DEF NoteFails
    <3> QED
      BY <2>1, <3>1
  <2>5. ASSUME NEW q \in Payment, MarkFails(q) PROVE cause[p] \subseteq cause'[p]
    <3>1. Blame(q, "db")
      BY <2>5 DEF MarkFails
    <3> QED
      BY <2>1, <3>1
  <2>6. CASE SchedulerDies
    BY <2>6 DEF SchedulerDies
  <2>7. CASE UNCHANGED cause
    BY <2>7
  <2>8. \/ UNCHANGED cause \/ PayUnanswered \/ PayUnposted \/ CompleteFails \/ CatchFails \/ NoteFails \/ SchedulerDies
        \/ \E q \in Payment : MarkFails(q)
    BY DEF ScheduleNext, ScheduleProgress, Users, ExecutorGoesWrong, Executor, Notifier, Answers, Tick, Mark, Pay,
        PayRefused, Complete, ReadCount, RecordFailure, NotifierTick, Remind, Note, AskCancel, Cancel,
        AskResume, Resume, ComesDue, CreateScheduledPayment
  <2> QED
    BY <2>2, <2>3, <2>4, <2>5, <2>6, <2>7, <2>8, <2>9
<1>4. ASSUME NEW q \in Payment, NEW s, NEW n, Wrote(q, s, n, rows[q].notified)
      PROVE  rows[p].notified => rows'[p].notified
  BY <1>1, <1>4 DEF Wrote, RowRec
<1>5. CASE UNCHANGED rows
  BY <1>3, <1>5
<1>6. ASSUME NEW q \in Payment,
             Mark(q) \/ CreateScheduledPayment(q) \/ Cancel(q) \/ Resume(q) \/ ComesDue(q)
      PROVE  rows[p].notified => rows'[p].notified
  <2>1. CASE Mark(q)
    BY <1>1, <1>4, <2>1, RowEffects
  <2>2. CASE CreateScheduledPayment(q)
    BY <1>1, <1>4, <2>2, RowEffects
  <2>3. CASE Cancel(q)
    BY <1>1, <1>4, <2>3, RowEffects
  <2>4. CASE Resume(q)
    BY <1>1, <1>4, <2>4, RowEffects
  <2>5. CASE ComesDue(q)
    BY <1>1, <1>4, <2>5, RowEffects
  <2> QED
    BY <1>6, <2>1, <2>2, <2>3, <2>4, <2>5
<1>7. CASE Complete \/ Note
  <2>1. CASE Complete
    <3>1. PICK q \in Payment : q = exec.cur
      BY <1>2, <2>1 DEF Complete, ExecutorAt, Executing
    <3>2. Wrote(q, "completed", 0, rows[q].notified)
      BY <1>1, <2>1, <3>1, RowEffects
    <3> QED
      BY <1>3, <1>4, <3>2
  <2>2. CASE Note
    <3>1. PICK q \in Payment : q = notifier.cur
      BY <1>2, <2>2 DEF Note
    <3>2. Wrote(q, rows[q].status, rows[q].failures, TRUE)
      BY <1>1, <2>2, <3>1, RowEffects
    <3>3. rows'[q].notified /\ (p # q => rows'[p] = rows[p])
      BY <3>2 DEF Wrote
    <3> QED
      BY <1>3, <3>3
  <2> QED
    BY <1>7, <2>1, <2>2
<1>8. CASE RecordFailure
  <2>1. exec.count < MaxFailures
    BY <1>1, <1>8 DEF RecordFailure, ExecutorAt, Typing, Places
  <2>2. PICK q \in Payment : q = exec.cur
    BY <1>2, <1>8 DEF RecordFailure, ExecutorAt
  <2>3. PICK s : Wrote(q, s, exec.count + 1, rows[q].notified)
    BY <1>1, <1>8, <2>1, <2>2, RowEffects
  <2> QED
    BY <1>3, <1>4, <2>3
<1>9. \/ UNCHANGED rows \/ Complete \/ Note \/ RecordFailure
      \/ \E q \in Payment :
           Mark(q) \/ CreateScheduledPayment(q) \/ Cancel(q) \/ Resume(q) \/ ComesDue(q)
  BY DEF ScheduleNext, ScheduleProgress, Users, ExecutorGoesWrong, Executor, Notifier, Answers, Tick, MarkFails,
      Pay, PayRefused, PayUnanswered, PayUnposted, CompleteFails, ReadCount, CatchFails,
      NotifierTick, Remind, NoteFails, AskCancel, AskResume, SchedulerDies
<1> QED
  BY <1>3, <1>5, <1>6, <1>7, <1>8, <1>9

\* A reminder is followed by its note in the row, or by a fault.
LEMMA RemindersStep ==
  ASSUME ScheduledInv, ScheduleNext, NEW p \in Payment
  PROVE  Reminders(p)'
<1>1. /\ Typing /\ notifier \in NotifierRec /\ Nil \notin Payment /\ Places
      /\ reminded \in [Payment -> Nat]
  BY AtRow DEF ScheduledInv, Typing, Counts
<1>2. Reminders(p) /\ cause[p] \subseteq cause'[p] /\ (rows[p].notified => rows'[p].notified)
  BY Kept DEF ScheduledInv
<1>3. CASE UNCHANGED <<notifier, reminded>>
  BY <1>2, <1>3 DEF Reminders
<1>4. CASE NotifierTick
  <2>1. /\ p \in notifier'.list => ~rows[p].notified
        /\ notifier'.cur = Nil /\ notifier.pc = "idle" /\ UNCHANGED reminded
    BY <1>4 DEF NotifierTick, Quiet
  <2>2. notifier.cur \notin Payment
    BY <1>1, <2>1 DEF Places
  <2> QED
    BY <1>1, <1>2, <2>1, <2>2 DEF Reminders
<1>5. ASSUME NEW q \in Payment, Remind(q) PROVE Reminders(p)'
  <2>1. /\ notifier'.list = notifier.list \ {q} /\ notifier'.cur = q /\ q \in notifier.list
        /\ notifier.cur \notin Payment
    BY <1>1, <1>5 DEF Remind, NotifierRec, Places
  <2>2. reminded'[p] = IF p = q THEN reminded[p] + 1 ELSE reminded[p]
    BY <1>1, <1>5 DEF Remind
  <2> QED
    BY <1>1, <1>2, <2>1, <2>2 DEF Reminders
<1>6. CASE Note
  <2>1. PICK q \in Payment : q = notifier.cur
    BY <1>1, <1>6 DEF Note, Places
  <2>2. rows'[q].notified
    BY <1>1, <1>6, <2>1, RowEffects DEF Wrote
  <2>3. notifier'.list = notifier.list /\ UNCHANGED reminded
    BY <1>1, <1>6, NotifierNextPlaces DEF Note
  <2> QED
    BY <1>2, <2>1, <2>2, <2>3 DEF Reminders
<1>7. CASE NoteFails
  <2>1. PICK q \in Payment : q = notifier.cur
    BY <1>1, <1>7 DEF NoteFails, Places
  <2>2. cause'[q] # {}
    BY <1>1, <1>7, <2>1, BlameTyping DEF NoteFails
  <2>3. notifier'.list = notifier.list /\ UNCHANGED reminded
    BY <1>1, <1>7, NotifierNextPlaces DEF NoteFails
  <2> QED
    BY <1>2, <2>1, <2>2, <2>3 DEF Reminders
<1>8. CASE SchedulerDies
  <2>1. notifier'.list = {} /\ UNCHANGED reminded /\ (p = notifier.cur => cause'[p] # {})
    BY <1>8 DEF SchedulerDies, Quiet
  <2> QED
    BY <1>2, <2>1 DEF Reminders
<1>9. \/ UNCHANGED <<notifier, reminded>> \/ NotifierTick \/ Note \/ NoteFails \/ SchedulerDies
      \/ \E q \in Payment : Remind(q)
  BY DEF ScheduleNext, ScheduleProgress, Users, ExecutorGoesWrong, Executor, Notifier, Answers, Tick, Mark, MarkFails,
      Pay, PayRefused, PayUnanswered, PayUnposted, Complete, CompleteFails, ReadCount, RecordFailure, CatchFails,
      AskCancel, Cancel, AskResume, Resume, ComesDue, CreateScheduledPayment
<1> QED
  BY <1>3, <1>4, <1>5, <1>6, <1>7, <1>8, <1>9

\* A cancelled payment that the executor does not have is written by nothing but a
\* request to resume it.
LEMMA OnlyResumed ==
  ASSUME ScheduledInv, ScheduleNext, NEW p \in Payment, rows[p].status = "cancelled", ~InHand(p)
  PROVE  /\ ~InHand(p)' /\ paid'[p] = paid[p]
         /\ rows'[p].status = "cancelled" \/ call[p].resume > 0
<1>1. /\ Typing /\ rows \in [Payment -> RowRec] /\ exec \in ExecRec /\ Nil \notin Payment /\ Places
      /\ paid \in [Payment -> Nat]
  BY AtRow DEF ScheduledInv, Typing, Counts
<1>2. rows[p].status = "cancelled" /\ ~InHand(p)
  OBVIOUS
<1>3. /\ exec.pc \in Executing \cup {"record"} => exec.cur \in Payment
      /\ notifier.pc = "note" => notifier.cur \in Payment
  BY <1>1, AtRow DEF Places
<1> DEFINE RowKept == rows'[p].status = "cancelled"
           HandKept == ~InHand(p)'
           PaidKept == paid'[p] = paid[p]
<1>4. CASE Tick
  <2>1. p \in exec'.list => rows[p].status = "pending"
    BY <1>4 DEF Tick, Idle
  <2>2. exec'.cur = Nil /\ UNCHANGED <<rows, paid>>
    BY <1>4 DEF Tick, Idle
  <2> QED
    BY <1>1, <1>2, <2>1, <2>2 DEF InHand
<1>5. ASSUME NEW q \in Payment, Mark(q) \/ MarkFails(q) PROVE RowKept /\ HandKept /\ PaidKept
  <2>1. /\ exec'.list = exec.list \ {q} /\ exec'.cur = q /\ q \in exec.list
        /\ UNCHANGED paid
    BY <1>1, <1>5 DEF Mark, MarkFails, ExecRec
  <2>2. p # q
    BY <1>2, <2>1 DEF InHand
  <2>3. rows'[p] = rows[p]
    <3>1. CASE Mark(q)
      <4>1. Wrote(q, "processing", rows[q].failures, rows[q].notified)
        BY <1>1, <3>1, RowEffects
      <4> QED
        BY <1>1, <2>2, <4>1 DEF Wrote
    <3>2. CASE MarkFails(q)
      BY <3>2 DEF MarkFails
    <3> QED
      BY <1>5, <3>1, <3>2
  <2> QED
    BY <1>2, <2>1, <2>2, <2>3 DEF InHand
<1>6. CASE \/ Pay \/ PayRefused \/ PayUnanswered \/ PayUnposted \/ Complete \/ CompleteFails \/ ReadCount
           \/ RecordFailure \/ CatchFails
  <2>1. PICK q \in Payment : q = exec.cur
    BY <1>3, <1>6
    DEF Pay, PayRefused, PayUnanswered, PayUnposted, Complete, CompleteFails, ReadCount, RecordFailure, CatchFails,
        ExecutorAt, Executing
  <2>2. p # q /\ p \notin exec.list
    BY <1>2, <2>1 DEF InHand
  <2>3. HandKept
    <3>1. exec'.list \subseteq exec.list /\ exec'.cur \in {exec.cur, Nil}
      <4>1. CASE Complete \/ RecordFailure
        BY <1>1, <4>1, NextRowPlaces DEF Complete, RecordFailure
      <4>2. CASE CatchFails
        BY <4>2 DEF CatchFails, Idle
      <4>3. CASE Pay \/ PayRefused \/ PayUnanswered \/ PayUnposted \/ CompleteFails \/ ReadCount
        BY <1>1, <4>3 DEF Pay, PayRefused, PayUnanswered, PayUnposted, CompleteFails, ReadCount, Goto, ExecRec
      <4> QED
        BY <1>6, <4>1, <4>2, <4>3
    <3> QED
      BY <1>1, <2>1, <2>2, <3>1 DEF InHand
  <2>4. rows'[p] = rows[p]
    <3>1. CASE Complete
      <4>1. Wrote(q, "completed", 0, rows[q].notified)
        BY <1>1, <2>1, <3>1, RowEffects
      <4> QED
        BY <1>1, <2>2, <4>1 DEF Wrote
    <3>2. CASE RecordFailure
      <4>1. exec.count < MaxFailures
        BY <1>1, <3>2 DEF RecordFailure, ExecutorAt, Places
      <4>2. PICK s : Wrote(q, s, exec.count + 1, rows[q].notified)
        BY <1>1, <2>1, <3>2, <4>1, RowEffects
      <4> QED
        BY <1>1, <2>2, <4>2 DEF Wrote
    <3>3. CASE UNCHANGED rows
      BY <3>3
    <3> QED
      BY <1>6, <3>1, <3>2, <3>3
      DEF Pay, PayRefused, PayUnanswered, PayUnposted, CompleteFails, ReadCount, CatchFails
  <2>5. PaidKept
    BY <1>1, <1>2, <1>6, <2>1, <2>2
    DEF Pay, PayRefused, PayUnanswered, PayUnposted, Complete, CompleteFails, ReadCount, RecordFailure, CatchFails
  <2> QED
    BY <1>2, <2>3, <2>4, <2>5
<1>7. CASE Notifier \/ NoteFails
  <2>1. UNCHANGED <<exec, paid>>
    BY <1>7 DEF Notifier, NotifierTick, Remind, Note, NoteFails
  <2>2. rows'[p].status = rows[p].status
    <3>1. CASE Note
      <4>1. PICK q \in Payment : q = notifier.cur
        BY <1>3, <3>1 DEF Note
      <4>2. Wrote(q, rows[q].status, rows[q].failures, TRUE)
        BY <1>1, <3>1, <4>1, RowEffects
      <4> QED
        BY <1>1, <4>2 DEF Wrote
    <3>2. CASE UNCHANGED rows
      BY <3>2
    <3> QED
      BY <1>7, <3>1, <3>2 DEF Notifier, NotifierTick, Remind, NoteFails
  <2> QED
    BY <1>2, <2>1, <2>2 DEF InHand
<1>8. ASSUME NEW q \in Payment, Cancel(q) \/ Resume(q)
      PROVE  HandKept /\ PaidKept /\ (RowKept \/ call[p].resume > 0)
  <2>1. UNCHANGED <<exec, paid>> /\ (Resume(q) /\ p = q => call[p].resume > 0)
    BY <1>8 DEF Cancel, Resume
  <2>2. RowKept \/ (p = q /\ Resume(q))
    <3>1. CASE Cancel(q)
      BY <1>1, <1>2, <3>1, RowEffects DEF Wrote
    <3>2. CASE Resume(q)
      BY <1>1, <1>2, <3>2, RowEffects DEF Wrote
    <3> QED
      BY <1>8, <3>1, <3>2
  <2> QED
    BY <1>2, <2>1, <2>2 DEF InHand
<1>9. ASSUME NEW q \in Payment, AskCancel(q) \/ AskResume(q)
      PROVE  RowKept /\ HandKept /\ PaidKept
  BY <1>2, <1>9 DEF AskCancel, AskResume, InHand
<1>10. ASSUME NEW q \in Payment, CreateScheduledPayment(q) \/ ComesDue(q)
       PROVE  RowKept /\ HandKept /\ PaidKept
  <2>1. UNCHANGED <<exec, paid>> /\ (CreateScheduledPayment(q) => p # q)
    BY <1>2, <1>10 DEF CreateScheduledPayment, ComesDue
  <2>2. rows'[p].status = rows[p].status
    BY <1>1, <1>10, <2>1, RowEffects DEF Wrote
  <2> QED
    BY <1>2, <2>1, <2>2 DEF InHand
<1>11. CASE SchedulerDies
  <2>1. /\ exec'.list = {} /\ exec'.cur = Nil /\ UNCHANGED rows
    BY <1>1, <1>11 DEF SchedulerDies, Idle
  <2>2. PaidKept
    BY <1>1, <1>2, <1>11 DEF SchedulerDies, InHand
  <2> QED
    BY <1>1, <1>2, <2>1, <2>2 DEF InHand
<1> QED
  BY <1>4, <1>5, <1>6, <1>7, <1>8, <1>9, <1>10, <1>11
  DEF ScheduleNext, ScheduleProgress, Users, ExecutorGoesWrong, Executor, Answers

\* Only a cancellation cancels.
LEMMA OnlyCancelled ==
  ASSUME ScheduledInv, ScheduleNext, NEW p \in Payment,
         rows[p].status # "cancelled", rows'[p].status = "cancelled"
  PROVE  Cancel(p)
<1>1. /\ Typing /\ rows \in [Payment -> RowRec] /\ Places
      /\ exec.pc \in Executing \cup {"record"} => exec.cur \in Payment
  BY AtRow DEF ScheduledInv, Typing
<1>2. ~UNCHANGED rows
  OBVIOUS
<1>3. ASSUME NEW q \in Payment, Mark(q) \/ CreateScheduledPayment(q) \/ Resume(q) \/ ComesDue(q)
      PROVE  FALSE
  BY <1>1, <1>3, RowEffects DEF Wrote
<1>4. ASSUME NEW q \in Payment, Cancel(q) PROVE Cancel(p)
  BY <1>1, <1>4, RowEffects DEF Wrote
<1>5. ASSUME Complete PROVE FALSE
  <2>1. PICK q \in Payment : q = exec.cur
    BY <1>1, <1>5 DEF Complete, ExecutorAt, Executing
  <2>2. Wrote(q, "completed", 0, rows[q].notified)
    BY <1>1, <1>5, <2>1, RowEffects
  <2> QED
    BY <2>2 DEF Wrote
<1>6. ASSUME RecordFailure PROVE FALSE
  <2>1. PICK q \in Payment : q = exec.cur /\ exec.count < MaxFailures
    BY <1>1, <1>6 DEF RecordFailure, ExecutorAt, Executing, Places
  <2>2. PICK st \in {"paused", "pending"} : Wrote(q, st, exec.count + 1, rows[q].notified)
    BY <1>1, <1>6, <2>1, RowEffects
  <2> QED
    BY <2>2 DEF Wrote
<1>7. ASSUME Note PROVE FALSE
  <2>1. PICK q \in Payment : q = notifier.cur
    BY <1>1, <1>7 DEF Note, Places
  <2>2. Wrote(q, rows[q].status, rows[q].failures, TRUE)
    BY <1>1, <1>7, <2>1, RowEffects
  <2> QED
    BY <2>2 DEF Wrote
<1> QED
  BY <1>2, <1>3, <1>4, <1>5, <1>6, <1>7
  DEF ScheduleNext, ScheduleProgress, Users, ExecutorGoesWrong, Executor, Notifier, Answers, Tick, MarkFails,
      Pay, PayRefused, PayUnanswered, PayUnposted, CompleteFails, ReadCount, CatchFails, NotifierTick,
      Remind, NoteFails, AskCancel, AskResume, SchedulerDies

\* Nobody is forgotten among the late before he is through.
LEMMA LateStays ==
  ASSUME ScheduledInv, ScheduleNext, NEW p \in Payment, rows[p].status = "cancelled"
  PROVE  /\ InHand(p)' /\ "executor" \in late[p] => "executor" \in late'[p]
         /\ call'[p].resume > 0 /\ "resume" \in late[p] => "resume" \in late'[p]
         /\ call'[p].resume > 0 => call[p].resume > 0
<1>1. /\ Typing /\ exec \in ExecRec /\ Nil \notin Payment /\ Places
      /\ late \in [Payment -> SUBSET {"executor", "resume"}]
      /\ exec.pc \in Executing \cup {"record"} => exec.cur \in Payment
      /\ call \in [Payment -> [cancel: 0..Requests, resume: 0..Requests]]
  BY AtRow DEF ScheduledInv, Typing, ScheduleTypeOK
<1>2. call'[p].resume > 0 => call[p].resume > 0
  <2>1. ASSUME NEW q \in Payment, Cancel(q) \/ Resume(q) \/ AskCancel(q) \/ AskResume(q)
        PROVE  call'[p].resume > 0 => call[p].resume > 0
    <3>1. call[p].resume \in Nat /\ call[p].resume - 1 <= call[p].resume
      BY <1>1
    <3>2. CASE Cancel(q)
      BY <1>1, <3>2, CallEffects DEF Called
    <3>3. CASE Resume(q)
      BY <1>1, <3>1, <3>3, CallEffects DEF Called, Resume
    <3>4. CASE AskCancel(q)
      BY <1>1, <3>4, CallEffects DEF Called
    <3>5. CASE AskResume(q)
      BY <1>1, <3>5, CallEffects DEF Called, AskResume, Asked
    <3> QED
      BY <2>1, <3>2, <3>3, <3>4, <3>5
  <2>2. CASE UNCHANGED call
    BY <2>2
  <2>3. CASE SchedulerDies
    BY <2>3 DEF SchedulerDies
  <2> QED
    BY <2>1, <2>2, <2>3
    DEF ScheduleNext, ScheduleProgress, Users, ExecutorGoesWrong, Executor, Notifier, Answers, Tick, Mark,
        MarkFails, Pay, PayRefused, PayUnanswered, PayUnposted, Complete, CompleteFails, ReadCount,
        RecordFailure, CatchFails, NotifierTick, Remind, Note, NoteFails, ComesDue,
        CreateScheduledPayment
<1>3. CASE Complete \/ RecordFailure
  <2>1. exec.cur \in Payment /\ exec'.list = exec.list /\ exec'.cur = Nil
        /\ late' = [late EXCEPT ![exec.cur] = @ \ {"executor"}]
    BY <1>1, <1>3, NextRowPlaces DEF Complete, RecordFailure, ExecutorAt, Executing, NextRow
  <2>2. InHand(p)' => p # exec.cur
    BY <1>1, <2>1 DEF InHand, Places
  <2> QED
    BY <1>1, <1>2, <2>1, <2>2
<1>4. CASE CatchFails
  <2>1. late'[p] = late[p] \ {"executor"} /\ exec'.list = {} /\ exec'.cur = Nil
    BY <1>4 DEF CatchFails, Idle
  <2> QED
    BY <1>1, <1>2, <2>1 DEF InHand
<1>5. CASE SchedulerDies
  <2>1. exec'.list = {} /\ exec'.cur = Nil /\ call'[p].resume = 0
    BY <1>5 DEF SchedulerDies, Idle
  <2> QED
    BY <1>1, <2>1 DEF InHand
<1>6. ASSUME NEW q \in Payment, Cancel(q) PROVE late'[p] = late[p]
  BY <1>1, <1>6 DEF Cancel
<1>7. CASE late'[p] = late[p]
  BY <1>2, <1>7
<1> QED
  BY <1>3, <1>4, <1>5, <1>6, <1>7
  DEF ScheduleNext, ScheduleProgress, Users, ExecutorGoesWrong, Executor, Notifier, Answers, Tick, Mark,
      MarkFails, Pay, PayRefused, PayUnanswered, PayUnposted, CompleteFails, ReadCount, NotifierTick,
      Remind, Note, NoteFails, AskCancel, AskResume, Resume, ComesDue, CreateScheduledPayment

\* Whoever is at work on a payment when it is cancelled is noted, and nobody starts
\* to be later.
LEMMA LateStep ==
  ASSUME ScheduledInv, ScheduleNext, NEW p \in Payment
  PROVE  LateIsNoted(p)'
<1> SUFFICES ASSUME rows'[p].status = "cancelled"
             PROVE  /\ InHand(p)' => "executor" \in late'[p]
                    /\ call'[p].resume > 0 => "resume" \in late'[p]
  BY DEF LateIsNoted
<1>1. CASE rows[p].status = "cancelled"
  <2>1. LateIsNoted(p)
    BY DEF ScheduledInv
  <2>2. InHand(p)' => InHand(p)
    BY <1>1, OnlyResumed
  <2> QED
    BY <1>1, <2>1, <2>2, LateStays DEF LateIsNoted
<1>2. CASE rows[p].status # "cancelled"
  <2>1. Cancel(p)
    BY <1>2, OnlyCancelled
  <2>2. late'[p] = AtWork(p) /\ UNCHANGED exec
    BY <1>2, <2>1 DEF Cancel, ScheduledInv, Typing, ScheduleTypeOK
  <2>3. call'[p].resume = call[p].resume
    BY <2>1, CallEffects DEF Called, ScheduledInv
  <2> QED
    BY <2>2, <2>3 DEF AtWork, InHand
<1> QED
  BY <1>1, <1>2

\* processPayment remembers what it has paid, unless a fault came between.
LEMMA PaidStep ==
  ASSUME ScheduledInv, ScheduleNext, NEW p \in Payment
  PROVE  PaidIsPosted(p)'
<1>1. /\ Typing /\ exec \in ExecRec /\ Nil \notin Payment /\ paid \in [Payment -> Nat]
      /\ exec.pc \in Executing \cup {"record"} => exec.cur \in Payment
  BY AtRow DEF ScheduledInv, Typing, Counts
<1>2. PaidIsPosted(p) /\ cause[p] \subseteq cause'[p]
  BY Kept DEF ScheduledInv
<1>3. CASE UNCHANGED <<paid, posted>>
  BY <1>2, <1>3 DEF PaidIsPosted
<1>4. CASE Pay
  <2>1. exec.cur \in Payment
    BY <1>1, <1>4 DEF Pay, ExecutorAt, Executing
  <2>2. CASE Content[exec.cur] \in posted
    BY <1>3, <1>4, <2>2 DEF Pay
  <2>3. CASE Content[exec.cur] \notin posted
    <3>1. /\ paid'[p] = IF p = exec.cur THEN paid[p] + 1 ELSE paid[p]
          /\ posted' = posted \cup {Content[exec.cur]}
      BY <1>1, <1>4, <2>1, <2>3 DEF Pay
    <3> QED
      BY <1>1, <1>2, <2>3, <3>1 DEF PaidIsPosted
  <2> QED
    BY <2>2, <2>3
<1>5. CASE PayUnanswered
  <2>1. exec.cur \in Payment
    BY <1>1, <1>5 DEF PayUnanswered, ExecutorAt, Executing
  <2>2. "unanswered" \in cause'[exec.cur]
    BY <1>1, <1>5, <2>1, BlameTyping DEF PayUnanswered
  <2>3. p # exec.cur => paid'[p] = paid[p]
    BY <1>1, <1>5 DEF PayUnanswered
  <2> QED
    BY <1>2, <1>5, <2>2, <2>3 DEF PayUnanswered, PaidIsPosted
<1>8. CASE PayUnposted
  <2>1. exec.cur \in Payment /\ Content[exec.cur] \notin posted
    BY <1>1, <1>8 DEF PayUnposted, ExecutorAt, Executing
  <2>2. /\ paid'[p] = IF p = exec.cur THEN paid[p] + 1 ELSE paid[p]
        /\ \/ Blame(exec.cur, "unposted") /\ UNCHANGED posted
           \/ posted' = posted \cup {Content[exec.cur]}
    BY <1>1, <1>8, <2>1 DEF PayUnposted
  <2>3. CASE Blame(exec.cur, "unposted") /\ UNCHANGED posted
    <3>1. "unposted" \in cause'[exec.cur]
      BY <1>1, <2>1, <2>3, BlameTyping
    <3> QED
      BY <1>2, <2>2, <2>3, <3>1 DEF PaidIsPosted
  <2>4. CASE posted' = posted \cup {Content[exec.cur]}
    BY <1>1, <1>2, <2>1, <2>2, <2>4 DEF PaidIsPosted
  <2> QED
    BY <2>2, <2>3, <2>4
<1>6. CASE SchedulerDies
  <2>1. p = exec.cur => "crash" \in cause'[p]
    BY <1>6 DEF SchedulerDies
  <2>2. p # exec.cur => paid'[p] = paid[p]
    BY <1>1, <1>6 DEF SchedulerDies
  <2> QED
    BY <1>2, <1>6, <2>1, <2>2 DEF SchedulerDies, PaidIsPosted
<1>7. UNCHANGED <<paid, posted>> \/ Pay \/ PayUnanswered \/ PayUnposted \/ SchedulerDies
  BY DEF ScheduleNext, ScheduleProgress, Users, ExecutorGoesWrong, Executor, Notifier, Answers, Tick, Mark, MarkFails,
      PayRefused, Complete, CompleteFails, ReadCount, RecordFailure, CatchFails,
      NotifierTick, Remind, Note, NoteFails, AskCancel, Cancel, AskResume, Resume, ComesDue,
      CreateScheduledPayment
<1> QED
  BY <1>3, <1>4, <1>5, <1>6, <1>7, <1>8

\* Every step keeps the invariant.
LEMMA ScheduledStep ==
  ASSUME ScheduledInv, [ScheduleNext]_scheduleVars
  PROVE  ScheduledInv'
<1>1. CASE ScheduleNext
  <2>1. \/ Executor \/ ExecutorGoesWrong
        \/ Notifier \/ NoteFails \/ Answers \/ Users \/ SchedulerDies \/ \E q \in Payment : ComesDue(q)
    BY <1>1 DEF ScheduleNext, ScheduleProgress
  <2>2. Typing'
    BY <2>1, ExecutorTyping, OtherTyping
  <2>3. \A p \in Payment : Retried(p)'
    BY <2>1, ExecutorRetried, OtherRetried
  <2>4. \A p \in Payment : Reminders(p)' /\ LateIsNoted(p)' /\ PaidIsPosted(p)'
    BY <1>1, RemindersStep, LateStep, PaidStep
  <2> QED
    BY <2>2, <2>3, <2>4 DEF ScheduledInv
<1>2. CASE UNCHANGED scheduleVars
  BY <1>2
  DEF scheduleVars, ScheduledInv, Typing, ScheduleTypeOK, Counts, Places, CallsAreAsked, Retried, StillTried, NoMoreTries,
      NoFewerTries, PausedInTime, RunsIfProcessing, Reminders, LateIsNoted, PaidIsPosted, InHand
<1> QED
  BY <1>1, <1>2

\* Counts of executions and failures agree, reminders and payments are noted, and
\* only what had read a payment before its cancellation is at work on it after, in
\* every state.
THEOREM ScheduledInvariance == ScheduleSpec => []ScheduledInv
<1>1. ScheduleInit => ScheduledInv
  BY InitInv
<1>2. ScheduledInv /\ [ScheduleNext]_scheduleVars => ScheduledInv'
  BY ScheduledStep
<1> QED
  BY <1>1, <1>2, PTL DEF ScheduleSpec

\* A scheduled payment is paid twice only if an answer was lost, no row could be kept
\* of a payment or the process died, for any number of payments, requests and faults
\* (executionWorker).
THEOREM PaidOnceTheorem == ScheduleSpec => []PaidOnce
<1>1. ScheduledInv => PaidOnce
  BY DEF ScheduledInv, Typing, Counts, PaidIsPosted, PaidOnce
<1> QED
  BY <1>1, ScheduledInvariance, PTL

\* A payment is paused after MaxFailures executions and not before, one that is
\* marked as processing is being executed, and a reminder is sent once, except
\* after the faults and overlapping requests that the properties name.
THEOREM ScheduleTheorem == ScheduleSpec => []ScheduleInv
<1>1. ScheduledInv => ScheduleInv
  <2> SUFFICES ASSUME ScheduledInv PROVE ScheduleInv
    OBVIOUS
  <2>1. ScheduleTypeOK
    BY DEF ScheduledInv, Typing
  <2>2. GivesUp /\ ProcessingIsRunning
    BY DEF ScheduledInv, Retried, NoMoreTries, PausedInTime, RunsIfProcessing, GivesUp, ProcessingIsRunning
  <2>3. RemindedOnce
    BY DEF ScheduledInv, Typing, Counts, Reminders, RemindedOnce
  <2> QED
    BY <2>1, <2>2, <2>3 DEF ScheduleInv
<1> QED
  BY <1>1, ScheduledInvariance, PTL

\* A cancelled payment is revived or paid by nothing but what had read its row
\* before and is not through with it (cancelScheduledPayment, executionWorker).
THEOREM CancelTheorem == ScheduleSpec => CancelIsFinal
<1> DEFINE Final == \A p \in Payment : rows[p].status = "cancelled" =>
                      /\ rows'[p].status # "cancelled" => late[p] # {}
                      /\ paid'[p] > paid[p] => "executor" \in late[p]
<1>1. ScheduledInv /\ [ScheduleNext]_scheduleVars => [Final]_scheduleVars
  <2> SUFFICES ASSUME ScheduledInv, ScheduleNext, NEW p \in Payment, rows[p].status = "cancelled"
               PROVE  /\ rows'[p].status # "cancelled" => late[p] # {}
                      /\ paid'[p] > paid[p] => "executor" \in late[p]
    OBVIOUS
  <2>1. LateIsNoted(p) /\ paid[p] \in Nat
    BY DEF ScheduledInv, Typing, Counts
  <2>2. CASE InHand(p)
    BY <2>1, <2>2 DEF LateIsNoted
  <2>3. CASE ~InHand(p)
    BY <2>1, <2>3, OnlyResumed DEF LateIsNoted
  <2> QED
    BY <2>2, <2>3
<1> QED
  BY <1>1, ScheduledInvariance, PTL DEF ScheduleSpec, CancelIsFinal
=============================================================================
