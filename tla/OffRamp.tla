------------------------------- MODULE OffRamp -------------------------------
(***************************************************************************)
(* backend/services/OffRampService.js: a withdrawal of a stored balance to *)
(* a bank account, paid out by Paystack or, as a fallback, by Monnify,     *)
(* with the models Withdrawal and Balance, the balance cache in Redis and  *)
(* the providers' webhooks.                                                *)
(*                                                                         *)
(* initiateWithdrawal reads the balance through the cache, then inserts    *)
(* the withdrawal and debits the balance in one transaction.  After the    *)
(* commit _processTransfer runs in the background and nothing awaits it.   *)
(* The providers report the outcome by webhook; each webhook is handled by *)
(* a request of its own, concurrently with everything else.  The user may  *)
(* delete the row of the balance at any time (balanceController.js).       *)
(*                                                                         *)
(* PostgreSQL, Redis and the providers are external.                       *)
(***************************************************************************)
EXTENDS Integers, FiniteSetsExt

CONSTANTS
  W,            \* bound: the withdrawals of a behaviour
  Bal, BalOf,   \* rows of balances, and the row a withdrawal debits
  Amount,       \* amount_crypto of a withdrawal
  Opening,      \* the stored balances at the start
  Handler,      \* bound: webhook requests that can be in progress together
  ReturnsId,    \* does INSERT ... RETURNING id yield the id, or a row with it?
  Budget,       \* bound: how often each fault, overlap of webhooks or deletion may happen
  MaxFaults,    \* bound: faults in all
  None          \* null

FaultKind == {"crash", "db", "net", "dup", "back", "overlap", "delete"}

ASSUME WithdrawalAssumption ==
  BalOf \in [W -> Bal] /\ Amount \in [W -> Nat \ {0}] /\ Opening \in [Bal -> Int]
ASSUME DriverAssumption == ReturnsId \subseteq BOOLEAN /\ ReturnsId # {}
ASSUME FaultAssumption == Budget \in [FaultKind -> Nat]

Provider == {"paystack", "monnify"}
Event    == {"success", "failed"}
Notice   == [p : Provider, event : Event]

ASSUME NullAssumption == None \notin Int \cup Provider

VARIABLES
  balance,    \* balances.amount; decrement has no lower bound
  deleted,    \* the rows that no longer exist; balance keeps their last amount
  cache,      \* Redis: balance:user:token, a copy of the row, or None
  pc,         \* where initiateWithdrawal and _processTransfer are
  status,     \* withdrawals.status, "none" before the row exists
  ref,        \* whose provider_reference the row has, or None
  transfer,   \* transfer[w][p]: w's transfer at provider p
  notices,    \* notices[w]: webhooks the providers have still to deliver
  job,        \* job[h]: the webhook request h is working on, or None
  refunds,    \* history: how often w's amount was credited back
  budget

vars == <<balance, deleted, cache, pc, status, ref, transfer, notices, job, refunds, budget>>

-----------------------------------------------------------------------------
(* Values *)

Pc == {"new", "check", "insert", "start", "paystack", "savePaystack", "monnify",
       "saveMonnify", "open", "refund", "done", "refused"}

Status   == {"none", "pending", "processing", "completed", "failed", "reversed"}
Transfer == {"none", "accepted", "paid", "failed", "returned"}
Job      == [w : W, notice : Notice, step : {"find", "complete", "open", "refund"}]

\* How many faults have happened.
Spent == MapThenSumSet(LAMBDA k : Budget[k] - budget[k], FaultKind)

Spend(k) == Spent < MaxFaults /\ budget[k] > 0 /\ budget' = [budget EXCEPT ![k] = @ - 1]

Goto(w, l) == pc' = [pc EXCEPT ![w] = l]
SetStatus(w, s) == status' = [status EXCEPT ![w] = s]
SetTransfer(w, p, t) == transfer' = [transfer EXCEPT ![w][p] = t]

\* Balance.findByUserIdAndTokenId: from the cache, else from the row, which is
\* then cached.  debit and credit leave this cache entry alone.
Found(b)  == cache[b] # None \/ b \notin deleted
Cached(b) == IF cache[b] = None THEN balance[b] ELSE cache[b]
Read(b)   == cache' = IF Found(b) THEN [cache EXCEPT ![b] = Cached(b)] ELSE cache

\* An increment or decrement of a row that is gone changes no row and is no error.
Add(b, n) == balance' = IF b \in deleted THEN balance ELSE [balance EXCEPT ![b] = @ + n]

Init ==
  /\ balance  = Opening
  /\ deleted  = {}
  /\ cache    = [b \in Bal |-> None]
  /\ pc       = [w \in W |-> "new"]
  /\ status   = [w \in W |-> "none"]
  /\ ref      = [w \in W |-> None]
  /\ transfer = [w \in W |-> [p \in Provider |-> "none"]]
  /\ notices  = [w \in W |-> {}]
  /\ job      = [h \in Handler |-> None]
  /\ refunds  = [w \in W |-> 0]
  /\ budget   = Budget

-----------------------------------------------------------------------------
(* initiateWithdrawal *)

\* Step 1: "Insufficient balance", or on to the other checks.
ReadBalance(w) ==
  /\ pc[w] = "new"
  /\ Read(BalOf[w])
  /\ LET b == BalOf[w]
     IN Goto(w, IF Found(b) /\ Cached(b) >= Amount[w] THEN "check" ELSE "refused")
  /\ UNCHANGED <<balance, deleted, status, ref, transfer, notices, job, refunds, budget>>

\* Bank account, token, rates and fee; any of them may refuse.
CheckInputs(w) ==
  /\ pc[w] = "check"
  /\ \E l \in {"insert", "refused"} : Goto(w, l)
  /\ UNCHANGED <<balance, deleted, cache, status, ref, transfer, notices, job, refunds, budget>>

\* What the INSERT of Withdrawal.create may yield.
YieldsId  == TRUE \in ReturnsId
YieldsRow == FALSE \in ReturnsId

\* Step 3: row and debit in one transaction.
Create(w) ==
  /\ pc[w] = "insert" /\ YieldsId
  /\ Add(BalOf[w], -Amount[w])
  /\ SetStatus(w, "pending")
  /\ Goto(w, "start")
  /\ UNCHANGED <<deleted, cache, ref, transfer, notices, job, refunds, budget>>

\* findById is given the returned row instead of its id, and its query fails.
CreateUnread(w) ==
  /\ pc[w] = "insert" /\ YieldsRow
  /\ Goto(w, "refused")
  /\ UNCHANGED <<balance, deleted, cache, status, ref, transfer, notices, job, refunds, budget>>

\* ROLLBACK.
CreateFails(w) ==
  /\ pc[w] = "insert"
  /\ Spend("db")
  /\ Goto(w, "refused")
  /\ UNCHANGED <<balance, deleted, cache, status, ref, transfer, notices, job, refunds>>

-----------------------------------------------------------------------------
(* _processTransfer *)

StartTransfer(w) ==
  /\ pc[w] = "start"
  /\ SetStatus(w, "processing")
  /\ Goto(w, "paystack")
  /\ UNCHANGED <<balance, deleted, cache, ref, transfer, notices, job, refunds, budget>>

\* The first read is outside the try: the promise rejects and is only logged.
\* A failure of updateStatus, or of the read at its end, leads to a refund.
StartFails(w) ==
  /\ pc[w] = "start"
  /\ Spend("db")
  /\ \/ Goto(w, "done") /\ UNCHANGED status
     \/ Goto(w, "open") /\ UNCHANGED status
     \/ Goto(w, "open") /\ SetStatus(w, "processing")
  /\ UNCHANGED <<balance, deleted, cache, ref, transfer, notices, job, refunds>>

PaystackAccepts(w) ==
  /\ pc[w] = "paystack"
  /\ SetTransfer(w, "paystack", "accepted")
  /\ Goto(w, "savePaystack")
  /\ UNCHANGED <<balance, deleted, cache, status, ref, notices, job, refunds, budget>>

\* No recipient, a refusal, or an open circuit breaker.
PaystackRejects(w) ==
  /\ pc[w] = "paystack"
  /\ Goto(w, "monnify")
  /\ UNCHANGED <<balance, deleted, cache, status, ref, transfer, notices, job, refunds, budget>>

\* The breaker gives up after 10 s; the request goes on and may be accepted.
PaystackUnanswered(w) ==
  /\ pc[w] = "paystack"
  /\ Spend("net")
  /\ \E t \in {"none", "accepted"} : SetTransfer(w, "paystack", t)
  /\ Goto(w, "monnify")
  /\ UNCHANGED <<balance, deleted, cache, status, ref, notices, job, refunds>>

\* Mutant: no return after the Paystack transfer.
SavePaystackNoReturn(w) ==
  /\ pc[w] = "savePaystack"
  /\ ref' = [ref EXCEPT ![w] = "paystack"]
  /\ SetStatus(w, "processing")
  /\ Goto(w, "monnify")
  /\ UNCHANGED <<balance, deleted, cache, transfer, notices, job, refunds, budget>>

SavePaystack(w) ==
  /\ pc[w] = "savePaystack"
  /\ ref' = [ref EXCEPT ![w] = "paystack"]
  /\ SetStatus(w, "processing")
  /\ Goto(w, "done")
  /\ UNCHANGED <<balance, deleted, cache, transfer, notices, job, refunds, budget>>

\* The same try holds the transfer and this update: Monnify is asked as well.
SavePaystackFails(w) ==
  /\ pc[w] = "savePaystack"
  /\ Spend("db")
  /\ \/ UNCHANGED <<ref, status>>
     \/ ref' = [ref EXCEPT ![w] = "paystack"] /\ SetStatus(w, "processing")
  /\ Goto(w, "monnify")
  /\ UNCHANGED <<balance, deleted, cache, transfer, notices, job, refunds>>

MonnifyAccepts(w) ==
  /\ pc[w] = "monnify"
  /\ SetTransfer(w, "monnify", "accepted")
  /\ Goto(w, "saveMonnify")
  /\ UNCHANGED <<balance, deleted, cache, status, ref, notices, job, refunds, budget>>

\* Mutant: the error of the fallback is only logged.
MonnifyRejectsLogged(w) ==
  /\ pc[w] = "monnify"
  /\ Goto(w, "done")
  /\ UNCHANGED <<balance, deleted, cache, status, ref, transfer, notices, job, refunds, budget>>

MonnifyRejects(w) ==
  /\ pc[w] = "monnify"
  /\ Goto(w, "open")
  /\ UNCHANGED <<balance, deleted, cache, status, ref, transfer, notices, job, refunds, budget>>

MonnifyUnanswered(w) ==
  /\ pc[w] = "monnify"
  /\ Spend("net")
  /\ \E t \in {"none", "accepted"} : SetTransfer(w, "monnify", t)
  /\ Goto(w, "open")
  /\ UNCHANGED <<balance, deleted, cache, status, ref, notices, job, refunds>>

SaveMonnify(w) ==
  /\ pc[w] = "saveMonnify"
  /\ ref' = [ref EXCEPT ![w] = "monnify"]
  /\ SetStatus(w, "processing")
  /\ Goto(w, "done")
  /\ UNCHANGED <<balance, deleted, cache, transfer, notices, job, refunds, budget>>

SaveMonnifyFails(w) ==
  /\ pc[w] = "saveMonnify"
  /\ Spend("db")
  /\ \/ UNCHANGED <<ref, status>>
     \/ ref' = [ref EXCEPT ![w] = "monnify"] /\ SetStatus(w, "processing")
  /\ Goto(w, "open")
  /\ UNCHANGED <<balance, deleted, cache, transfer, notices, job, refunds>>

-----------------------------------------------------------------------------
(* _handleTransferFailure, run by _processTransfer or by a webhook *)

\* Mutant: the status is not looked at.
NeverSettled(w) == FALSE

\* The first read, without a lock: a failed or reversed withdrawal is left alone.
Settled(w) == status[w] \in {"failed", "reversed"}

\* Status, credit and the second status in one transaction.  Without a balance
\* the first status stays, and no one is credited.
Refund(w) ==
  LET b == BalOf[w] IN
  /\ Read(b)
  /\ Add(b, Amount[w])
  /\ SetStatus(w, IF Found(b) THEN "reversed" ELSE "failed")
  /\ refunds' = [refunds EXCEPT ![w] = IF b \in deleted THEN @ ELSE @ + 1]

OpenRefund(w) ==
  /\ pc[w] = "open"
  /\ Goto(w, IF Settled(w) THEN "done" ELSE "refund")
  /\ UNCHANGED <<balance, deleted, cache, status, ref, transfer, notices, job, refunds, budget>>

DoRefund(w) ==
  /\ pc[w] = "refund"
  /\ Refund(w)
  /\ Goto(w, "done")
  /\ UNCHANGED <<deleted, ref, transfer, notices, job, budget>>

\* ROLLBACK; the error is logged and nothing tries again.
RefundFails(w) ==
  /\ pc[w] \in {"open", "refund"}
  /\ Spend("db")
  /\ Goto(w, "done")
  /\ UNCHANGED <<balance, deleted, cache, status, ref, transfer, notices, job, refunds>>

-----------------------------------------------------------------------------
(* The providers *)

Notify(w, p, e) == notices' = [notices EXCEPT ![w] = @ \cup {[p |-> p, event |-> e]}]

Pay(w, p) ==
  /\ transfer[w][p] = "accepted"
  /\ SetTransfer(w, p, "paid")
  /\ Notify(w, p, "success")
  /\ UNCHANGED <<balance, deleted, cache, pc, status, ref, job, refunds, budget>>

FailToPay(w, p) ==
  /\ transfer[w][p] = "accepted"
  /\ SetTransfer(w, p, "failed")
  /\ Notify(w, p, "failed")
  /\ UNCHANGED <<balance, deleted, cache, pc, status, ref, job, refunds, budget>>

\* The bank sends the money back after it was paid.
Return(w, p) ==
  /\ transfer[w][p] = "paid"
  /\ Spend("back")
  /\ SetTransfer(w, p, "returned")
  /\ Notify(w, p, "failed")
  /\ UNCHANGED <<balance, deleted, cache, pc, status, ref, job, refunds>>

-----------------------------------------------------------------------------
(* Webhooks *)

\* MonnifyService.verifyWebhookSignature calls require, which an ES module does
\* not have: every Monnify webhook ends with 500.
Verifies(p) == p = "paystack"

\* Handlers differ in nothing: a request takes any that is free.
FreeHandler == CHOOSE h \in Handler : job[h] = None

\* A notice is delivered, and perhaps once more later.  Order is not kept.
Receive(h, w, n) ==
  /\ job[h] = None /\ h = FreeHandler /\ n \in notices[w] /\ Verifies(n.p)
  /\ IF \A g \in Handler : job[g] = None
     THEN \/ notices' = [notices EXCEPT ![w] = @ \ {n}] /\ UNCHANGED budget
          \/ Spend("dup") /\ UNCHANGED notices
     ELSE /\ Spend("overlap")
          /\ \/ notices' = [notices EXCEPT ![w] = @ \ {n}]
             \/ UNCHANGED notices
  /\ job' = [job EXCEPT ![h] = [w |-> w, notice |-> n, step |-> "find"]]
  /\ UNCHANGED <<balance, deleted, cache, pc, status, ref, transfer, refunds>>

\* The provider gives up on a webhook that is always answered with 500.
Unverified(w, n) ==
  /\ n \in notices[w] /\ ~Verifies(n.p)
  /\ notices' = [notices EXCEPT ![w] = @ \ {n}]
  /\ UNCHANGED <<balance, deleted, cache, pc, status, ref, transfer, job, refunds, budget>>

\* findByReference; a reference no row has yet is answered with 200.
FindWithdrawal(h) ==
  /\ job[h] # None
  /\ job[h].step = "find"
  /\ LET j == job[h]
         next == IF j.notice.event = "success" THEN "complete" ELSE "open"
     IN job' = [job EXCEPT ![h] =
                  IF ref[j.w] = j.notice.p THEN [j EXCEPT !.step = next] ELSE None]
  /\ UNCHANGED <<balance, deleted, cache, pc, status, ref, transfer, notices, refunds, budget>>

\* updateStatus, whatever the status is by now.
Complete(h) ==
  /\ job[h] # None
  /\ job[h].step = "complete"
  /\ SetStatus(job[h].w, "completed")
  /\ job' = [job EXCEPT ![h] = None]
  /\ UNCHANGED <<balance, deleted, cache, pc, ref, transfer, notices, refunds, budget>>

OpenRefundJob(h) ==
  /\ job[h] # None
  /\ job[h].step = "open"
  /\ job' = [job EXCEPT ![h] =
               IF Settled(job[h].w) THEN None ELSE [job[h] EXCEPT !.step = "refund"]]
  /\ UNCHANGED <<balance, deleted, cache, pc, status, ref, transfer, notices, refunds, budget>>

RefundJob(h) ==
  /\ job[h] # None
  /\ job[h].step = "refund"
  /\ Refund(job[h].w)
  /\ job' = [job EXCEPT ![h] = None]
  /\ UNCHANGED <<deleted, pc, ref, transfer, notices, budget>>

\* A database error before _handleTransferFailure's try, or in the update or the
\* read at its end: 500, and the provider delivers again.  Inside it is swallowed.
JobFails(h) ==
  /\ job[h] # None
  /\ Spend("db")
  /\ \/ /\ job[h].step \in {"find", "complete", "open"}
        /\ notices' = [notices EXCEPT ![job[h].w] = @ \cup {job[h].notice}]
     \/ job[h].step \in {"open", "refund"} /\ UNCHANGED notices
  /\ \/ job[h].step = "complete" /\ SetStatus(job[h].w, "completed")
     \/ UNCHANGED status
  /\ job' = [job EXCEPT ![h] = None]
  /\ UNCHANGED <<balance, deleted, cache, pc, ref, transfer, refunds>>

-----------------------------------------------------------------------------
(* The user, time and crashes *)

\* DELETE /api/balances/:id.  Its DEL of the copy is CacheExpires.
DeleteBalance(b) ==
  /\ b \notin deleted
  /\ Spend("delete")
  /\ deleted' = deleted \cup {b}
  /\ UNCHANGED <<balance, cache, pc, status, ref, transfer, notices, job, refunds>>

\* Balance.update drops the entry, or Redis forgets it: the code asks for 300 s.
CacheExpires(b) ==
  /\ cache[b] # None
  /\ cache' = [cache EXCEPT ![b] = None]
  /\ UNCHANGED <<balance, deleted, pc, status, ref, transfer, notices, job, refunds, budget>>

\* The process dies.  No one resumes a withdrawal; an unanswered webhook is
\* delivered again; a request to a provider may have been accepted.
Crash ==
  /\ (\E w \in W : pc[w] \notin {"new", "done", "refused"}) \/ (\E h \in Handler : job[h] # None)
  /\ Spend("crash")
  /\ pc' = [w \in W |-> IF pc[w] \in {"new", "refused"} THEN pc[w] ELSE "done"]
  /\ \E late \in SUBSET {w \in W : pc[w] \in Provider} :
       transfer' = [w \in W |-> [p \in Provider |->
                      IF w \in late /\ p = pc[w] THEN "accepted" ELSE transfer[w][p]]]
  /\ notices' = [w \in W |-> notices[w] \cup
                   {job[h].notice : h \in {k \in Handler : job[k] # None /\ job[k].w = w}}]
  /\ job' = [h \in Handler |-> None]
  /\ UNCHANGED <<balance, deleted, cache, status, ref, refunds>>

-----------------------------------------------------------------------------
\* What the service does as soon as the event loop gets to it.
Initiate(w) == ReadBalance(w) \/ CheckInputs(w) \/ Create(w) \/ CreateUnread(w)

Proceed(w) ==
  \/ StartTransfer(w) \/ SavePaystack(w) \/ SaveMonnify(w) \/ OpenRefund(w) \/ DoRefund(w)
  \/ PaystackAccepts(w) \/ PaystackRejects(w) \/ MonnifyAccepts(w) \/ MonnifyRejects(w)

GoWrong(w) ==
  \/ CreateFails(w) \/ StartFails(w) \/ PaystackUnanswered(w) \/ SavePaystackFails(w)
  \/ MonnifyUnanswered(w) \/ SaveMonnifyFails(w) \/ RefundFails(w)

Work(h) == FindWithdrawal(h) \/ Complete(h) \/ OpenRefundJob(h) \/ RefundJob(h)

ProviderStep(w) == \E p \in Provider : Pay(w, p) \/ FailToPay(w, p) \/ Return(w, p)

Webhook(w) == \E n \in notices[w] : Unverified(w, n) \/ \E h \in Handler : Receive(h, w, n)

\* Every request is answered and nothing is left to deliver.
Finished ==
  /\ \A w \in W : pc[w] \in {"done", "refused"} /\ notices[w] = {}
  /\ \A h \in Handler : job[h] = None
  /\ UNCHANGED vars

Next ==
  \/ \E w \in W : Initiate(w) \/ Proceed(w) \/ GoWrong(w) \/ ProviderStep(w) \/ Webhook(w)
  \/ \E h \in Handler : Work(h) \/ JobFails(h)
  \/ \E b \in Bal : CacheExpires(b) \/ DeleteBalance(b)
  \/ Crash
  \/ Finished

Spec == Init /\ [][Next]_vars

\* A withdrawal once created goes on, calls to a provider end, a provider decides
\* what it has accepted and delivers its webhooks, and a webhook is worked off.
\* Each of these steps happens a bounded number of times, so one of them always
\* being taken means that every one is.  No one need ask for a withdrawal.
Busy ==
  \/ \E w \in W : Proceed(w) \/ ProviderStep(w) \/ Webhook(w)
  \/ \E h \in Handler : Work(h)

FairSpec == Spec /\ WF_vars(Busy)

-----------------------------------------------------------------------------
(* Properties *)

\* Every variable stays in its type, and the status "failed" outlives its
\* transaction, which goes on to credit and reverse, only without a balance row.
TypeOK ==
  /\ balance \in [Bal -> Int]
  /\ deleted \subseteq Bal
  /\ cache \in [Bal -> Int \cup {None}]
  /\ pc \in [W -> Pc]
  /\ status \in [W -> Status]
  /\ \A w \in W : status[w] = "failed" => BalOf[w] \in deleted
  /\ ref \in [W -> Provider \cup {None}]
  /\ transfer \in [W -> [Provider -> Transfer]]
  /\ notices \in [W -> SUBSET Notice]
  /\ job \in [Handler -> Job \cup {None}]
  /\ refunds \in [W -> Nat]
  /\ budget \in [FaultKind -> Nat]

\* No call to a provider has stayed unanswered and no query has failed.
Calm == budget["net"] = Budget["net"] /\ budget["db"] = Budget["db"]

Out(w, p) == transfer[w][p] \in {"accepted", "paid"}

\* No such fault has happened yet.
Never(k) == budget[k] = Budget[k]

\* As long as providers and database answer, a withdrawal is sent to one provider
\* at most and is never both refunded and (still to be) paid out, whatever crashes
\* and however webhooks are repeated, reordered and handled together; and it is
\* refunded twice only when webhooks were handled together, both before either
\* wrote the status, or money came back after it was paid.
PaidOrRefunded ==
  Calm => \A w \in W :
    /\ \E p \in Provider : transfer[w][p] = "none"
    /\ refunds[w] > 0 => \A p \in Provider : ~Out(w, p)
    /\ Never("overlap") /\ Never("back") => refunds[w] <= 1

Over(w, p) == transfer[w][p] \in {"failed", "returned"}

\* What is known of a withdrawal's transfers from where its code is.
Sent(w) ==
  /\ pc[w] \in {"new", "check", "insert", "start", "paystack", "monnify", "open", "refund",
                "refused"} =>
       \A p \in Provider : transfer[w][p] = "none"
  /\ pc[w] = "savePaystack" => transfer[w]["monnify"] = "none"
  /\ pc[w] = "saveMonnify" => transfer[w]["paystack"] = "none"
  /\ \E p \in Provider : transfer[w][p] = "none"

Referenced(w) ==
  /\ ref[w] # None => pc[w] = "done" /\ transfer[w][ref[w]] # "none"
  /\ pc[w] = "savePaystack" => transfer[w]["paystack"] # "none"
  /\ pc[w] = "saveMonnify" => transfer[w]["monnify"] # "none"

Noticed(w) ==
  \A n \in notices[w] : /\ transfer[w][n.p] # "none"
                        /\ n.event = "failed" => Over(w, n.p)

Refunded(w) ==
  refunds[w] > 0 => pc[w] = "done" /\ \A p \in Provider : ~Out(w, p)

\* A webhook request works on a notice that was sent; past the lookup it knows
\* the withdrawal by its reference.
Grounded(h) ==
  job[h] # None =>
    LET j == job[h] IN
    /\ transfer[j.w][j.notice.p] # "none"
    /\ j.notice.event = "failed" => Over(j.w, j.notice.p)
    /\ j.step \in {"open", "refund"} => ref[j.w] = j.notice.p /\ j.notice.event = "failed"

Orderly ==
  /\ \A w \in W : Sent(w) /\ Referenced(w) /\ Noticed(w) /\ Refunded(w)
  /\ \A h \in Handler : Grounded(h)

\* Until a call stays unanswered or a query fails, where a withdrawal's code is
\* (pc) tells which provider has it, a stored reference names that provider, and
\* a failure webhook exists only when the provider's transfer is over.
OrderInv == Calm => Orderly

\* The withdrawals that the row b has paid for, and amounts together.
Debit == {"pending", "processing", "completed"}

Debited(b) == {w \in W : BalOf[w] = b /\ status[w] \in Debit}

Total(ws) == MapThenSumSet(LAMBDA w : Amount[w], ws)

\* A stored balance is the opening balance less the withdrawals that are not
\* reversed, as long as queries succeed, webhooks are handled one at a time and no
\* money comes back after it was paid: repeated webhooks, crashes and unanswered
\* calls neither lose nor double a refund.
BooksBalance ==
  Never("db") /\ Never("back") /\ Never("overlap") =>
    \A b \in Bal \ deleted : balance[b] = Opening[b] - Total(Debited(b))

\* Unless the process crashes, a query fails or the user deletes the balance, every
\* withdrawal ends, for good, in a provider's hands under a stored reference or
\* refunded.
DebitedIsAnswered ==
  <>[](Never("crash") /\ Never("db") =>
         \A w \in W : status[w] # "none" =>
           ref[w] # None \/ refunds[w] > 0 \/ BalOf[w] \in deleted)

-----------------------------------------------------------------------------
(* What the source, its documents and tests say and the code does not do *)

\* OffRampService.test.js: "should throw error if balance is insufficient".
DebitIsCovered ==
  [][\A w \in W : status[w] = "none" /\ status'[w] = "pending" =>
       balance[BalOf[w]] >= Amount[w]]_vars
=============================================================================
