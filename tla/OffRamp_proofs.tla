---------------------------- MODULE OffRamp_proofs ----------------------------
(***************************************************************************)
(* Theorems about OffRamp for any number of withdrawals, balances, webhook *)
(* requests and faults; and, at the end, about the balances and their      *)
(* copies that withdrawals share with the poller (BalanceSync).            *)
(*                                                                         *)
(* The argument: until a call stays unanswered or a query fails, where a   *)
(* withdrawal's code is (pc) tells which provider has it and under which   *)
(* reference; a webhook that fails the withdrawal exists only when that    *)
(* provider's transfer is over.  Each fact is about one withdrawal and the *)
(* jobs that work on it, so a step disturbs it for that withdrawal only.   *)
(*                                                                         *)
(* The books balance because the row of a withdrawal is written by its own *)
(* code until a reference is stored, and afterwards by one webhook request *)
(* at a time; a webhook that says "success" and one that says "failed" do  *)
(* not both exist, so nothing completes what was reversed.                 *)
(***************************************************************************)
EXTENDS OffRamp, BalanceSync, FiniteSetTheorems, WellFoundedInduction, TLAPS

\* No fault budget ever grows.
BudgetBounded == \A k \in FaultKind : budget[k] <= Budget[k]

\* OrderInv is inductive together with the types and the bound on faults.
Inv == TypeOK /\ BudgetBounded /\ OrderInv

-----------------------------------------------------------------------------
(* Types and budgets *)

\* A spent budget is no longer the initial one, and Calm is lost for good.
LEMMA SpendBounded ==
  ASSUME TypeOK, BudgetBounded, NEW k \in FaultKind, Spend(k)
  PROVE  budget' \in [FaultKind -> Nat] /\ BudgetBounded' /\ budget'[k] # Budget[k]
<1>1. budget[k] \in Nat /\ Budget[k] \in Nat /\ budget[k] <= Budget[k]
  BY FaultAssumption DEF TypeOK, BudgetBounded
<1>2. budget' \in [FaultKind -> Nat] /\ budget'[k] = budget[k] - 1
  BY <1>1 DEF TypeOK, Spend
<1>3. BudgetBounded'
  BY <1>1, FaultAssumption DEF TypeOK, BudgetBounded, Spend
<1> QED
  BY <1>1, <1>2, <1>3

\* A step leaves the budgets or spends one of them.
LEMMA BudgetStep ==
  ASSUME TypeOK, BudgetBounded, budget' = budget \/ \E k \in FaultKind : Spend(k)
  PROVE  /\ budget' \in [FaultKind -> Nat] /\ BudgetBounded'
         /\ Calm' => Calm
<1>1. CASE budget' = budget
  BY <1>1 DEF TypeOK, BudgetBounded, Calm
<1>2. CASE \E k \in FaultKind : Spend(k)
  <2> PICK k \in FaultKind : Spend(k)
    BY <1>2
  <2>1. budget' \in [FaultKind -> Nat] /\ BudgetBounded' /\ budget'[k] # Budget[k]
    BY SpendBounded
  <2>2. \A i \in FaultKind \ {k} : budget'[i] = budget[i]
    BY DEF Spend, TypeOK
  <2>3. Calm' => Calm
    BY <2>1, <2>2 DEF Calm, FaultKind
  <2> QED
    BY <2>1, <2>3
<1> QED
  BY <1>1, <1>2

\* An increment of a row, or of none, leaves integers.
LEMMA AddTypes ==
  ASSUME TypeOK, NEW b \in Bal, NEW n \in Int, Add(b, n)
  PROVE  balance' \in [Bal -> Int]
BY DEF TypeOK, Add

\* What TypeOK says of the statuses.
StatusTyped ==
  /\ status \in [W -> Status]
  /\ \A w \in W : status[w] = "failed" => BalOf[w] \in deleted

LEMMA StatusStays == ASSUME TypeOK, UNCHANGED <<status, deleted>> PROVE StatusTyped'
BY DEF TypeOK, StatusTyped

LEMMA StatusWritten ==
  ASSUME TypeOK, NEW w \in W, NEW s \in Status, SetStatus(w, s), UNCHANGED deleted,
         s = "failed" => BalOf[w] \in deleted
  PROVE  StatusTyped'
BY DEF TypeOK, StatusTyped, SetStatus

\* A refund in full: a balance to credit, or the status "failed" for want of one.
LEMMA RefundTypes ==
  ASSUME TypeOK, NEW w \in W, Refund(w), UNCHANGED deleted
  PROVE  StatusTyped' /\ balance' \in [Bal -> Int] /\ refunds' \in [W -> Nat]
<1>1. PICK s \in {"reversed", "failed"} : SetStatus(w, s) /\ (s = "failed" => BalOf[w] \in deleted)
  BY DEF Refund, Found
<1>2. StatusTyped'
  BY <1>1, StatusWritten DEF Status
<1>3. BalOf[w] \in Bal /\ Amount[w] \in Int
  BY WithdrawalAssumption
<1>4. balance' \in [Bal -> Int]
  BY <1>3, AddTypes DEF Refund
<1>5. refunds' \in [W -> Nat]
  BY DEF Refund, TypeOK
<1> QED
  BY <1>2, <1>4, <1>5

LEMMA NextBudget ==
  ASSUME TypeOK, Next
  PROVE  budget' = budget \/ \E k \in FaultKind : Spend(k)
<1>1. \A w \in W : Initiate(w) => budget' = budget
  BY DEF Initiate, ReadBalance, CheckInputs, Create, CreateUnread
<1>2. \A w \in W : Proceed(w) => budget' = budget
  BY DEF Proceed, StartTransfer, SavePaystack, SaveMonnify, OpenRefund, DoRefund, PaystackAccepts,
     PaystackRejects, MonnifyAccepts, MonnifyRejects
<1>3. \A w \in W : GoWrong(w) => Spend("db") \/ Spend("net")
  BY DEF GoWrong, CreateFails, StartFails, PaystackUnanswered, SavePaystackFails,
     MonnifyUnanswered, SaveMonnifyFails, RefundFails
<1>4. \A w \in W : ProviderStep(w) => budget' = budget \/ Spend("back")
  BY DEF ProviderStep, Pay, FailToPay, Return
<1>5. \A w \in W : Webhook(w) => budget' = budget \/ Spend("dup") \/ Spend("overlap")
  BY DEF Webhook, Receive, Unverified
<1>6. \A h \in Handler : Work(h) \/ JobFails(h) => budget' = budget \/ Spend("db")
  BY DEF Work, FindWithdrawal, Complete, OpenRefundJob, RefundJob, JobFails
<1>7. \A b \in Bal : /\ CacheExpires(b) => budget' = budget
                     /\ DeleteBalance(b) => Spend("delete")
  BY DEF CacheExpires, DeleteBalance
<1>8. (Crash => Spend("crash")) /\ (Finished => budget' = budget)
  BY DEF Crash, Finished, vars
<1> QED
  BY <1>1, <1>2, <1>3, <1>4, <1>5, <1>6, <1>7, <1>8 DEF FaultKind, Next

\* Reading the balance caches what it is or was.
LEMMA ReadTypes ==
  ASSUME TypeOK, NEW b \in Bal, Read(b)
  PROVE  cache' \in [Bal -> Int \cup {None}]
<1>1. Cached(b) \in Int
  BY DEF TypeOK, Cached
<1> QED
  BY <1>1 DEF TypeOK, Read

LEMMA InitiateTypes ==
  ASSUME TypeOK, BudgetBounded, Next, NEW w \in W, Initiate(w) \/ CreateFails(w)
  PROVE  TypeOK'
<1> USE WithdrawalAssumption DEF TypeOK
<1>1. budget' \in [FaultKind -> Nat]
  BY NextBudget, BudgetStep
<1>2. balance' \in [Bal -> Int] /\ UNCHANGED deleted
  <2>1. BalOf[w] \in Bal /\ -Amount[w] \in Int
    OBVIOUS
  <2> QED
    BY <2>1, AddTypes DEF Initiate, ReadBalance, CheckInputs, Create, CreateUnread, CreateFails
<1>3. cache' \in [Bal -> Int \cup {None}]
  BY ReadTypes DEF Initiate, ReadBalance, CheckInputs, Create, CreateUnread, CreateFails
<1>4. pc' \in [W -> Pc]
  BY DEF Pc, Goto, Initiate, ReadBalance, CheckInputs, Create, CreateUnread, CreateFails
<1>5. StatusTyped'
  <2>1. CASE Create(w)
    BY <1>2, <2>1, StatusWritten DEF Create, Status
  <2>2. CASE UNCHANGED status
    BY <1>2, <2>2, StatusStays
  <2> QED
    BY <2>1, <2>2 DEF Initiate, ReadBalance, CheckInputs, CreateUnread, CreateFails
<1>6. ref' \in [W -> Provider \cup {None}] /\ transfer' \in [W -> [Provider -> Transfer]]
  BY DEF Initiate, ReadBalance, CheckInputs, Create, CreateUnread, CreateFails
<1>7. notices' \in [W -> SUBSET Notice] /\ job' \in [Handler -> Job \cup {None}] /\ refunds' \in
    [W -> Nat]
  BY DEF Initiate, ReadBalance, CheckInputs, Create, CreateUnread, CreateFails
<1> QED
  BY <1>1, <1>2, <1>3, <1>4, <1>5, <1>6, <1>7 DEF StatusTyped

LEMMA TransferTypes ==
  ASSUME TypeOK, BudgetBounded, Next, NEW w \in W, Proceed(w) \/ GoWrong(w)
  PROVE  TypeOK'
<1> USE WithdrawalAssumption DEF TypeOK
<1>1. budget' \in [FaultKind -> Nat]
  BY NextBudget, BudgetStep
<1>2. balance' \in [Bal -> Int] /\ UNCHANGED deleted
  BY RefundTypes DEF Proceed, GoWrong, CreateFails, StartTransfer, StartFails, PaystackAccepts,
     PaystackRejects, PaystackUnanswered, SavePaystack, SavePaystackFails, MonnifyAccepts,
     MonnifyRejects, MonnifyUnanswered, SaveMonnify, SaveMonnifyFails, OpenRefund, DoRefund,
     RefundFails
<1>3. cache' \in [Bal -> Int \cup {None}]
  BY ReadTypes DEF Refund, Proceed, GoWrong, CreateFails, StartTransfer, StartFails,
     PaystackAccepts, PaystackRejects, PaystackUnanswered, SavePaystack, SavePaystackFails,
     MonnifyAccepts, MonnifyRejects, MonnifyUnanswered, SaveMonnify, SaveMonnifyFails, OpenRefund,
     DoRefund, RefundFails
<1>4. pc' \in [W -> Pc]
  <2>1. \A l \in Pc : Goto(w, l) => pc' \in [W -> Pc]
    BY DEF Goto
  <2>2. CASE PaystackAccepts(w) \/ PaystackRejects(w) \/ MonnifyAccepts(w) \/ MonnifyRejects(w)
    BY <2>1, <2>2 DEF Pc, PaystackAccepts, PaystackRejects, MonnifyAccepts, MonnifyRejects
  <2>3. CASE StartTransfer(w) \/ SavePaystack(w) \/ SaveMonnify(w)
    BY <2>1, <2>3 DEF Pc, StartTransfer, SavePaystack, SaveMonnify
  <2>4. CASE OpenRefund(w) \/ DoRefund(w)
    BY <2>1, <2>4 DEF Pc, OpenRefund, DoRefund
  <2>5. CASE CreateFails(w) \/ StartFails(w) \/ RefundFails(w)
    BY <2>1, <2>5 DEF Pc, CreateFails, StartFails, RefundFails
  <2>6. CASE \/ PaystackUnanswered(w) \/ SavePaystackFails(w)
             \/ MonnifyUnanswered(w) \/ SaveMonnifyFails(w)
    BY <2>1, <2>6 DEF Pc, PaystackUnanswered, SavePaystackFails, MonnifyUnanswered,
       SaveMonnifyFails
  <2> QED
    BY <2>2, <2>3, <2>4, <2>5, <2>6 DEF Proceed, GoWrong
<1>5. StatusTyped'
  <2>1. CASE DoRefund(w)
    BY <1>2, <2>1, RefundTypes DEF DoRefund
  <2>2. CASE SetStatus(w, "processing")
    BY <1>2, <2>2, StatusWritten DEF Status
  <2>3. CASE UNCHANGED status
    BY <1>2, <2>3, StatusStays
  <2> QED
    BY <2>1, <2>2, <2>3 DEF Proceed, GoWrong, CreateFails, StartTransfer, StartFails,
       PaystackAccepts, PaystackRejects, PaystackUnanswered, SavePaystack, SavePaystackFails,
       MonnifyAccepts, MonnifyRejects, MonnifyUnanswered, SaveMonnify, SaveMonnifyFails,
       OpenRefund, RefundFails
<1>6. ref' \in [W -> Provider \cup {None}]
  BY DEF Provider, Proceed, GoWrong, CreateFails, StartTransfer, StartFails, PaystackAccepts,
     PaystackRejects, PaystackUnanswered, SavePaystack, SavePaystackFails, MonnifyAccepts,
     MonnifyRejects, MonnifyUnanswered, SaveMonnify, SaveMonnifyFails, OpenRefund, DoRefund,
     RefundFails
<1>7. transfer' \in [W -> [Provider -> Transfer]]
  <2>1. \A p \in Provider, t \in Transfer :
          SetTransfer(w, p, t) => transfer' \in [W -> [Provider -> Transfer]]
    BY DEF SetTransfer
  <2>2. CASE PaystackAccepts(w) \/ PaystackUnanswered(w)
    BY <2>1, <2>2 DEF PaystackAccepts, PaystackUnanswered, Provider, Transfer
  <2>3. CASE MonnifyAccepts(w) \/ MonnifyUnanswered(w)
    BY <2>1, <2>3 DEF MonnifyAccepts, MonnifyUnanswered, Provider, Transfer
  <2>4. CASE transfer' = transfer
    BY <2>4
  <2> QED
    BY <2>2, <2>3, <2>4 DEF Proceed, GoWrong, CreateFails, StartTransfer, StartFails,
       PaystackRejects, SavePaystack, SavePaystackFails, MonnifyRejects, SaveMonnify,
       SaveMonnifyFails, OpenRefund, DoRefund, Refund, RefundFails
<1>8. notices' \in [W -> SUBSET Notice] /\ job' \in [Handler -> Job \cup {None}]
  BY DEF Proceed, GoWrong, CreateFails, StartTransfer, StartFails, PaystackAccepts,
     PaystackRejects, PaystackUnanswered, SavePaystack, SavePaystackFails, MonnifyAccepts,
     MonnifyRejects, MonnifyUnanswered, SaveMonnify, SaveMonnifyFails, OpenRefund, DoRefund,
     RefundFails
<1>9. refunds' \in [W -> Nat]
  <2>1. CASE DoRefund(w)
    BY <1>2, <2>1, RefundTypes DEF DoRefund
  <2>2. CASE ~DoRefund(w)
    BY <2>2 DEF Proceed, GoWrong, CreateFails, StartTransfer, StartFails, PaystackAccepts,
       PaystackRejects, PaystackUnanswered, SavePaystack, SavePaystackFails, MonnifyAccepts,
       MonnifyRejects, MonnifyUnanswered, SaveMonnify, SaveMonnifyFails, OpenRefund, RefundFails
  <2> QED
    BY <2>1, <2>2
<1> QED
  BY <1>1, <1>2, <1>3, <1>4, <1>5, <1>6, <1>7, <1>8, <1>9 DEF StatusTyped

LEMMA ProviderTypes ==
  ASSUME TypeOK, BudgetBounded, Next, NEW w \in W, ProviderStep(w)
  PROVE  TypeOK'
<1> USE WithdrawalAssumption DEF TypeOK
<1>1. budget' \in [FaultKind -> Nat]
  BY NextBudget, BudgetStep
<1>2. balance' \in [Bal -> Int] /\ cache' \in [Bal -> Int \cup {None}]
      /\ UNCHANGED <<deleted, status>>
  BY DEF ProviderStep, Pay, FailToPay, Return
<1>3. pc' \in [W -> Pc] /\ ref' \in [W -> Provider \cup {None}]
  BY DEF ProviderStep, Pay, FailToPay, Return
<1>4. transfer' \in [W -> [Provider -> Transfer]]
  <2>1. PICK p \in Provider, t \in Transfer : SetTransfer(w, p, t)
    BY DEF ProviderStep, Pay, FailToPay, Return, Transfer
  <2>2. transfer' = [transfer EXCEPT ![w] = [@ EXCEPT ![p] = t]]
    BY <2>1 DEF SetTransfer
  <2> QED
    BY <2>2
<1>5. notices' \in [W -> SUBSET Notice]
  <2>1. PICK p \in Provider, e \in Event : Notify(w, p, e)
    BY DEF ProviderStep, Pay, FailToPay, Return, Event
  <2> DEFINE n == [p |-> p, event |-> e]
  <2>2. n \in Notice
    BY DEF Notice
  <2>3. notices' = [notices EXCEPT ![w] = @ \cup {n}]
    BY <2>1 DEF Notify
  <2> HIDE DEF n
  <2>4. notices[w] \cup {n} \in SUBSET Notice
    BY <2>2
  <2> QED
    BY <2>3, <2>4
<1>6. job' \in [Handler -> Job \cup {None}] /\ refunds' \in [W -> Nat]
  BY DEF ProviderStep, Pay, FailToPay, Return
<1> QED
  BY <1>1, <1>2, <1>3, <1>4, <1>5, <1>6

\* Delivering a notice adds none.
LEMMA NoticesShrink ==
  ASSUME TypeOK, NEW w \in W, Webhook(w)
  PROVE  notices' \in [W -> SUBSET Notice] /\ \A v \in W : notices'[v] \subseteq notices[v]
<1>1. CASE notices' = notices
  BY <1>1 DEF TypeOK
<1>2. ASSUME NEW n, notices' = [notices EXCEPT ![w] = @ \ {n}]
      PROVE  notices' \in [W -> SUBSET Notice] /\ \A v \in W : notices'[v] \subseteq notices[v]
  BY <1>2 DEF TypeOK
<1>3. \A n \in notices[w] : Unverified(w, n) => notices' = [notices EXCEPT ![w] = @ \ {n}]
  BY DEF Unverified
<1>4. \A n \in notices[w], h \in Handler :
        Receive(h, w, n) => notices' = notices \/ notices' = [notices EXCEPT ![w] = @ \ {n}]
  BY DEF Receive
<1> QED
  BY <1>1, <1>2, <1>3, <1>4 DEF Webhook

LEMMA WebhookTypes ==
  ASSUME TypeOK, BudgetBounded, Next, NEW w \in W, Webhook(w)
  PROVE  TypeOK'
<1> USE WithdrawalAssumption DEF TypeOK
<1>1. budget' \in [FaultKind -> Nat]
  BY NextBudget, BudgetStep
<1>2. balance' \in [Bal -> Int] /\ cache' \in [Bal -> Int \cup {None}]
      /\ UNCHANGED <<deleted, status>>
  BY DEF Webhook, Receive, Unverified
<1>3. pc' \in [W -> Pc] /\ ref' \in [W -> Provider \cup {None}]
  BY DEF Webhook, Receive, Unverified
<1>4. transfer' \in [W -> [Provider -> Transfer]]
  BY DEF Webhook, Receive, Unverified
<1>5. notices' \in [W -> SUBSET Notice]
  BY NoticesShrink
<1>6. job' \in [Handler -> Job \cup {None}]
  <2>1. ASSUME NEW n \in notices[w] PROVE [w |-> w, notice |-> n, step |-> "find"] \in Job
    BY DEF Job
  <2>2. ASSUME NEW n \in notices[w], NEW h \in Handler, Receive(h, w, n)
        PROVE  job' \in [Handler -> Job \cup {None}]
    <3>1. job' = [job EXCEPT ![h] = [w |-> w, notice |-> n, step |-> "find"]]
      BY <2>2 DEF Receive
    <3> QED
      BY <2>1, <3>1
  <2>3. (\E n \in notices[w] : Unverified(w, n)) => UNCHANGED job
    BY DEF Unverified
  <2> QED
    BY <2>2, <2>3 DEF Webhook
<1>7. refunds' \in [W -> Nat]
  BY DEF Webhook, Receive, Unverified
<1> QED
  BY <1>1, <1>2, <1>3, <1>4, <1>5, <1>6, <1>7

\* Jobs and notices name withdrawals and providers.
LEMMA JobsTyped ==
  ASSUME TypeOK
  PROVE  /\ \A k \in Handler : job[k] # None =>
              /\ job[k].w \in W /\ job[k].notice \in Notice
              /\ job[k].notice.p \in Provider /\ job[k].notice.event \in Event
         /\ \A v \in W : \A n \in notices[v] : n \in Notice /\ n.p \in Provider /\ n.event \in Event
<1>1. \A k \in Handler : job[k] # None => job[k] \in Job
  BY DEF TypeOK
<1>2. \A v \in W : \A n \in notices[v] : n \in Notice
  BY DEF TypeOK
<1> QED
  BY <1>1, <1>2 DEF Job, Notice

LEMMA WorkTypes ==
  ASSUME TypeOK, BudgetBounded, Next, NEW h \in Handler, Work(h) \/ JobFails(h)
  PROVE  TypeOK'
<1> USE WithdrawalAssumption DEF TypeOK
<1>1. budget' \in [FaultKind -> Nat]
  BY NextBudget, BudgetStep
<1>w. job[h] # None /\ job[h].w \in W /\ UNCHANGED deleted
  BY JobsTyped DEF Work, FindWithdrawal, Complete, OpenRefundJob, RefundJob, JobFails
<1>2. balance' \in [Bal -> Int]
  BY <1>w, RefundTypes DEF Work, FindWithdrawal, Complete, OpenRefundJob, RefundJob, JobFails
<1>3. cache' \in [Bal -> Int \cup {None}]
  BY <1>w, ReadTypes
  DEF Refund, Work, FindWithdrawal, Complete, OpenRefundJob, RefundJob, JobFails
<1>4. StatusTyped'
  <2>1. CASE RefundJob(h)
    BY <1>w, <2>1, RefundTypes DEF RefundJob
  <2>2. CASE SetStatus(job[h].w, "completed")
    BY <1>w, <2>2, StatusWritten DEF Status
  <2>3. CASE UNCHANGED status
    BY <1>w, <2>3, StatusStays
  <2> QED
    BY <2>1, <2>2, <2>3 DEF Work, FindWithdrawal, Complete, OpenRefundJob, JobFails
<1>5. pc' \in [W -> Pc] /\ ref' \in [W -> Provider \cup {None}]
      /\ transfer' \in [W -> [Provider -> Transfer]]
  BY DEF Work, FindWithdrawal, Complete, OpenRefundJob, RefundJob, JobFails
<1>6. notices' \in [W -> SUBSET Notice]
  <2>1. CASE JobFails(h)
    <3>1. job[h].w \in W /\ job[h].notice \in Notice
      BY <2>1 DEF JobFails, Job
    <3> QED
      BY <2>1, <3>1 DEF JobFails
  <2>2. CASE Work(h)
    BY <2>2 DEF Work, FindWithdrawal, Complete, OpenRefundJob, RefundJob
  <2> QED
    BY <2>1, <2>2
<1>7. job' \in [Handler -> Job \cup {None}]
  <2>1. CASE job[h] \in Job
    <3>1. \A l \in {"complete", "open", "refund"} : [job[h] EXCEPT !.step = l] \in Job
      BY <2>1 DEF Job
    <3> QED
      BY <3>1 DEF Work, FindWithdrawal, Complete, OpenRefundJob, RefundJob, JobFails
  <2> QED
    BY <2>1 DEF Work, FindWithdrawal, Complete, OpenRefundJob, RefundJob, JobFails
<1>8. refunds' \in [W -> Nat]
  BY <1>w, RefundTypes DEF Work, FindWithdrawal, Complete, OpenRefundJob, RefundJob, JobFails
<1> QED
  BY <1>1, <1>2, <1>3, <1>4, <1>5, <1>6, <1>7, <1>8, <1>w DEF StatusTyped

LEMMA CrashTypes ==
  ASSUME TypeOK, BudgetBounded, Next,
         Crash \/ (\E b \in Bal : CacheExpires(b) \/ DeleteBalance(b)) \/ Finished
  PROVE  TypeOK'
<1> USE WithdrawalAssumption DEF TypeOK
<1>1. budget' \in [FaultKind -> Nat]
  BY NextBudget, BudgetStep
<1>2. balance' \in [Bal -> Int] /\ cache' \in [Bal -> Int \cup {None}]
  BY DEF Crash, CacheExpires, DeleteBalance, Finished, vars
<1>3. status' = status /\ deleted \subseteq deleted' /\ deleted' \subseteq Bal
      /\ ref' \in [W -> Provider \cup {None}]
  BY DEF Crash, CacheExpires, DeleteBalance, Finished, vars
<1>4. pc' \in [W -> Pc]
  BY DEF Pc, Crash, CacheExpires, DeleteBalance, Finished, vars
<1>5. transfer' \in [W -> [Provider -> Transfer]]
  BY DEF Transfer, Crash, CacheExpires, DeleteBalance, Finished, vars
<1>6. notices' \in [W -> SUBSET Notice]
  BY DEF Job, Crash, CacheExpires, DeleteBalance, Finished, vars
<1>7. job' \in [Handler -> Job \cup {None}]
  BY DEF Crash, CacheExpires, DeleteBalance, Finished, vars
<1>8. refunds' \in [W -> Nat]
  BY DEF Crash, CacheExpires, DeleteBalance, Finished, vars
<1> QED
  BY <1>1, <1>2, <1>3, <1>4, <1>5, <1>6, <1>7, <1>8

LEMMA NextTypes ==
  ASSUME TypeOK, BudgetBounded, Next
  PROVE  TypeOK'
BY InitiateTypes, TransferTypes, ProviderTypes, WebhookTypes, WorkTypes, CrashTypes
   DEF Next, GoWrong
-----------------------------------------------------------------------------
(* Order, as long as providers and database answer *)

\* What the steps that need no fault of the network or the database do.
LEMMA CalmStep ==
  ASSUME TypeOK, BudgetBounded, Next, Calm'
  PROVE  ~Spend("net") /\ ~Spend("db")
<1>1. "net" \in FaultKind /\ "db" \in FaultKind
  BY DEF FaultKind
<1> QED
  BY <1>1, SpendBounded DEF Calm

LEMMA InitiateOrder ==
  ASSUME TypeOK, Orderly, NEW w \in W, Initiate(w)
  PROVE  Orderly'
<1> USE DEF TypeOK, Orderly, Initiate, ReadBalance, CheckInputs, Create, CreateUnread, Goto,
    SetStatus
<1>1. \A v \in W : Sent(v)'
  BY DEF Sent
<1>2. \A v \in W : Referenced(v)'
  BY DEF Referenced
<1>3. \A v \in W : Noticed(v)'
  BY DEF Noticed, Over
<1>4. \A v \in W : Refunded(v)'
  BY DEF Refunded, Out
<1>5. \A h \in Handler : Grounded(h)'
  BY DEF Grounded, Over
<1> QED
  BY <1>1, <1>2, <1>3, <1>4, <1>5

LEMMA SetTransferAt ==
  ASSUME TypeOK, NEW w \in W, NEW p \in Provider, NEW t \in Transfer, SetTransfer(w, p, t)
  PROVE  \A v \in W, q \in Provider :
           transfer'[v][q] = IF v = w /\ q = p THEN t ELSE transfer[v][q]
<1>1. transfer' = [transfer EXCEPT ![w] = [@ EXCEPT ![p] = t]]
  BY DEF SetTransfer
<1> QED
  BY <1>1 DEF TypeOK

LEMMA AcceptOrder ==
  ASSUME TypeOK, Orderly, NEW w \in W, PaystackAccepts(w) \/ MonnifyAccepts(w)
  PROVE  Orderly'
<1>1. PICK p \in Provider :
        /\ pc[w] = p /\ SetTransfer(w, p, "accepted")
        /\ pc' = [pc EXCEPT ![w] = IF p = "paystack" THEN "savePaystack" ELSE "saveMonnify"]
  BY DEF PaystackAccepts, MonnifyAccepts, Provider, Goto
<1>2. \A v \in W, q \in Provider :
        transfer'[v][q] = IF v = w /\ q = p THEN "accepted" ELSE transfer[v][q]
  BY <1>1, SetTransferAt DEF Transfer
<1>3. /\ \A v \in W : pc'[v] = IF v # w THEN pc[v]
                                 ELSE IF p = "paystack" THEN "savePaystack" ELSE "saveMonnify"
      /\ UNCHANGED <<ref, notices, job, refunds>>
  BY <1>1 DEF TypeOK, PaystackAccepts, MonnifyAccepts
<1>4. \A q \in Provider : transfer[w][q] = "none"
  BY <1>1 DEF Orderly, Sent, Provider
<1>5. ref[w] = None /\ ~(refunds[w] > 0) /\ notices[w] = {}
  BY <1>1, <1>4, JobsTyped DEF Orderly, Referenced, Refunded, Noticed, Provider
<1>6. \A k \in Handler : job[k] # None => job[k].w # w
  BY <1>4, JobsTyped DEF Orderly, Grounded
<1>7. \A v \in W : Sent(v)'
  BY <1>2, <1>3, <1>4 DEF Orderly, Sent, Provider
<1>8. \A v \in W : Referenced(v)'
  <2>1. \A v \in W : ref[v] # None => ref[v] \in Provider
    BY DEF TypeOK
  <2> QED
    BY <1>2, <1>3, <1>5, <2>1 DEF Orderly, Referenced, Provider
<1>9. \A v \in W : Noticed(v)'
  BY <1>2, <1>3, <1>5, JobsTyped DEF Orderly, Noticed, Over
<1>10. \A v \in W : Refunded(v)'
  BY <1>2, <1>3, <1>5 DEF Orderly, Refunded, Out
<1>11. \A k \in Handler : Grounded(k)'
  BY <1>2, <1>3, <1>6, JobsTyped DEF Orderly, Grounded, Over
<1> QED
  BY <1>7, <1>8, <1>9, <1>10, <1>11 DEF Orderly

LEMMA MoveOrder ==
  ASSUME TypeOK, Orderly, NEW w \in W,
         StartTransfer(w) \/ PaystackRejects(w) \/ MonnifyRejects(w) \/ OpenRefund(w)
  PROVE  Orderly'
<1> USE DEF TypeOK, Orderly, Provider, StartTransfer, PaystackRejects, MonnifyRejects,
    OpenRefund, Goto, SetStatus
<1>1. \A v \in W : Sent(v)'
  BY DEF Sent
<1>2. \A v \in W : Referenced(v)'
  BY DEF Sent, Referenced
<1>3. \A v \in W : Noticed(v)'
  BY DEF Noticed, Over
<1>4. \A v \in W : Refunded(v)'
  BY DEF Sent, Referenced, Refunded, Out
<1>5. \A k \in Handler : Grounded(k)'
  BY DEF Sent, Referenced, Grounded, Over
<1> QED
  BY <1>1, <1>2, <1>3, <1>4, <1>5

LEMMA SaveOrder ==
  ASSUME TypeOK, Orderly, NEW w \in W, SavePaystack(w) \/ SaveMonnify(w)
  PROVE  Orderly'
<1> USE DEF TypeOK, Orderly, Provider, SavePaystack, SaveMonnify, Goto, SetStatus
<1>1. \A v \in W : Sent(v)'
  BY DEF Sent
<1>2. \A v \in W : Referenced(v)'
  BY DEF Sent, Referenced
<1>3. \A v \in W : Noticed(v)'
  BY JobsTyped DEF Noticed, Over
<1>4. \A v \in W : Refunded(v)'
  BY JobsTyped DEF Sent, Referenced, Refunded, Out
<1>5. \A k \in Handler : Grounded(k)'
  BY JobsTyped DEF Sent, Referenced, Grounded, Over
<1> QED
  BY <1>1, <1>2, <1>3, <1>4, <1>5

LEMMA RefundOrder ==
  ASSUME TypeOK, Orderly, NEW w \in W, DoRefund(w)
  PROVE  Orderly'
<1> USE DEF TypeOK, Orderly, Provider, DoRefund, Refund, Goto, SetStatus
<1>1. \A v \in W : Sent(v)'
  BY DEF Sent
<1>2. \A v \in W : Referenced(v)'
  BY DEF Sent, Referenced
<1>3. \A v \in W : Noticed(v)'
  BY DEF Noticed, Over
<1>4. \A v \in W : Refunded(v)'
  BY DEF Sent, Referenced, Refunded, Out
<1>5. \A k \in Handler : Grounded(k)'
  BY DEF Sent, Referenced, Grounded, Over
<1> QED
  BY <1>1, <1>2, <1>3, <1>4, <1>5

\* A provider's step adds one notice, of its own, to its withdrawal.
LEMMA NotifyAdds ==
  ASSUME TypeOK, NEW w \in W, NEW p \in Provider, NEW e \in Event, Notify(w, p, e)
  PROVE  \A v \in W : \A n \in notices'[v] : n \in notices[v] \/ (v = w /\ n.p = p /\ n.event = e)
<1> DEFINE m == [p |-> p, event |-> e]
<1>1. m.p = p /\ m.event = e /\ notices' = [notices EXCEPT ![w] = @ \cup {m}]
  BY DEF Notify
<1> HIDE DEF m
<1> SUFFICES ASSUME NEW v \in W, NEW n \in notices'[v]
             PROVE  n \in notices[v] \/ (v = w /\ n.p = p /\ n.event = e)
  OBVIOUS
<1>2. CASE v = w
  <2>1. notices'[v] = notices[v] \cup {m}
    BY <1>1, <1>2 DEF TypeOK
  <2>2. n \in notices[v] \/ n = m
    BY <2>1
  <2> QED
    BY <1>1, <1>2, <2>2
<1>3. CASE v # w
  BY <1>1, <1>3 DEF TypeOK
<1> QED
  BY <1>2, <1>3

LEMMA ProviderOrder ==
  ASSUME TypeOK, Orderly, NEW w \in W, NEW p \in Provider,
         Pay(w, p) \/ FailToPay(w, p) \/ Return(w, p)
  PROVE  Orderly'
<1>1. PICK t \in {"paid", "failed", "returned"} : SetTransfer(w, p, t)
  BY DEF Pay, FailToPay, Return
<1>2. \A v \in W, q \in Provider :
        transfer'[v][q] = IF v = w /\ q = p THEN t ELSE transfer[v][q]
  BY <1>1, SetTransferAt DEF Transfer
<1>3. transfer[w][p] \in {"accepted", "paid"} /\ UNCHANGED <<pc, ref, job, refunds>>
  BY DEF Pay, FailToPay, Return
<1>4. \A v \in W, q \in Provider : /\ transfer'[v][q] = "none" <=> transfer[v][q] = "none"
                                   /\ Over(v, q) => v # w \/ q # p
  BY <1>2, <1>3 DEF Over
<1>5. \A v \in W : Sent(v)'
  BY <1>3, <1>4 DEF Orderly, Sent, Provider
<1>6. \A v \in W : Referenced(v)'
  <2>1. \A v \in W : ref[v] # None => ref[v] \in Provider
    BY DEF TypeOK
  <2> QED
    BY <1>3, <1>4, <2>1 DEF Orderly, Referenced, Provider
<1>7. \A v \in W : Noticed(v)'
  <2>1. PICK e \in Event : Notify(w, p, e) /\ (e = "failed" => t # "paid")
    <3>1. CASE Pay(w, p)
      BY <3>1 DEF Pay, Event
    <3>2. CASE FailToPay(w, p) \/ Return(w, p)
      <4>1. Notify(w, p, "failed") /\ transfer'[w][p] \in {"failed", "returned"}
        BY <3>2, SetTransferAt DEF FailToPay, Return, Transfer
      <4> QED
        BY <1>2, <4>1 DEF Event
    <3> QED
      BY <3>1, <3>2
  <2>2. \A v \in W : \A n \in notices'[v] :
          n \in notices[v] \/ (v = w /\ n.p = p /\ n.event = e)
    BY <2>1, NotifyAdds
  <2> QED
    BY <1>2, <1>4, <2>1, <2>2, JobsTyped DEF Orderly, Noticed, Over
<1>8. \A v \in W : Refunded(v)'
  BY <1>2, <1>3 DEF Orderly, Refunded, Out
<1>9. \A k \in Handler : Grounded(k)'
  BY <1>2, <1>3, <1>4, JobsTyped DEF Orderly, Grounded, Over
<1> QED
  BY <1>5, <1>6, <1>7, <1>8, <1>9 DEF Orderly

LEMMA WebhookOrder ==
  ASSUME TypeOK, Orderly, NEW w \in W, Webhook(w)
  PROVE  Orderly'
<1>1. UNCHANGED <<pc, ref, transfer, refunds>>
  BY DEF Webhook, Receive, Unverified
<1>2. \A v \in W : notices'[v] \subseteq notices[v]
  BY NoticesShrink
<1>3. \A v \in W : Sent(v)' /\ Referenced(v)' /\ Refunded(v)'
  BY <1>1 DEF Orderly, Sent, Referenced, Refunded, Out
<1>4. \A v \in W : Noticed(v)'
  BY <1>1, <1>2 DEF Orderly, Noticed, Over
<1>5. \A k \in Handler : Grounded(k)'
  <2>1. CASE UNCHANGED job
    BY <1>1, <2>1 DEF Orderly, Grounded, Over
  <2>2. ASSUME NEW n \in notices[w], NEW h \in Handler, Receive(h, w, n)
        PROVE  \A k \in Handler : Grounded(k)'
    <3>1. /\ job'[h] = [w |-> w, notice |-> n, step |-> "find"]
          /\ \A k \in Handler \ {h} : job'[k] = job[k]
      BY <2>2 DEF TypeOK, Receive
    <3>2. transfer[w][n.p] # "none" /\ (n.event = "failed" => Over(w, n.p))
      BY DEF Orderly, Noticed
    <3>3. Grounded(h)'
      BY <1>1, <3>1, <3>2 DEF Grounded, Over
    <3>4. \A k \in Handler \ {h} : Grounded(k)'
      BY <1>1, <3>1 DEF Orderly, Grounded, Over
    <3> QED
      BY <3>3, <3>4
  <2> QED
    BY <2>1, <2>2 DEF Webhook, Unverified
<1> QED
  BY <1>3, <1>4, <1>5 DEF Orderly

\* A webhook request that goes on keeps what it knows, and learns at the lookup
\* that the reference is its notice's.
LEMMA WorkGrounded ==
  ASSUME TypeOK, Orderly, NEW h \in Handler, Work(h)
  PROVE  \A k \in Handler : Grounded(k)'
<1>1. \A k \in Handler \ {h} : job'[k] = job[k]
  BY DEF TypeOK, Work, FindWithdrawal, Complete, OpenRefundJob, RefundJob
<1>2. UNCHANGED <<transfer, ref>> /\ job[h] # None
  BY DEF Work, FindWithdrawal, Complete, OpenRefundJob, RefundJob, Refund
<1>3. job[h] \in Job /\ job[h].notice.event \in Event
  BY <1>2, JobsTyped DEF TypeOK
<1>4. job'[h] # None =>
        /\ job'[h].w = job[h].w /\ job'[h].notice = job[h].notice
        /\ job'[h].step \in {"open", "refund"} =>
             job[h].notice.event = "failed" /\ ref[job[h].w] = job[h].notice.p
  <2>1. CASE FindWithdrawal(h)
    <3>1. job'[h] = IF ref[job[h].w] = job[h].notice.p
                    THEN [job[h] EXCEPT !.step = IF job[h].notice.event = "success"
                                                 THEN "complete" ELSE "open"]
                    ELSE None
      BY <2>1 DEF FindWithdrawal, TypeOK
    <3> QED
      BY <1>3, <3>1 DEF Job, Event
  <2>2. CASE OpenRefundJob(h)
    <3>1. job'[h] = IF Settled(job[h].w) THEN None ELSE [job[h] EXCEPT !.step = "refund"]
      BY <2>2 DEF OpenRefundJob, TypeOK
    <3>2. ref[job[h].w] = job[h].notice.p /\ job[h].notice.event = "failed"
      BY <1>2, <2>2 DEF OpenRefundJob, Orderly, Grounded
    <3> QED
      BY <1>3, <3>1, <3>2 DEF Job
  <2>3. CASE Complete(h) \/ RefundJob(h)
    BY <2>3 DEF Complete, RefundJob, TypeOK
  <2> QED
    BY <2>1, <2>2, <2>3 DEF Work
<1>5. Grounded(h)'
  BY <1>2, <1>4 DEF Orderly, Grounded, Over
<1>6. \A k \in Handler \ {h} : Grounded(k)'
  BY <1>1, <1>2 DEF Orderly, Grounded, Over
<1> QED
  BY <1>5, <1>6

LEMMA WorkOrder ==
  ASSUME TypeOK, Orderly, NEW h \in Handler, Work(h)
  PROVE  Orderly'
<1> USE DEF TypeOK, Orderly, Provider, Work, FindWithdrawal, Complete, OpenRefundJob,
    RefundJob, Refund, SetStatus
<1>1. \A v \in W : Sent(v)'
  BY DEF Sent, Job, Notice, Event
<1>2. \A v \in W : Referenced(v)'
  BY DEF Sent, Referenced, Job, Notice, Event
<1>3. \A v \in W : Noticed(v)'
  BY JobsTyped DEF Noticed, Over
<1>4. \A v \in W : Refunded(v)'
  <2>1. CASE RefundJob(h)
    <3> DEFINE u == job[h].w
               p == job[h].notice.p
    <3>1. u \in W /\ p \in Provider /\ ref[u] = p /\ Over(u, p)
      BY <2>1, JobsTyped DEF Grounded
    <3> HIDE DEF u, p
    <3>2. pc[u] = "done"
      BY <3>1, NullAssumption DEF Referenced
    <3>3. \A q \in Provider : ~Out(u, q)
      BY <3>1 DEF Sent, Over, Out
    <3>4. \A v \in W \ {u} : refunds'[v] = refunds[v]
      BY <2>1 DEF u
    <3>5. UNCHANGED <<transfer, pc>>
      BY <2>1
    <3> QED
      BY <3>2, <3>3, <3>4, <3>5 DEF Refunded, Out
  <2>2. CASE ~RefundJob(h)
    BY <2>2 DEF Refunded, Out
  <2> QED
    BY <2>1, <2>2
<1>5. \A k \in Handler : Grounded(k)'
  BY WorkGrounded
<1> QED
  BY <1>1, <1>2, <1>3, <1>4, <1>5

LEMMA CrashOrder ==
  ASSUME TypeOK, Orderly, Crash
  PROVE  Orderly'
<1> USE DEF TypeOK, Orderly, Provider, Crash
<1>1. \A v \in W : Sent(v)'
  BY DEF Sent, Job, Notice
<1>2. \A v \in W : Referenced(v)'
  BY DEF Sent, Referenced, Job, Notice
<1>3. \A v \in W : Noticed(v)'
  <2> SUFFICES ASSUME NEW v \in W, NEW n \in notices'[v]
               PROVE  transfer'[v][n.p] # "none" /\ (n.event = "failed" => Over(v, n.p)')
    BY DEF Noticed
  <2>1. n \in Notice /\ transfer[v][n.p] # "none" /\ (n.event = "failed" => Over(v, n.p))
    BY JobsTyped DEF Noticed, Grounded
  <2>2. n.p \in Provider
    BY <2>1 DEF Notice
  <2>3. transfer'[v][n.p] = transfer[v][n.p] \/ (transfer'[v][n.p] = "accepted" /\ pc[v] = n.p)
    BY <2>2
  <2> QED
    BY <2>1, <2>2, <2>3 DEF Sent, Over
<1>4. \A v \in W : Refunded(v)'
  BY JobsTyped DEF Sent, Referenced, Refunded, Out
<1>5. \A k \in Handler : Grounded(k)'
  BY JobsTyped DEF Sent, Referenced, Grounded, Over
<1> QED
  BY <1>1, <1>2, <1>3, <1>4, <1>5

LEMMA QuietOrder ==
  ASSUME TypeOK, Orderly,
         (\E b \in Bal : CacheExpires(b) \/ DeleteBalance(b)) \/ UNCHANGED vars
  PROVE  Orderly'
<1> USE DEF TypeOK, Orderly, Provider, CacheExpires, DeleteBalance, vars
<1>1. \A v \in W : Sent(v)'
  BY DEF Sent
<1>2. \A v \in W : Referenced(v)'
  BY DEF Sent, Referenced
<1>3. \A v \in W : Noticed(v)'
  BY DEF Noticed, Over
<1>4. \A v \in W : Refunded(v)'
  BY DEF Sent, Referenced, Refunded, Out
<1>5. \A k \in Handler : Grounded(k)'
  BY DEF Sent, Referenced, Grounded, Over
<1> QED
  BY <1>1, <1>2, <1>3, <1>4, <1>5

-----------------------------------------------------------------------------
(* Sums of amounts: an induction over a set of naturals, as the provers take *)
(* no operator for a parameter                                               *)

LEMMA Induction ==
  ASSUME NEW G, 0 \in G, \A n \in Nat : n \in G => n + 1 \in G
  PROVE  \A n \in Nat : n \in G
<1> SUFFICES ASSUME NEW m \in Nat, m \notin G PROVE FALSE
  OBVIOUS
<1> DEFINE Bad == {n \in Nat : n \notin G}
           Less == OpToRel(<, Nat)
<1>1. IsWellFoundedOn(Less, Nat)
  BY NatLessThanWellFounded
<1>2. Bad \subseteq Nat /\ Bad # {}
  OBVIOUS
<1> HIDE DEF Less
<1>3. PICK x \in Bad : \A y \in Bad : <<y, x>> \notin Less
  <2> HIDE DEF Bad
  <2> QED
    BY <1>1, <1>2, WFMin
<1>4. x \in Nat /\ x # 0 /\ x - 1 \in Nat
  BY <1>3
<1>5. <<x - 1, x>> \in Less
  <2>1. <<x - 1, x>> \in Nat \X Nat /\ <<x - 1, x>>[1] < <<x - 1, x>>[2]
    BY <1>4
  <2> QED
    BY <2>1 DEF Less, OpToRel
<1>6. x - 1 \in G
  BY <1>3, <1>4, <1>5
<1> QED
  BY <1>3, <1>4, <1>6

\* The element a sum takes next.
First(u) == CHOOSE x \in u : TRUE

\* f holds the totals of the sets in D.
Adds(f, D) == \A u \in D : f[u] = IF u = {} THEN 0 ELSE Amount[First(u)] + f[u \ {First(u)}]

IsTotal(f, S) ==
  f = [u \in SUBSET S |-> IF u = {} THEN 0 ELSE Amount[First(u)] + f[u \ {First(u)}]]

LEMMA SizeOfRest ==
  ASSUME NEW u, IsFiniteSet(u), NEW x \in u
  PROVE  /\ IsFiniteSet(u \ {x}) /\ Cardinality(u \ {x}) \in Nat
         /\ Cardinality(u) \in Nat /\ Cardinality(u) = Cardinality(u \ {x}) + 1
BY FS_RemoveElement, FS_CardinalityType

LEMMA FirstIn == ASSUME NEW u, u # {} PROVE First(u) \in u
BY DEF First

LEMMA TotalsExist ==
  ASSUME NEW S, IsFiniteSet(S)
  PROVE  \E f : IsTotal(f, S)
<1>1. \A u \in SUBSET S : IsFiniteSet(u) /\ Cardinality(u) \in Nat
                          /\ Cardinality(u) <= Cardinality(S)
  BY FS_Subset, FS_CardinalityType
<1> DEFINE D(n) == {u \in SUBSET S : Cardinality(u) <= n}
           G == {n \in Nat : \E f : Adds(f, D(n))}
<1>2. 0 \in G
  <2> DEFINE f == [u \in SUBSET S |-> 0]
  <2>1. \A u \in D(0) : u = {}
    BY <1>1, FS_EmptySet
  <2>2. Adds(f, D(0))
    BY <2>1 DEF Adds
  <2> QED
    BY <2>2
<1>3. ASSUME NEW n \in Nat, n \in G PROVE n + 1 \in G
  <2> SUFFICES \E g : Adds(g, D(n + 1))
    OBVIOUS
  <2>1. PICK f : Adds(f, D(n))
    BY <1>3
  <2> DEFINE g == [u \in SUBSET S |-> IF u = {} THEN 0 ELSE Amount[First(u)] + f[u \ {First(u)}]]
  <2>2. \A u \in D(n) : g[u] = f[u]
    BY <2>1 DEF Adds
  <2>3. ASSUME NEW u \in D(n + 1), u # {} PROVE u \ {First(u)} \in D(n)
    <3>1. First(u) \in u
      BY <2>3, FirstIn
    <3>2. Cardinality(u) = Cardinality(u \ {First(u)}) + 1
          /\ Cardinality(u \ {First(u)}) \in Nat
      BY <1>1, <3>1, SizeOfRest
    <3>3. Cardinality(u) <= n + 1
      OBVIOUS
    <3>4. Cardinality(u \ {First(u)}) <= n
      BY <3>2, <3>3
    <3> QED
      BY <3>4
  <2>4. Adds(g, D(n + 1))
    BY <2>2, <2>3 DEF Adds
  <2> QED
    BY <2>4
<1>4. \A n \in Nat : n \in G
  <2> HIDE DEF G
  <2> QED
    BY <1>2, <1>3, Induction
<1>5. PICK f : Adds(f, D(Cardinality(S)))
  BY <1>4, FS_CardinalityType
<1>6. \A u \in SUBSET S : u \in D(Cardinality(S))
  BY <1>1
<1> DEFINE g == [u \in SUBSET S |-> f[u]]
<1>7. ASSUME NEW u \in SUBSET S
      PROVE  g[u] = IF u = {} THEN 0 ELSE Amount[First(u)] + g[u \ {First(u)}]
  BY <1>5, <1>6 DEF Adds
<1>8. IsTotal(g, S)
  BY <1>7 DEF IsTotal
<1> QED
  BY <1>8

\* The totals that Total computes for a set and its subsets.
Totals(S) == CHOOSE f : IsTotal(f, S)

LEMMA TotalIs == ASSUME NEW S PROVE Total(S) = Totals(S)[S]
BY DEF Total, MapThenSumSet, MapThenFoldSet, Totals, IsTotal, First

LEMMA TotalsAre ==
  ASSUME NEW S \in SUBSET W, IsFiniteSet(S)
  PROVE  /\ \A u \in SUBSET S : Totals(S)[u] \in Nat
         /\ \A u \in SUBSET S : \A x \in u : Totals(S)[u] = Amount[x] + Totals(S)[u \ {x}]
         /\ Totals(S)[{}] = 0
<1> DEFINE f == Totals(S)
<1>1. f = [u \in SUBSET S |-> IF u = {} THEN 0 ELSE Amount[First(u)] + f[u \ {First(u)}]]
  BY TotalsExist DEF Totals, IsTotal
<1> HIDE DEF f
<1>2. /\ f[{}] = 0
      /\ \A u \in SUBSET S : u # {} =>
           First(u) \in u /\ f[u] = Amount[First(u)] + f[u \ {First(u)}]
  BY <1>1, FirstIn
<1>3. \A u \in SUBSET S : IsFiniteSet(u) /\ Cardinality(u) \in Nat
  BY FS_Subset, FS_CardinalityType
<1>4. \A x \in S : Amount[x] \in Nat
  BY WithdrawalAssumption
<1>5. \A u \in SUBSET S : f[u] \in Nat
  <2> DEFINE G == {n \in Nat : \A u \in SUBSET S : Cardinality(u) = n => f[u] \in Nat}
  <2>1. 0 \in G
    BY <1>2, <1>3, FS_EmptySet
  <2>2. ASSUME NEW n \in Nat, n \in G PROVE n + 1 \in G
    <3> SUFFICES ASSUME NEW u \in SUBSET S, Cardinality(u) = n + 1 PROVE f[u] \in Nat
      OBVIOUS
    <3>1. u # {}
      BY FS_EmptySet
    <3>2. Cardinality(u \ {First(u)}) = n
      <4>1. First(u) \in u /\ IsFiniteSet(u)
        BY <1>2, <1>3, <3>1
      <4>2. Cardinality(u \ {First(u)}) \in Nat
            /\ Cardinality(u) = Cardinality(u \ {First(u)}) + 1
        BY <4>1, SizeOfRest
      <4> QED
        BY <4>2
    <3>3. f[u \ {First(u)}] \in Nat
      BY <2>2, <3>2
    <3> QED
      BY <1>2, <1>4, <3>1, <3>3
  <2>3. \A n \in Nat : n \in G
    <3> HIDE DEF G
    <3> QED
      BY <2>1, <2>2, Induction
  <2> QED
    BY <1>3, <2>3
<1>6. \A u \in SUBSET S : \A x \in u : f[u] = Amount[x] + f[u \ {x}]
  <2> DEFINE G == {n \in Nat : \A u \in SUBSET S : \A x \in u :
                     Cardinality(u) = n => f[u] = Amount[x] + f[u \ {x}]}
  <2>1. 0 \in G
    <3>1. \A u \in SUBSET S : Cardinality(u) = 0 => u = {}
      BY <1>3, FS_EmptySet
    <3> QED
      BY <3>1
  <2>2. ASSUME NEW n \in Nat, n \in G PROVE n + 1 \in G
    <3> SUFFICES ASSUME NEW u \in SUBSET S, NEW x \in u, Cardinality(u) = n + 1
                 PROVE  f[u] = Amount[x] + f[u \ {x}]
      OBVIOUS
    <3>1. PICK c : c = First(u)
      OBVIOUS
    <3>2. c \in u /\ f[u] = Amount[c] + f[u \ {c}]
      BY <1>2, <3>1
    <3>3. CASE x = c
      BY <3>2, <3>3
    <3>4. CASE x # c
      <4>1. Cardinality(u \ {c}) = n /\ Cardinality(u \ {x}) = n
        BY <1>3, <3>2, SizeOfRest
      <4>2. x \in u \ {c} /\ c \in u \ {x} /\ (u \ {c}) \ {x} = (u \ {x}) \ {c}
        BY <3>2, <3>4
      <4>3. f[u \ {c}] = Amount[x] + f[(u \ {c}) \ {x}]
        BY <2>2, <4>1, <4>2
      <4>4. f[u \ {x}] = Amount[c] + f[(u \ {x}) \ {c}]
        BY <2>2, <4>1, <4>2
      <4>5. PICK a \in Nat, b \in Nat, r \in Nat :
              a = Amount[x] /\ b = Amount[c] /\ r = f[(u \ {x}) \ {c}]
        BY <1>4, <1>5, <3>2
      <4>6. f[u] = b + (a + r) /\ f[u \ {x}] = b + r
        BY <3>2, <4>2, <4>3, <4>4, <4>5
      <4> QED
        BY <4>5, <4>6
    <3> QED
      BY <3>3, <3>4
  <2>3. \A n \in Nat : n \in G
    <3> HIDE DEF G
    <3> QED
      BY <2>1, <2>2, Induction
  <2> QED
    BY <1>3, <2>3
<1> QED
  BY <1>2, <1>5, <1>6 DEF f

\* The total of a set does not depend on the set it is computed in.
LEMMA TotalIn ==
  ASSUME NEW T \in SUBSET W, IsFiniteSet(T), NEW S \in SUBSET T
  PROVE  Total(S) = Totals(T)[S]
<1> DEFINE f == Totals(T)
           g == Totals(S)
<1>1. IsFiniteSet(S)
  BY FS_Subset
<1>2. /\ f[{}] = 0 /\ g[{}] = 0
      /\ \A u \in SUBSET S : \A x \in u : f[u] = Amount[x] + f[u \ {x}]
      /\ \A u \in SUBSET S : \A x \in u : g[u] = Amount[x] + g[u \ {x}]
  BY <1>1, TotalsAre
<1>3. \A u \in SUBSET S : IsFiniteSet(u) /\ Cardinality(u) \in Nat
  BY <1>1, FS_Subset, FS_CardinalityType
<1> HIDE DEF f, g
<1> DEFINE G == {n \in Nat : \A u \in SUBSET S : Cardinality(u) = n => f[u] = g[u]}
<1>4. 0 \in G
  <2>1. \A u \in SUBSET S : Cardinality(u) = 0 => u = {}
    BY <1>3, FS_EmptySet
  <2> QED
    BY <1>2, <2>1
<1>5. ASSUME NEW n \in Nat, n \in G PROVE n + 1 \in G
  <2> SUFFICES ASSUME NEW u \in SUBSET S, Cardinality(u) = n + 1 PROVE f[u] = g[u]
    OBVIOUS
  <2>1. PICK x \in u : TRUE
    BY FS_EmptySet
  <2>2. Cardinality(u \ {x}) = n
    BY <1>3, SizeOfRest
  <2> QED
    BY <1>2, <1>5, <2>2
<1>6. \A n \in Nat : n \in G
  <2> HIDE DEF G
  <2> QED
    BY <1>4, <1>5, Induction
<1>7. f[S] = g[S]
  BY <1>3, <1>6
<1> QED
  BY <1>7, TotalIs DEF f, g

LEMMA TotalOfNone == Total({}) = 0
BY TotalIs, TotalsAre, FS_EmptySet

LEMMA TotalType ==
  ASSUME NEW S \in SUBSET W, IsFiniteSet(S)
  PROVE  Total(S) \in Nat
BY TotalIs, TotalsAre

LEMMA TotalLess ==
  ASSUME NEW S \in SUBSET W, IsFiniteSet(S), NEW w \in S
  PROVE  Total(S) = Total(S \ {w}) + Amount[w]
<1>1. Totals(S)[S] = Amount[w] + Totals(S)[S \ {w}] /\ Totals(S)[S \ {w}] \in Nat
  BY TotalsAre
<1>2. Total(S) = Totals(S)[S] /\ Total(S \ {w}) = Totals(S)[S \ {w}]
  BY TotalIn
<1>3. Amount[w] \in Nat
  BY WithdrawalAssumption
<1> QED
  BY <1>1, <1>2, <1>3

-----------------------------------------------------------------------------
(* The books, as long as no query fails, no money comes back and webhooks    *)
(* are handled one at a time                                                 *)

Quiet == Never("db") /\ Never("back") /\ Never("overlap")

\* Where the code may still ask provider p, or has not got so far.
Unasked(p) ==
  {"new", "check", "insert", "refused", "start", "paystack"} \cup
  IF p = "monnify" THEN {"savePaystack", "monnify"} ELSE {}

Sending == {"start", "paystack", "savePaystack", "monnify", "saveMonnify", "open", "refund"}

\* What a withdrawal's row says, from where its code is.
Recorded(w) ==
  /\ pc[w] \in {"new", "check", "insert", "refused"} => status[w] = "none"
  /\ pc[w] \in Sending => status[w] \in Debit
  /\ ref[w] # None => pc[w] = "done" /\ status[w] # "none"
  /\ \A p \in Provider : pc[w] \in Unasked(p) => transfer[w][p] = "none"

\* What a notice says became of its transfer.
Truthful(w, n) == transfer[w][n.p] = IF n.event = "success" THEN "paid" ELSE "failed"

\* A withdrawal under a reference fails by that provider's failure only.
ReversedByFailure(w) ==
  status[w] \in {"reversed", "failed"} /\ ref[w] # None => transfer[w][ref[w]] = "failed"

\* A webhook is true to its transfer, and past the lookup it knows the withdrawal
\* by its reference.
Founded(h) ==
  job[h] # None =>
    /\ Truthful(job[h].w, job[h].notice)
    /\ job[h].step # "find" => ref[job[h].w] = job[h].notice.p
    /\ job[h].step = "complete" => job[h].notice.event = "success"
    /\ job[h].step \in {"open", "refund"} => job[h].notice.event = "failed"
    /\ job[h].step = "refund" => status[job[h].w] \in Debit

OneAtATime == \A g, h \in Handler : job[g] # None /\ job[h] # None => g = h

Traced ==
  /\ \A w \in W : Recorded(w) /\ ReversedByFailure(w) /\ \A n \in notices[w] : Truthful(w, n)
  /\ \A h \in Handler : Founded(h)
  /\ OneAtATime

Balanced == \A b \in Bal \ deleted :
  IsFiniteSet(Debited(b)) /\ balance[b] = Opening[b] - Total(Debited(b))

\* A refund is on record as "reversed", and there is one at most.
Once == \A w \in W : refunds[w] <= 1 /\ (refunds[w] > 0 => status[w] = "reversed")

BooksInv == Quiet => Traced /\ Balanced /\ Once

\* Quiet is lost for good, and as long as it lasts none of its faults happens.
LEMMA QuietStep ==
  ASSUME TypeOK, BudgetBounded, Next, Quiet'
  PROVE  Quiet /\ ~Spend("db") /\ ~Spend("back") /\ ~Spend("overlap")
<1>1. {"db", "back", "overlap"} \subseteq FaultKind
  BY DEF FaultKind
<1>2. ~Spend("db") /\ ~Spend("back") /\ ~Spend("overlap")
  BY <1>1, SpendBounded DEF Quiet, Never
<1>3. CASE budget' = budget
  BY <1>2, <1>3 DEF Quiet, Never
<1>4. ASSUME NEW k \in FaultKind, Spend(k) PROVE Quiet
  <2>1. \A i \in FaultKind \ {k} : budget'[i] = budget[i]
    BY <1>4 DEF Spend, TypeOK
  <2> QED
    BY <1>1, <1>2, <1>4, <2>1 DEF Quiet, Never
<1> QED
  BY <1>2, <1>3, <1>4, NextBudget

LEMMA QuietIsFaultless ==
  ASSUME TypeOK, BudgetBounded, Next, Quiet'
  PROVE  /\ \A w \in W : GoWrong(w) => PaystackUnanswered(w) \/ MonnifyUnanswered(w)
         /\ \A w \in W, p \in Provider : ~Return(w, p)
         /\ \A h \in Handler : ~JobFails(h)
         /\ \A h \in Handler, w \in W : \A n \in notices[w] :
              Receive(h, w, n) => \A g \in Handler : job[g] = None
BY QuietStep DEF GoWrong, CreateFails, StartFails, SavePaystackFails, SaveMonnifyFails,
   RefundFails, Return, JobFails, Receive

-----------------------------------------------------------------------------
(* Balances *)

LEMMA BalancesStand ==
  ASSUME TypeOK, Balanced, UNCHANGED balance, deleted \subseteq deleted',
         \A w \in W : status'[w] \in Debit <=> status[w] \in Debit
  PROVE  Balanced'
<1>1. \A b \in Bal : Debited(b)' = Debited(b)
  BY DEF Debited, Debit
<1> QED
  BY <1>1 DEF Balanced

LEMMA StatusAt ==
  ASSUME TypeOK, NEW w \in W, NEW s, SetStatus(w, s)
  PROVE  \A v \in W : status'[v] = IF v = w THEN s ELSE status[v]
BY DEF TypeOK, SetStatus

LEMMA BalanceDebited ==
  ASSUME TypeOK, Balanced, NEW w \in W, status[w] = "none", SetStatus(w, "pending"),
         Add(BalOf[w], -Amount[w]), UNCHANGED deleted
  PROVE  Balanced'
<1> SUFFICES ASSUME NEW b \in Bal \ deleted
             PROVE  /\ IsFiniteSet(Debited(b)')
                    /\ balance'[b] = Opening[b] - Total(Debited(b)')
  BY DEF Balanced
<1>1. IsFiniteSet(Debited(b)) /\ balance[b] = Opening[b] - Total(Debited(b))
      /\ Debited(b) \subseteq W
  BY DEF Balanced, Debited
<1>2. Debited(b)' = IF b = BalOf[w] THEN Debited(b) \cup {w} ELSE Debited(b)
  <2>1. \A v \in W : v \in Debited(b)' <=> BalOf[v] = b /\ (v = w \/ status[v] \in Debit)
    BY StatusAt DEF Debited, Debit
  <2>2. Debited(b)' \subseteq W
    BY DEF Debited
  <2> QED
    BY <1>1, <2>1, <2>2 DEF Debited
<1>3. w \notin Debited(b) /\ balance[b] \in Int /\ Amount[w] \in Nat /\ Opening[b] \in Int
  BY WithdrawalAssumption DEF TypeOK, Debited, Debit
<1>4. CASE b = BalOf[w]
  <2>1. Debited(b)' = Debited(b) \cup {w}
    BY <1>2, <1>4
  <2>2. IsFiniteSet(Debited(b)')
    BY <1>1, <2>1, FS_AddElement
  <2>3. Debited(b)' \in SUBSET W /\ w \in Debited(b)' /\ Debited(b)' \ {w} = Debited(b)
    BY <1>1, <1>3, <2>1
  <2>4. Total(Debited(b)') = Total(Debited(b)) + Amount[w] /\ Total(Debited(b)) \in Nat
    BY <1>1, <2>2, <2>3, TotalLess, TotalType
  <2>5. balance'[b] = balance[b] - Amount[w]
    BY <1>3, <1>4 DEF TypeOK, Add
  <2> QED
    BY <1>1, <1>3, <2>2, <2>4, <2>5
<1>5. CASE b # BalOf[w]
  <2>1. balance'[b] = balance[b] /\ Debited(b)' = Debited(b)
    BY <1>2, <1>5 DEF TypeOK, Add
  <2> QED
    BY <1>1, <2>1
<1> QED
  BY <1>4, <1>5

LEMMA BalanceRefunded ==
  ASSUME TypeOK, Balanced, NEW w \in W, status[w] \in Debit, Refund(w), UNCHANGED deleted
  PROVE  Balanced'
<1> SUFFICES ASSUME NEW b \in Bal \ deleted
             PROVE  /\ IsFiniteSet(Debited(b)')
                    /\ balance'[b] = Opening[b] - Total(Debited(b)')
  BY DEF Balanced
<1>1. IsFiniteSet(Debited(b)) /\ balance[b] = Opening[b] - Total(Debited(b))
      /\ Debited(b) \in SUBSET W
  BY DEF Balanced, Debited
<1>2. Debited(b)' = Debited(b) \ {w}
  <2>1. \A v \in W : v \in Debited(b)' <=> BalOf[v] = b /\ v # w /\ status[v] \in Debit
    <3>1. PICK s : SetStatus(w, s) /\ s \notin Debit
      BY DEF Refund, Debit
    <3> QED
      BY <3>1, StatusAt DEF Debited, Debit
  <2>2. Debited(b)' \subseteq W
    BY DEF Debited
  <2> QED
    BY <1>1, <2>1, <2>2 DEF Debited
<1>3. balance[b] \in Int /\ Amount[w] \in Nat /\ Opening[b] \in Int
  BY WithdrawalAssumption DEF TypeOK
<1>4. IsFiniteSet(Debited(b)')
  BY <1>1, <1>2, FS_RemoveElement
<1>5. CASE b = BalOf[w]
  <2>1. w \in Debited(b)
    BY <1>5 DEF Debited
  <2>2. Total(Debited(b)) = Total(Debited(b)') + Amount[w]
    BY <1>1, <1>2, <2>1, TotalLess
  <2>3. Total(Debited(b)') \in Nat
    BY <1>1, <1>2, <1>4, TotalType
  <2>4. balance'[b] = balance[b] + Amount[w]
    BY <1>5 DEF TypeOK, Refund, Add
  <2> QED
    BY <1>1, <1>3, <1>4, <2>2, <2>3, <2>4
<1>6. CASE b # BalOf[w]
  <2>1. balance'[b] = balance[b]
    BY <1>6 DEF TypeOK, Refund, Add
  <2>2. w \notin Debited(b)
    BY <1>6 DEF Debited
  <2> QED
    BY <1>1, <1>2, <1>4, <2>1, <2>2
<1> QED
  BY <1>5, <1>6

-----------------------------------------------------------------------------
(* Rows, notices and jobs *)

\* A step of a withdrawal's own code, which no webhook knows by a reference yet.
LEMMA OwnStep ==
  ASSUME TypeOK, Traced, NEW w \in W, UNCHANGED <<notices, job>>, pc[w] # "done",
         \A v \in W \ {w} : /\ pc'[v] = pc[v] /\ status'[v] = status[v]
                            /\ ref'[v] = ref[v] /\ transfer'[v] = transfer[v],
         \A p \in Provider : transfer'[w][p] = transfer[w][p] \/ transfer[w][p] = "none",
         Recorded(w)', ref'[w] # None => status'[w] \notin {"reversed", "failed"}
  PROVE  Traced'
<1>1. \A v \in W : Recorded(v) /\ ReversedByFailure(v) /\ \A n \in notices[v] : Truthful(v, n)
  BY DEF Traced
<1>2. ref[w] = None
  BY <1>1 DEF Recorded
<1>3. ASSUME NEW v \in W, NEW n, n.p \in Provider, Truthful(v, n) PROVE Truthful(v, n)'
  BY <1>3 DEF Truthful
<1>4. ASSUME NEW v \in W PROVE Recorded(v)' /\ ReversedByFailure(v)'
  BY <1>1 DEF Recorded, ReversedByFailure
<1>5. ASSUME NEW v \in W, NEW n \in notices'[v] PROVE Truthful(v, n)'
  BY <1>1, <1>3, JobsTyped
<1>6. ASSUME NEW h \in Handler, job[h] # None PROVE Founded(h)'
  <2>1. job[h].w \in W /\ job[h].notice.p \in Provider
    BY <1>6, JobsTyped
  <2>2. Founded(h) /\ Truthful(job[h].w, job[h].notice)
    BY <1>6 DEF Traced, Founded
  <2>3. Truthful(job[h].w, job[h].notice)'
    BY <2>1, <2>2, <1>3
  <2>4. job[h].step # "find" => job[h].w # w
    BY <1>2, <1>6, <2>1, <2>2, NullAssumption DEF Founded
  <2> QED
    BY <1>6, <2>1, <2>2, <2>3, <2>4 DEF Founded
<1>7. \A h \in Handler : Founded(h)'
  BY <1>6 DEF Founded
<1>8. OneAtATime'
  BY DEF Traced, OneAtATime
<1> QED
  BY <1>4, <1>5, <1>7, <1>8 DEF Traced

LEMMA InitiateTraced ==
  ASSUME TypeOK, Traced, Balanced, NEW w \in W, Initiate(w)
  PROVE  Traced' /\ Balanced'
<1>1. Recorded(w)
  BY DEF Traced
<1>2. UNCHANGED <<deleted, ref, transfer, notices, job>> /\ pc[w] \in {"new", "check", "insert"}
  BY DEF Initiate, ReadBalance, CheckInputs, Create, CreateUnread
<1>3. CASE Create(w)
  <2>1. /\ SetStatus(w, "pending") /\ Goto(w, "start") /\ pc[w] = "insert"
        /\ Add(BalOf[w], -Amount[w])
    BY <1>3 DEF Create
  <2>2. status[w] = "none" /\ ref[w] = None /\ \A p \in Provider : transfer[w][p] = "none"
    BY <1>1, <2>1 DEF Recorded, Unasked
  <2>3. \A v \in W : /\ pc'[v] = IF v = w THEN "start" ELSE pc[v]
                     /\ status'[v] = IF v = w THEN "pending" ELSE status[v]
    BY <2>1, StatusAt DEF Goto, TypeOK
  <2>4. Recorded(w)'
    BY <1>2, <2>2, <2>3 DEF Recorded, Debit
  <2>5. Traced'
    BY <1>2, <2>2, <2>3, <2>4, OwnStep
  <2> QED
    BY <1>2, <2>1, <2>2, <2>5, BalanceDebited
<1>4. CASE ~Create(w)
  <2>1. UNCHANGED <<status, balance>>
    BY <1>4 DEF Initiate, ReadBalance, CheckInputs, CreateUnread
  <2>2. PICK l \in {"check", "insert", "refused"} : Goto(w, l)
    BY <1>4 DEF Initiate, ReadBalance, CheckInputs, CreateUnread
  <2>3. \A v \in W : pc'[v] = IF v = w THEN l ELSE pc[v]
    BY <2>2 DEF Goto, TypeOK
  <2>4. /\ status[w] = "none" /\ ref[w] = None
        /\ \A p \in Provider : transfer[w][p] = "none"
    BY <1>1, <1>2 DEF Recorded, Unasked
  <2>5. Recorded(w)'
    BY <1>2, <2>1, <2>3, <2>4 DEF Recorded, Sending
  <2>6. Traced'
    BY <1>2, <2>1, <2>3, <2>4, <2>5, OwnStep
  <2> QED
    BY <1>2, <2>1, <2>6, BalancesStand
<1> QED
  BY <1>3, <1>4

\* The code goes on between two calls, or asks a provider.
LEMMA SendTraced ==
  ASSUME TypeOK, Traced, Balanced, NEW w \in W,
         \/ StartTransfer(w) \/ PaystackAccepts(w) \/ PaystackRejects(w)
         \/ PaystackUnanswered(w) \/ MonnifyAccepts(w) \/ MonnifyRejects(w)
         \/ MonnifyUnanswered(w)
  PROVE  Traced' /\ Balanced'
<1>1. Recorded(w)
  BY DEF Traced
<1>2. /\ UNCHANGED <<ref, notices, job, balance, deleted>>
      /\ pc[w] \in {"start", "paystack", "monnify"}
  BY DEF StartTransfer, PaystackAccepts, PaystackRejects, PaystackUnanswered, MonnifyAccepts,
     MonnifyRejects, MonnifyUnanswered
<1>3. status[w] \in Debit /\ ref[w] = None
  BY <1>1, <1>2 DEF Recorded, Sending
<1>4. /\ \A v \in W \ {w} : status'[v] = status[v]
      /\ status'[w] \in Debit
  <2>1. CASE StartTransfer(w)
    BY <2>1, StatusAt DEF StartTransfer, Debit
  <2>2. CASE ~StartTransfer(w)
    BY <1>3, <2>2 DEF PaystackAccepts, PaystackRejects, PaystackUnanswered, MonnifyAccepts,
       MonnifyRejects, MonnifyUnanswered
  <2> QED
    BY <2>1, <2>2
<1>5. /\ \A v \in W \ {w} : transfer'[v] = transfer[v]
      /\ \A p \in Provider : pc[w] # p => transfer'[w][p] = transfer[w][p]
  <2>1. CASE PaystackAccepts(w) \/ PaystackUnanswered(w)
    <3>1. PICK t : SetTransfer(w, "paystack", t) /\ pc[w] = "paystack"
      BY <2>1 DEF PaystackAccepts, PaystackUnanswered
    <3>2. transfer' = [transfer EXCEPT ![w] = [@ EXCEPT !["paystack"] = t]]
      BY <3>1 DEF SetTransfer
    <3> QED
      BY <3>1, <3>2 DEF TypeOK
  <2>2. CASE MonnifyAccepts(w) \/ MonnifyUnanswered(w)
    <3>1. PICK t : SetTransfer(w, "monnify", t) /\ pc[w] = "monnify"
      BY <2>2 DEF MonnifyAccepts, MonnifyUnanswered
    <3>2. transfer' = [transfer EXCEPT ![w] = [@ EXCEPT !["monnify"] = t]]
      BY <3>1 DEF SetTransfer
    <3> QED
      BY <3>1, <3>2 DEF TypeOK
  <2>3. CASE UNCHANGED transfer
    BY <2>3
  <2> QED
    BY <2>1, <2>2, <2>3 DEF StartTransfer, PaystackRejects, MonnifyRejects
<1>6. PICK l \in {"paystack", "savePaystack", "monnify", "saveMonnify", "open"} :
        /\ Goto(w, l)
        /\ pc[w] = "start" => l = "paystack"
        /\ pc[w] = "paystack" => l \in {"savePaystack", "monnify"}
        /\ pc[w] = "monnify" => l \in {"saveMonnify", "open"}
  BY DEF StartTransfer, PaystackAccepts, PaystackRejects, PaystackUnanswered, MonnifyAccepts,
     MonnifyRejects, MonnifyUnanswered
<1>7. \A v \in W : pc'[v] = IF v = w THEN l ELSE pc[v]
  BY <1>6 DEF Goto, TypeOK
<1>8. \A p \in Provider : pc[w] = p => transfer[w][p] = "none"
  BY <1>1 DEF Recorded, Unasked, Provider
<1>9. Recorded(w)'
  <2>1. \A p \in Provider : l \in Unasked(p) => pc[w] \in Unasked(p) /\ pc[w] # p
    BY <1>2, <1>6 DEF Unasked, Provider
  <2>2. \A p \in Provider : pc'[w] \in Unasked(p) => transfer'[w][p] = "none"
    BY <1>1, <1>5, <1>7, <2>1 DEF Recorded
  <2>3. ref'[w] = None /\ status'[w] \in Debit /\ pc'[w] = l
    BY <1>2, <1>3, <1>4, <1>7
  <2> QED
    BY <1>6, <2>2, <2>3 DEF Recorded, Unasked
<1>10. Traced'
  BY <1>2, <1>3, <1>4, <1>5, <1>7, <1>8, <1>9, OwnStep
<1>11. Balanced'
  BY <1>2, <1>3, <1>4, BalancesStand
<1> QED
  BY <1>10, <1>11

\* The code stores its reference, or ends with a refund or without.
LEMMA SaveTraced ==
  ASSUME TypeOK, Traced, Balanced, NEW w \in W,
         SavePaystack(w) \/ SaveMonnify(w) \/ OpenRefund(w) \/ DoRefund(w)
  PROVE  Traced' /\ Balanced'
<1>1. Recorded(w)
  BY DEF Traced
<1>2. /\ UNCHANGED <<transfer, notices, job, deleted>>
      /\ pc[w] \in {"savePaystack", "saveMonnify", "open", "refund"}
  BY DEF SavePaystack, SaveMonnify, OpenRefund, DoRefund, Refund
<1>3. status[w] \in Debit /\ ref[w] = None /\ status[w] # "none" /\ ~Settled(w)
  BY <1>1, <1>2 DEF Recorded, Sending, Debit, Settled
<1>4. CASE SavePaystack(w) \/ SaveMonnify(w)
  <2>1. PICK p \in Provider : /\ ref' = [ref EXCEPT ![w] = p]
                              /\ SetStatus(w, "processing") /\ Goto(w, "done")
                              /\ UNCHANGED balance
    BY <1>4 DEF SavePaystack, SaveMonnify, Provider
  <2>2. \A v \in W : /\ pc'[v] = IF v = w THEN "done" ELSE pc[v]
                     /\ status'[v] = IF v = w THEN "processing" ELSE status[v]
                     /\ ref'[v] = IF v = w THEN p ELSE ref[v]
    BY <2>1, StatusAt DEF Goto, TypeOK
  <2>3. Recorded(w)'
    BY <2>2 DEF Recorded, Sending, Unasked
  <2>4. Traced'
    BY <1>2, <2>2, <2>3, OwnStep
  <2>5. Balanced'
    BY <1>2, <1>3, <2>1, <2>2, BalancesStand DEF Debit
  <2> QED
    BY <2>4, <2>5
<1>5. CASE OpenRefund(w)
  <2>1. UNCHANGED <<status, ref, balance>> /\ Goto(w, "refund")
    BY <1>3, <1>5 DEF OpenRefund
  <2>2. \A v \in W : pc'[v] = IF v = w THEN "refund" ELSE pc[v]
    BY <2>1 DEF Goto, TypeOK
  <2>3. Recorded(w)'
    BY <1>3, <2>1, <2>2 DEF Recorded, Unasked
  <2>4. Traced'
    BY <1>2, <1>3, <2>1, <2>2, <2>3, OwnStep
  <2> QED
    BY <1>2, <2>1, <2>4, BalancesStand
<1>6. CASE DoRefund(w)
  <2>1. PICK s \in {"reversed", "failed"} :
          UNCHANGED ref /\ Goto(w, "done") /\ Refund(w) /\ SetStatus(w, s)
    BY <1>6 DEF DoRefund, Refund
  <2>2. \A v \in W : /\ pc'[v] = IF v = w THEN "done" ELSE pc[v]
                     /\ status'[v] = IF v = w THEN s ELSE status[v]
    BY <2>1, StatusAt DEF Goto, TypeOK
  <2>3. Recorded(w)'
    BY <1>3, <2>1, <2>2 DEF Recorded, Sending, Unasked
  <2>4. Traced'
    BY <1>2, <1>3, <2>1, <2>2, <2>3, OwnStep
  <2> QED
    BY <1>2, <1>3, <2>1, <2>4, BalanceRefunded
<1> QED
  BY <1>4, <1>5, <1>6

\* A provider decides, and says so.
LEMMA DecideTraced ==
  ASSUME TypeOK, Traced, Balanced, NEW w \in W, NEW p \in Provider,
         Pay(w, p) \/ FailToPay(w, p)
  PROVE  Traced' /\ Balanced'
<1>1. PICK t \in {"paid", "failed"}, e \in Event :
        /\ SetTransfer(w, p, t) /\ Notify(w, p, e)
        /\ t = IF e = "success" THEN "paid" ELSE "failed"
  BY DEF Pay, FailToPay, Event
<1>2. \A v \in W, q \in Provider :
        transfer'[v][q] = IF v = w /\ q = p THEN t ELSE transfer[v][q]
  BY <1>1, SetTransferAt DEF Transfer
<1>3. transfer[w][p] = "accepted" /\ UNCHANGED <<pc, ref, job, status, balance, deleted>>
  BY DEF Pay, FailToPay
<1>4. \A v \in W : Recorded(v) /\ ReversedByFailure(v) /\ \A n \in notices[v] : Truthful(v, n)
  BY DEF Traced
<1>5. ASSUME NEW v \in W, NEW n, n.p \in Provider, Truthful(v, n) PROVE Truthful(v, n)'
  BY <1>2, <1>3, <1>5 DEF Truthful
<1>6. \A v \in W : Recorded(v)'
  BY <1>2, <1>3, <1>4 DEF Recorded
<1>7. \A v \in W : ReversedByFailure(v)'
  <2>1. \A v \in W : ref[v] # None => ref[v] \in Provider
    BY DEF TypeOK
  <2> QED
    BY <1>2, <1>3, <1>4, <2>1 DEF ReversedByFailure
<1>8. ASSUME NEW v \in W, NEW n \in notices'[v] PROVE Truthful(v, n)'
  <2>1. n \in notices[v] \/ (v = w /\ n.p = p /\ n.event = e)
    BY <1>1, NotifyAdds
  <2>2. CASE n \in notices[v]
    BY <1>4, <1>5, <2>2, JobsTyped
  <2>3. CASE v = w /\ n.p = p /\ n.event = e
    BY <1>1, <1>2, <2>3 DEF Truthful
  <2> QED
    BY <2>1, <2>2, <2>3
<1>9. ASSUME NEW h \in Handler, job[h] # None PROVE Founded(h)'
  <2>1. job[h].w \in W /\ job[h].notice.p \in Provider
    BY <1>9, JobsTyped
  <2>2. Founded(h) /\ Truthful(job[h].w, job[h].notice)
    BY <1>9 DEF Traced, Founded
  <2>3. Truthful(job[h].w, job[h].notice)'
    BY <1>3, <1>5, <2>1, <2>2
  <2> QED
    BY <1>3, <1>9, <2>2, <2>3 DEF Founded, Truthful
<1>10. \A h \in Handler : Founded(h)'
  BY <1>3, <1>9 DEF Founded
<1>11. OneAtATime'
  BY <1>3 DEF Traced, OneAtATime
<1> QED
  BY <1>3, <1>6, <1>7, <1>8, <1>10, <1>11, BalancesStand DEF Traced

\* A notice is handed to a request that is alone, or given up.
LEMMA WebhookTraced ==
  ASSUME TypeOK, Traced, Balanced, NEW w \in W, Webhook(w),
         \A h \in Handler : \A n \in notices[w] :
           Receive(h, w, n) => \A g \in Handler : job[g] = None
  PROVE  Traced' /\ Balanced'
<1>1. UNCHANGED <<pc, ref, transfer, status, balance, deleted>>
  BY DEF Webhook, Receive, Unverified
<1>2. \A v \in W : notices'[v] \subseteq notices[v]
  BY NoticesShrink
<1>3. \A v \in W : Recorded(v) /\ ReversedByFailure(v) /\ \A n \in notices[v] : Truthful(v, n)
  BY DEF Traced
<1>4. \A v \in W : Recorded(v)' /\ ReversedByFailure(v)'
  BY <1>1, <1>3 DEF Recorded, ReversedByFailure
<1>5. \A v \in W : \A n \in notices'[v] : Truthful(v, n)'
  BY <1>1, <1>2, <1>3 DEF Truthful
<1>6. (\A h \in Handler : Founded(h)') /\ OneAtATime'
  <2>1. CASE UNCHANGED job
    BY <1>1, <2>1 DEF Traced, Founded, Truthful, OneAtATime
  <2>2. ASSUME NEW n \in notices[w], NEW h \in Handler, Receive(h, w, n)
        PROVE  (\A k \in Handler : Founded(k)') /\ OneAtATime'
    <3>1. /\ job'[h] = [w |-> w, notice |-> n, step |-> "find"]
          /\ \A k \in Handler \ {h} : job'[k] = None
      BY <2>2 DEF TypeOK, Receive
    <3>2. job'[h].w = w /\ job'[h].notice = n /\ job'[h].step = "find"
      BY <3>1
    <3>3. Truthful(w, n)'
      BY <1>1, <1>3 DEF Truthful
    <3>4. Founded(h)'
      BY <3>2, <3>3 DEF Founded, Truthful
    <3>5. \A k \in Handler \ {h} : Founded(k)'
      BY <3>1 DEF Founded
    <3> QED
      BY <3>1, <3>4, <3>5 DEF OneAtATime
  <2> QED
    BY <2>1, <2>2 DEF Webhook, Unverified
<1> QED
  BY <1>1, <1>4, <1>5, <1>6, BalancesStand DEF Traced

\* A request leaves the withdrawal's row alone, or is the only one to change it.
LEMMA WorkTraced ==
  ASSUME TypeOK, Traced, Balanced, NEW h \in Handler, Work(h)
  PROVE  Traced' /\ Balanced'
<1>1. /\ job[h] # None /\ UNCHANGED <<pc, ref, transfer, notices, deleted>>
      /\ \A k \in Handler \ {h} : job'[k] = job[k]
  BY DEF TypeOK, Work, FindWithdrawal, Complete, OpenRefundJob, RefundJob, Refund
<1>2. /\ job[h] \in Job /\ job[h].w \in W /\ job[h].notice \in Notice
      /\ job[h].notice.p \in Provider /\ job[h].notice.event \in Event
  BY <1>1, JobsTyped DEF TypeOK
<1>3. \A k \in Handler \ {h} : job[k] = None /\ job'[k] = None
  BY <1>1 DEF Traced, OneAtATime
<1>4. PICK w \in W, n \in Notice, p \in Provider :
        w = job[h].w /\ n = job[h].notice /\ p = job[h].notice.p
  BY <1>2
<1>5. Recorded(w) /\ ReversedByFailure(w) /\ Founded(h)
  BY DEF Traced
<1>6. Truthful(w, n) /\ Truthful(w, n)'
  BY <1>1, <1>4, <1>5 DEF Founded, Truthful
<1>7. (\A k \in Handler \ {h} : Founded(k)') /\ OneAtATime'
  BY <1>3 DEF Founded, OneAtATime
<1>8. \A v \in W : \A m \in notices'[v] : Truthful(v, m)'
  BY <1>1 DEF Traced, Truthful
<1>9. ASSUME UNCHANGED <<status, balance>>, Founded(h)' PROVE Traced' /\ Balanced'
  <2>1. \A v \in W : Recorded(v)' /\ ReversedByFailure(v)'
    BY <1>1, <1>9 DEF Traced, Recorded, ReversedByFailure
  <2>2. Balanced'
    BY <1>1, <1>9, BalancesStand
  <2> QED
    BY <1>7, <1>8, <1>9, <2>1, <2>2 DEF Traced
<1>10. CASE FindWithdrawal(h)
  <2>1. /\ UNCHANGED <<status, balance>>
        /\ job'[h] = IF ref[w] = p
                     THEN [job[h] EXCEPT !.step = IF n.event = "success"
                                                  THEN "complete" ELSE "open"]
                     ELSE None
    BY <1>4, <1>10 DEF FindWithdrawal, TypeOK
  <2>2. CASE ref[w] = p
    <3>1. PICK l \in {"complete", "open"} :
            /\ l = IF n.event = "success" THEN "complete" ELSE "open"
            /\ job'[h] = [job[h] EXCEPT !.step = l]
      BY <2>1, <2>2
    <3>2. job'[h].w = w /\ job'[h].notice = n /\ job'[h].step = l
      BY <1>2, <1>4, <3>1 DEF Job
    <3>3. n.event = "success" \/ n.event = "failed"
      BY <1>2, <1>4 DEF Event
    <3>4. Founded(h)'
      BY <1>1, <1>4, <1>6, <2>2, <3>1, <3>2, <3>3 DEF Founded, Truthful
    <3> QED
      BY <1>9, <2>1, <3>4
  <2>3. CASE ref[w] # p
    BY <1>9, <2>1, <2>3 DEF Founded
  <2> QED
    BY <2>2, <2>3
<1>11. CASE OpenRefundJob(h)
  <2>1. /\ UNCHANGED <<status, balance>> /\ job[h].step = "open"
        /\ job'[h] = IF Settled(w) THEN None ELSE [job[h] EXCEPT !.step = "refund"]
    BY <1>4, <1>11 DEF OpenRefundJob, TypeOK
  <2>2. CASE ~Settled(w)
    <3>1. job'[h].w = w /\ job'[h].notice = n /\ job'[h].step = "refund"
      BY <1>2, <1>4, <2>1, <2>2 DEF Job
    <3>2. ref[w] = n.p /\ n.event = "failed"
      BY <1>1, <1>4, <1>5, <2>1 DEF Founded
    <3>3. status[w] \in Debit
      <4>1. ref[w] # None
        BY <1>4, <3>2, NullAssumption
      <4>2. status[w] # "none" /\ status[w] \in Status
        BY <1>5, <4>1 DEF Recorded, TypeOK
      <4> QED
        BY <2>2, <4>2 DEF Settled, Status, Debit
    <3>4. Founded(h)'
      BY <1>1, <1>6, <2>1, <3>1, <3>2, <3>3 DEF Founded, Truthful
    <3> QED
      BY <1>9, <2>1, <3>4
  <2>3. CASE Settled(w)
    BY <1>9, <2>1, <2>3 DEF Founded
  <2> QED
    BY <2>2, <2>3
<1>12. CASE Complete(h) \/ RefundJob(h)
  <2>1. /\ job'[h] = None /\ job[h].step \in {"complete", "refund"}
        /\ ref[w] = p /\ p # None /\ pc[w] = "done" /\ status[w] # "none"
    <3>1. job'[h] = None /\ job[h].step \in {"complete", "refund"}
      BY <1>12 DEF Complete, RefundJob, TypeOK
    <3>2. ref[w] = p /\ p # None
      BY <1>1, <1>4, <1>5, <3>1, NullAssumption DEF Founded
    <3> QED
      BY <1>5, <3>1, <3>2 DEF Recorded
  <2>2. Founded(h)'
    BY <2>1 DEF Founded
  <2>3. PICK s \in {"completed", "reversed", "failed"} :
          /\ SetStatus(w, s)
          /\ Complete(h) => s = "completed"
    BY <1>4, <1>12 DEF Complete, RefundJob, Refund
  <2>4. \A v \in W : status'[v] = IF v = w THEN s ELSE status[v]
    BY <2>3, StatusAt
  <2>5. \A v \in W : Recorded(v)'
    BY <1>1, <2>1, <2>4 DEF Traced, Recorded, Sending
  <2>6. CASE Complete(h)
    <3>1. transfer[w][p] = "paid"
      BY <1>1, <1>4, <1>5, <2>6 DEF Complete, Founded, Truthful
    <3>2. status[w] \in Debit
      <4>1. status[w] \notin {"reversed", "failed"}
        BY <1>5, <2>1, <3>1 DEF ReversedByFailure
      <4>2. status[w] \in Status
        BY DEF TypeOK
      <4> QED
        BY <2>1, <4>1, <4>2 DEF Status, Debit
    <3>3. \A v \in W : ReversedByFailure(v)'
      BY <1>1, <2>3, <2>4, <2>6 DEF Traced, ReversedByFailure
    <3>4. Balanced'
      <4>1. UNCHANGED balance
        BY <2>6 DEF Complete
      <4>2. s \in Debit
        BY <2>3, <2>6 DEF Debit
      <4> QED
        BY <1>1, <2>4, <3>2, <4>1, <4>2, BalancesStand
    <3> QED
      BY <1>7, <1>8, <2>2, <2>5, <3>3, <3>4 DEF Traced
  <2>7. CASE RefundJob(h)
    <3>1. transfer[w][p] = "failed" /\ status[w] \in Debit
      BY <1>1, <1>4, <1>5, <2>7 DEF RefundJob, Founded, Truthful
    <3>2. \A v \in W : ReversedByFailure(v)'
      BY <1>1, <2>1, <2>4, <3>1 DEF Traced, ReversedByFailure
    <3>3. Balanced'
      BY <1>1, <1>4, <2>7, <3>1, BalanceRefunded DEF RefundJob
    <3> QED
      BY <1>7, <1>8, <2>2, <2>5, <3>2, <3>3 DEF Traced
  <2> QED
    BY <1>12, <2>6, <2>7
<1> QED
  BY <1>10, <1>11, <1>12 DEF Work

\* A provider that was being asked may have accepted; the webhooks that were not
\* answered come again.
LEMMA CrashTraced ==
  ASSUME TypeOK, Traced, Balanced, Crash
  PROVE  Traced' /\ Balanced'
<1>1. /\ UNCHANGED <<balance, deleted, status, ref>> /\ \A h \in Handler : job'[h] = None
      /\ \A w \in W : pc'[w] = IF pc[w] \in {"new", "refused"} THEN pc[w] ELSE "done"
  BY DEF Crash
<1>2. \A w \in W, p \in Provider :
        transfer'[w][p] = transfer[w][p] \/ pc[w] = p
  BY DEF Crash
<1>3. \A w \in W : \A n \in notices'[w] :
        n \in notices[w] \/ \E h \in Handler : job[h] # None /\ job[h].w = w /\ n = job[h].notice
  BY DEF Crash
<1>4. \A w \in W : Recorded(w) /\ ReversedByFailure(w) /\ \A n \in notices[w] : Truthful(w, n)
  BY DEF Traced
<1>5. \A w \in W, p \in Provider : transfer'[w][p] = transfer[w][p] \/ transfer[w][p] = "none"
  BY <1>2, <1>4 DEF Recorded, Unasked, Provider
<1>6. \A w \in W : Recorded(w)'
  <2> SUFFICES ASSUME NEW w \in W PROVE Recorded(w)'
    OBVIOUS
  <2>1. CASE pc[w] \in {"new", "refused"}
    <3>1. pc'[w] = pc[w] /\ \A p \in Provider : transfer'[w][p] = transfer[w][p]
      BY <1>1, <1>2, <2>1 DEF Provider
    <3> QED
      BY <1>1, <1>4, <3>1 DEF Recorded
  <2>2. CASE pc[w] \notin {"new", "refused"}
    <3>1. pc'[w] = "done"
      BY <1>1, <2>2
    <3>2. ref[w] # None => status[w] # "none"
      BY <1>4 DEF Recorded
    <3> QED
      BY <1>1, <3>1, <3>2 DEF Recorded, Sending, Unasked
  <2> QED
    BY <2>1, <2>2
<1>7. \A w \in W : ReversedByFailure(w)'
  <2>1. \A w \in W : ref[w] # None => ref[w] \in Provider
    BY DEF TypeOK
  <2> QED
    BY <1>1, <1>4, <1>5, <2>1 DEF ReversedByFailure
<1>8. ASSUME NEW w \in W, NEW n \in notices'[w] PROVE Truthful(w, n)'
  <2>1. Truthful(w, n) /\ n.p \in Provider
    <3>1. CASE n \in notices[w]
      BY <1>4, <3>1, JobsTyped
    <3>2. CASE \E h \in Handler : job[h] # None /\ job[h].w = w /\ n = job[h].notice
      BY <3>2, JobsTyped DEF Traced, Founded
    <3> QED
      BY <1>3, <3>1, <3>2
  <2> QED
    BY <1>5, <2>1 DEF Truthful
<1>9. (\A h \in Handler : Founded(h)') /\ OneAtATime'
  BY <1>1 DEF Founded, OneAtATime
<1> QED
  BY <1>1, <1>6, <1>7, <1>8, <1>9, BalancesStand DEF Traced

LEMMA IdleTraced ==
  ASSUME TypeOK, Traced, Balanced,
         (\E b \in Bal : CacheExpires(b) \/ DeleteBalance(b)) \/ UNCHANGED vars
  PROVE  Traced' /\ Balanced'
<1>1. /\ UNCHANGED <<balance, pc, status, ref, transfer, notices, job>>
      /\ deleted \subseteq deleted'
  BY DEF CacheExpires, DeleteBalance, vars
<1>2. \A w \in W : Recorded(w)' /\ ReversedByFailure(w)'
  BY <1>1 DEF Traced, Recorded, ReversedByFailure
<1>3. \A w \in W : \A n \in notices'[w] : Truthful(w, n)'
  BY <1>1 DEF Traced, Truthful
<1>4. \A h \in Handler : Founded(h)'
  BY <1>1 DEF Traced, Founded, Truthful
<1>5. OneAtATime'
  BY <1>1 DEF Traced, OneAtATime
<1> QED
  BY <1>1, <1>2, <1>3, <1>4, <1>5, BalancesStand DEF Traced

\* A step that changes one withdrawal's status or refunds it, while it is not
\* reversed, leaves one refund at most.
LEMMA OnceKept ==
  ASSUME TypeOK, Once, NEW w \in W, status[w] # "reversed",
         \A v \in W \ {w} : status'[v] = status[v],
         UNCHANGED refunds \/ (Refund(w) /\ UNCHANGED deleted)
  PROVE  Once'
<1>1. \A v \in W : refunds[v] \in Nat
  BY DEF TypeOK
<1>2. refunds[w] = 0
  BY <1>1 DEF Once
<1>3. CASE UNCHANGED refunds
  BY <1>2, <1>3 DEF Once
<1>4. CASE Refund(w)
  <2>1. \A v \in W \ {w} : refunds'[v] = refunds[v]
    BY <1>4 DEF Refund, TypeOK
  <2>2. \/ refunds'[w] = 0
        \/ refunds'[w] = 1 /\ SetStatus(w, "reversed")
    BY <1>2, <1>4 DEF Refund, Found, TypeOK
  <2>3. SetStatus(w, "reversed") => status'[w] = "reversed"
    BY StatusAt
  <2> QED
    BY <2>1, <2>2, <2>3 DEF Once
<1> QED
  BY <1>3, <1>4

\* Without faults nothing changes the status of a withdrawal that was reversed.
LEMMA OnceStep ==
  ASSUME TypeOK, BudgetBounded, Traced, Once, Next, Quiet'
  PROVE  Once'
<1>1. CASE UNCHANGED <<status, refunds>>
  BY <1>1 DEF Once
<1>2. ASSUME NEW w \in W, Create(w) \/ StartTransfer(w) \/ SavePaystack(w) \/ SaveMonnify(w)
                         \/ DoRefund(w)
      PROVE  Once'
  <2>1. Recorded(w)
    BY DEF Traced
  <2>2. status[w] # "reversed"
    BY <1>2, <2>1
    DEF Recorded, Sending, Debit, Create, StartTransfer, SavePaystack, SaveMonnify, DoRefund
  <2>3. PICK s : SetStatus(w, s)
    BY <1>2 DEF Create, StartTransfer, SavePaystack, SaveMonnify, DoRefund, Refund
  <2>4. \A v \in W \ {w} : status'[v] = status[v]
    BY <2>3, StatusAt
  <2>5. UNCHANGED refunds \/ (Refund(w) /\ UNCHANGED deleted)
    BY <1>2 DEF Create, StartTransfer, SavePaystack, SaveMonnify, DoRefund
  <2> QED
    BY <2>2, <2>4, <2>5, OnceKept
<1>3. ASSUME NEW h \in Handler, Complete(h) \/ RefundJob(h)
      PROVE  Once'
  <2>1. job[h] # None /\ job[h].step \in {"complete", "refund"}
    BY <1>3 DEF Complete, RefundJob
  <2>2. PICK w \in W, p \in Provider : w = job[h].w /\ p = job[h].notice.p
    BY <2>1, JobsTyped
  <2>3. Founded(h) /\ ReversedByFailure(w)
    BY DEF Traced
  <2>4. CASE Complete(h)
    <3>1. transfer[w][p] = "paid" /\ ref[w] = p
      BY <2>1, <2>2, <2>3, <2>4 DEF Founded, Truthful, Complete
    <3> QED
      BY <2>2, <2>3, <2>4, <3>1, NullAssumption, StatusAt, OnceKept
      DEF ReversedByFailure, Complete
  <2>5. CASE RefundJob(h)
    <3>1. status[w] # "reversed"
      BY <2>1, <2>2, <2>3, <2>5 DEF Founded, Debit, RefundJob
    <3>2. PICK s : SetStatus(w, s)
      BY <2>2, <2>5 DEF RefundJob, Refund
    <3>3. \A v \in W \ {w} : status'[v] = status[v]
      BY <3>2, StatusAt
    <3> QED
      BY <2>2, <2>5, <3>1, <3>3, OnceKept DEF RefundJob
  <2> QED
    BY <1>3, <2>4, <2>5
<1>4. ASSUME NEW w \in W, Initiate(w) \/ Proceed(w) \/ GoWrong(w) \/ ProviderStep(w) \/ Webhook(w)
      PROVE  Once'
  <2>1. GoWrong(w) => PaystackUnanswered(w) \/ MonnifyUnanswered(w)
    BY QuietIsFaultless
  <2> QED
    BY <1>1, <1>2, <1>4, <2>1
    DEF Initiate, ReadBalance, CheckInputs, CreateUnread, Proceed, PaystackAccepts,
        PaystackRejects, MonnifyAccepts, MonnifyRejects, OpenRefund, PaystackUnanswered,
        MonnifyUnanswered, ProviderStep, Pay, FailToPay, Return, Webhook, Unverified, Receive
<1>5. ASSUME NEW h \in Handler, Work(h) \/ JobFails(h) PROVE Once'
  <2>1. ~JobFails(h)
    BY QuietIsFaultless
  <2> QED
    BY <1>1, <1>3, <1>5, <2>1 DEF Work, FindWithdrawal, OpenRefundJob
<1>6. CASE (\E b \in Bal : CacheExpires(b) \/ DeleteBalance(b)) \/ Crash \/ Finished
  BY <1>1, <1>6 DEF CacheExpires, DeleteBalance, Crash, Finished, vars
<1> QED
  BY <1>4, <1>5, <1>6 DEF Next

LEMMA BooksInit == Init => BooksInv
<1> SUFFICES ASSUME Init PROVE Traced /\ Balanced /\ Once
  BY DEF BooksInv
<1>o. Once
  BY DEF Init, Once
<1>1. Traced
  BY DEF Init, Traced, Recorded, Sending, ReversedByFailure, Founded, OneAtATime
<1>2. ASSUME NEW b \in Bal
      PROVE  IsFiniteSet(Debited(b)) /\ balance[b] = Opening[b] - Total(Debited(b))
  <2>1. Debited(b) = {}
    BY DEF Init, Debited, Debit
  <2>2. balance[b] = Opening[b] /\ Opening[b] \in Int
    BY WithdrawalAssumption DEF Init
  <2> QED
    BY <2>1, <2>2, TotalOfNone, FS_EmptySet
<1> QED
  BY <1>o, <1>1, <1>2 DEF Balanced

LEMMA BooksStep ==
  ASSUME TypeOK, BudgetBounded, BooksInv, [Next]_vars
  PROVE  BooksInv'
<1>1. CASE UNCHANGED vars
  <2>1. Quiet' => Quiet
    BY <1>1 DEF vars, Quiet, Never
  <2>2. Once => Once'
    BY <1>1 DEF vars, Once
  <2> QED
    BY <1>1, <2>1, <2>2, IdleTraced DEF BooksInv
<1>2. CASE Next
  <2>o. Quiet' => Once'
    BY <1>2, QuietStep, OnceStep DEF BooksInv
  <2> SUFFICES ASSUME Quiet' PROVE Traced' /\ Balanced'
    BY <2>o DEF BooksInv
  <2>1. Traced /\ Balanced
    BY <1>2, QuietStep DEF BooksInv
  <2>2. /\ \A w \in W : GoWrong(w) => PaystackUnanswered(w) \/ MonnifyUnanswered(w)
        /\ \A w \in W, p \in Provider : ~Return(w, p)
        /\ \A h \in Handler : ~JobFails(h)
        /\ \A h \in Handler, w \in W : \A n \in notices[w] :
             Receive(h, w, n) => \A g \in Handler : job[g] = None
    BY <1>2, QuietIsFaultless
  <2>3. ASSUME NEW w \in W, Initiate(w) PROVE Traced' /\ Balanced'
    BY <2>1, <2>3, InitiateTraced
  <2>4. ASSUME NEW w \in W, Proceed(w) \/ GoWrong(w) PROVE Traced' /\ Balanced'
    BY <2>1, <2>2, <2>4, SendTraced, SaveTraced DEF Proceed
  <2>5. ASSUME NEW w \in W, ProviderStep(w) PROVE Traced' /\ Balanced'
    BY <2>1, <2>2, <2>5, DecideTraced DEF ProviderStep
  <2>6. ASSUME NEW w \in W, Webhook(w) PROVE Traced' /\ Balanced'
    BY <2>1, <2>2, <2>6, WebhookTraced
  <2>7. ASSUME NEW h \in Handler, Work(h) PROVE Traced' /\ Balanced'
    BY <2>1, <2>7, WorkTraced
  <2>8. ASSUME (\E b \in Bal : CacheExpires(b) \/ DeleteBalance(b)) \/ Crash \/ Finished
        PROVE  Traced' /\ Balanced'
    BY <2>1, <2>8, CrashTraced, IdleTraced DEF Finished
  <2> QED
    BY <1>2, <2>2, <2>3, <2>4, <2>5, <2>6, <2>7, <2>8 DEF Next
<1> QED
  BY <1>1, <1>2

-----------------------------------------------------------------------------
(* The inductive invariant *)

LEMMA InvInit ==
  ASSUME Init
  PROVE  Inv
<1>1. TypeOK
  BY WithdrawalAssumption, FaultAssumption DEF Init, TypeOK, Pc, Status, Transfer, Provider
<1>2. BudgetBounded
  BY FaultAssumption DEF Init, BudgetBounded
<1>3. Orderly
  BY DEF Init, Orderly, Sent, Referenced, Noticed, Refunded, Grounded, Provider, Out
<1> QED
  BY <1>1, <1>2, <1>3 DEF Inv, OrderInv

\* Every fault of the network or of the database ends the calm.
LEMMA CalmIsFaultless ==
  ASSUME TypeOK, BudgetBounded, Next, Calm'
  PROVE  /\ \A w \in W : ~GoWrong(w)
         /\ \A h \in Handler : ~JobFails(h)
BY CalmStep DEF GoWrong, CreateFails, StartFails, PaystackUnanswered, SavePaystackFails,
   MonnifyUnanswered, SaveMonnifyFails, RefundFails, JobFails

LEMMA InvStep ==
  ASSUME Inv, [Next]_vars
  PROVE  Inv'
<1>1. CASE UNCHANGED vars
  <2>1. TypeOK' /\ BudgetBounded' /\ (Calm' => Calm)
    BY <1>1 DEF Inv, vars, TypeOK, BudgetBounded, Calm
  <2> QED
    BY <1>1, <2>1, QuietOrder DEF Inv, OrderInv
<1>2. CASE Next
  <2>1. TypeOK' /\ BudgetBounded' /\ (Calm' => Calm)
    BY <1>2, NextTypes, NextBudget, BudgetStep DEF Inv
  <2> SUFFICES ASSUME Calm'
               PROVE  Orderly'
    BY <2>1 DEF Inv, OrderInv
  <2>2. TypeOK /\ BudgetBounded /\ Orderly
    BY <2>1 DEF Inv, OrderInv
  <2>3. (\A w \in W : ~GoWrong(w)) /\ (\A h \in Handler : ~JobFails(h))
    BY <1>2, <2>2, CalmIsFaultless
  <2>4. ASSUME NEW w \in W, Initiate(w)
        PROVE  Orderly'
    BY <2>2, <2>4, InitiateOrder
  <2>5. ASSUME NEW w \in W, Proceed(w)
        PROVE  Orderly'
    BY <2>2, <2>5, AcceptOrder, MoveOrder, SaveOrder, RefundOrder DEF Proceed
  <2>6. ASSUME NEW w \in W, ProviderStep(w)
        PROVE  Orderly'
    BY <2>2, <2>6, ProviderOrder DEF ProviderStep
  <2>7. ASSUME NEW w \in W, Webhook(w)
        PROVE  Orderly'
    BY <2>2, <2>7, WebhookOrder
  <2>8. ASSUME NEW h \in Handler, Work(h)
        PROVE  Orderly'
    BY <2>2, <2>8, WorkOrder
  <2>9. ASSUME (\E b \in Bal : CacheExpires(b) \/ DeleteBalance(b)) \/ Crash \/ Finished
        PROVE  Orderly'
    BY <2>2, <2>9, QuietOrder, CrashOrder DEF Finished
  <2> QED
    BY <1>2, <2>3, <2>4, <2>5, <2>6, <2>7, <2>8, <2>9 DEF Next
<1> QED
  BY <1>1, <1>2

LEMMA Invariance == Spec => []Inv
<1>1. Init => Inv
  BY InvInit
<1>2. Inv /\ [Next]_vars => Inv'
  BY InvStep
<1> QED
  BY <1>1, <1>2, PTL DEF Spec

\* The books are kept as long as no query fails, no money comes back and webhooks
\* are handled one at a time.
LEMMA BooksInvariance == Spec => []BooksInv
<1>1. Init => BooksInv
  BY BooksInit
<1>2. Inv /\ BooksInv /\ [Next]_vars => BooksInv'
  BY BooksStep DEF Inv
<1> QED
  BY <1>1, <1>2, Invariance, PTL DEF Spec

\* A withdrawal's state stays well typed, and the status "failed", which
\* _handleTransferFailure writes on the way to "reversed", is left in a committed
\* row only when the user has deleted the balance that was to be credited.
THEOREM OffRampTypes == Spec => []TypeOK
<1>1. Inv => TypeOK
  BY DEF Inv
<1> QED
  BY <1>1, Invariance, PTL

\* Until a call or a query fails, the place a withdrawal's code has reached tells
\* which provider has it and under which reference, for any number of withdrawals.
THEOREM OffRampInvariant == Spec => []OrderInv
<1>1. Inv => OrderInv
  BY DEF Inv, OrderInv
<1> QED
  BY <1>1, Invariance, PTL

\* While providers and database answer, no withdrawal goes to both providers or
\* is both refunded and paid out, and it is refunded twice only by webhooks handled
\* together or for money that came back, for any number of crashes and webhook
\* requests.
THEOREM PaidOrRefundedTheorem == Spec => []PaidOrRefunded
<1>1. Inv /\ BooksInv => PaidOrRefunded
  <2> SUFFICES ASSUME Inv, BooksInv, Calm, NEW w \in W
               PROVE  /\ \E p \in Provider : transfer[w][p] = "none"
                      /\ refunds[w] > 0 => \A p \in Provider : ~Out(w, p)
                      /\ Never("overlap") /\ Never("back") => refunds[w] <= 1
    BY DEF PaidOrRefunded
  <2>1. /\ \E p \in Provider : transfer[w][p] = "none"
        /\ refunds[w] > 0 => \A p \in Provider : ~Out(w, p)
    BY DEF Inv, OrderInv, Orderly, Sent, Refunded
  <2>2. Never("overlap") /\ Never("back") => Quiet
    BY DEF Calm, Quiet, Never
  <2> QED
    BY <2>1, <2>2 DEF BooksInv, Once
<1> QED
  BY <1>1, Invariance, BooksInvariance, PTL

\* As long as queries succeed, webhooks are handled one at a time and no money
\* comes back after it was paid, a stored balance is its opening balance less the
\* withdrawals that are not reversed, for any number of withdrawals, crashes,
\* unanswered calls and repeated webhooks.
THEOREM BooksBalanceTheorem == Spec => []BooksBalance
<1>1. BooksInv => BooksBalance
  BY DEF BooksInv, Quiet, Balanced, BooksBalance
<1> QED
  BY <1>1, BooksInvariance, PTL

-----------------------------------------------------------------------------
(* The balances that withdrawals debit and refunds credit: BalanceSync.

   The argument: the position of a process tells which keys it still has to
   clear after its UPDATE.  A step either leaves the row alone, and then
   answers for every copy it leaves behind, or writes it and is a writer that
   still has all three copies to clear. *)
USE KindAssumption, NilAssumption, AmountAssumption, ChancesAssumption

Record == [pc : PC, seen : Int \cup {Nil}, got : Int \cup {Nil}, lapsed : BOOLEAN]

\* Where the code of each kind of process can be.
Place(p) ==
  IF p \in Poller THEN {"idle", "list", "read", "compare", "unlock"} \cup Updating
  ELSE IF p \in Refresh
  THEN {"idle", "look", "fill", "lock", "read", "compare", "unlock"} \cup Updating
  ELSE IF p \in Recon THEN {"idle", "read", "look", "fill", "compare"} \cup Updating
  ELSE {"idle", "look", "fill", "take", "dropUser", "dropId", "again", "refill", "commit",
        "hold", "swap"}

\* What a process has read by then: an amount, not nothing.
HasSeen(p, x) ==
  \/ x.pc \in {"fill", "lock", "compare", "take", "refill", "swap"}
  \/ x.pc = "read" /\ p \notin Recon
HasGot(p, x) ==
  \/ p \in Watcher /\ x.pc = "compare"
  \/ p \in Recon /\ x.pc \in {"look", "fill"}
  \/ p \in Ledger /\ x.pc # "idle"

Proper(p, x) ==
  /\ x \in Record /\ x.pc \in Place(p)
  /\ HasSeen(p, x) => x.seen \in Int
  /\ HasGot(p, x) => x.got \in Int

Known == \A p \in Proc : Proper(p, ps[p])

BalanceTyping == SyncTypeOK /\ Known

\* A proper record keeps every process proper.
LEMMA Put ==
  ASSUME BalanceTyping, NEW p \in Proc, NEW x, Proper(p, x), ps' = [ps EXCEPT ![p] = x]
  PROVE  /\ ps' \in [Proc -> [pc : PC, seen : Int \cup {Nil}, got : Int \cup {Nil}, lapsed : BOOLEAN]]
         /\ Known'
BY DEF BalanceTyping, SyncTypeOK, Known, Proper, Record

\* A process is of one kind, and the ledger's users are the only ones that do not watch.
LEMMA Kinds ==
  ASSUME NEW p \in Proc
  PROVE  \/ p \in Poller /\ p \notin Refresh /\ p \notin Recon /\ p \notin Ledger /\ p \in Watcher
         \/ p \notin Poller /\ p \in Refresh /\ p \notin Recon /\ p \notin Ledger /\ p \in Watcher
         \/ p \notin Poller /\ p \notin Refresh /\ p \in Recon /\ p \notin Ledger /\ p \in Watcher
         \/ p \notin Poller /\ p \notin Refresh /\ p \notin Recon /\ p \in Ledger /\ p \notin Watcher
BY DEF Proc, Watcher

\* The record a process has next.
LEMMA NextRecord ==
  ASSUME BalanceTyping, NEW p \in Proc, Step(p) \/ Start(p) \/ Dies(p)
  PROVE  \E x : Proper(p, x) /\ ps' = [ps EXCEPT ![p] = x]
<1> DEFINE r == ps[p]
<1>1. /\ Proper(p, r) /\ row \in Int /\ chain \in Int
      /\ copy \in [Key -> Int \cup {Nil}]
  BY DEF BalanceTyping, SyncTypeOK, Known
<1>2. Proper(p, Idle)
  BY Kinds DEF Proper, Idle, Record, PC, Place, HasSeen, HasGot, Updating
<1>3. ASSUME NEW place, MoveTo(p, place),
             place # "idle" => Proper(p, [r EXCEPT !.pc = place])
      PROVE  \E x : Proper(p, x) /\ ps' = [ps EXCEPT ![p] = x]
  BY <1>2, <1>3 DEF MoveTo
<1> HIDE DEF r
<1>4. CASE Hit(p) \/ Select(p)
  <2>1. KeyOf(p) \in Key /\ r.pc = "look"
    BY <1>4 DEF KeyOf, Key, Hit, Select, At, r
  <2>2. PICK v \in Int, place \in {"fill", AfterLook(p)} : See(p, v, place)
    BY <1>1, <1>4, <2>1 DEF Hit, Select
  <2>3. place # "idle" /\ Proper(p, [r EXCEPT !.seen = v, !.pc = place])
    BY <1>1, <2>1, <2>2, Kinds DEF Proper, Record, PC, Place, HasSeen, HasGot, Updating, AfterLook
  <2> QED
    BY <2>2, <2>3 DEF See, r
<1>5. CASE Fill(p) \/ FillFails(p)
  <2>1. r.pc = "fill" /\ MoveTo(p, AfterLook(p))
    BY <1>5 DEF Fill, FillFails, At, r
  <2>2. Proper(p, [r EXCEPT !.pc = AfterLook(p)])
    BY <1>1, <2>1, Kinds DEF Proper, Record, PC, Place, HasSeen, HasGot, Updating, AfterLook
  <2> QED
    BY <1>3, <2>1, <2>2
<1>6. CASE ReadChain(p)
  <2>1. r.pc = "read"
    BY <1>6 DEF ReadChain, At, r
  <2>2. PICK v \in Int : Get(p, v, AfterRead(p))
    BY <1>1, <1>6 DEF ReadChain
  <2>3. Proper(p, [r EXCEPT !.got = v, !.pc = AfterRead(p)])
    BY <1>1, <2>1, Kinds DEF Proper, Record, PC, Place, HasSeen, HasGot, Updating, AfterRead
  <2> QED
    BY <2>2, <2>3 DEF Get, r
<1>7. CASE Leave(p) \/ Write(p)
  <2>1. r.pc = "compare" /\ p \in Watcher
    BY <1>7 DEF Leave, Write, At, r
  <2>2. CASE MoveTo(p, "idle")
    BY <1>3, <2>2
  <2>3. ASSUME NEW place \in {"unlock", "dropUser"}, Forget(p, place), place = "unlock" => p \notin Recon
        PROVE  \E x : Proper(p, x) /\ ps' = [ps EXCEPT ![p] = x]
    <3>1. Proper(p, [r EXCEPT !.seen = Nil, !.got = Nil, !.pc = place])
      BY <1>1, <2>1, <2>3, Kinds DEF Proper, Record, PC, Place, HasSeen, HasGot, Updating
    <3> QED
      BY <2>3, <3>1 DEF Forget, r
  <2> QED
    BY <1>7, <2>2, <2>3 DEF Leave, Write
<1>8. CASE DropUser(p) \/ DropId(p) \/ DropToken(p)
  <2>1. PICK place : /\ MoveTo(p, place)
                  /\ \/ r.pc = "dropUser" /\ place = "dropId"
                     \/ r.pc = "dropId" /\ place = AfterDropId(p)
                     \/ r.pc = "dropToken" /\ place = "again"
    BY <1>8 DEF DropUser, DropId, DropToken, Drop, At, r
  <2>2. Proper(p, [r EXCEPT !.pc = place])
    BY <1>1, <2>1, Kinds DEF Proper, Record, PC, Place, HasSeen, HasGot, Updating, AfterDropId
  <2> QED
    BY <1>3, <2>1, <2>2
<1>9. CASE DropFails(p)
  <2>1. r.pc \in {"dropId", "dropToken"}
    BY <1>9 DEF DropFails, r
  <2>2. CASE MoveTo(p, "idle")
    BY <1>3, <2>2
  <2>3. CASE MoveTo(p, Finish(p)) /\ p \notin Ledger
    <3>1. Finish(p) # "idle" => Proper(p, [r EXCEPT !.pc = Finish(p)])
      BY <1>1, <2>1, <2>3, Kinds DEF Proper, Record, PC, Place, HasSeen, HasGot, Updating, Finish
    <3> QED
      BY <1>3, <2>3, <3>1
  <2> QED
    BY <1>9, <2>2, <2>3 DEF DropFails
<1>10. CASE Again(p)
  <2>1. r.pc = "again"
    BY <1>10 DEF Again, At, r
  <2>2. CASE MoveTo(p, AfterUpdate(p))
    <3>1. AfterUpdate(p) # "idle" => Proper(p, [r EXCEPT !.pc = AfterUpdate(p)])
      BY <1>1, <2>1, Kinds
      DEF Proper, Record, PC, Place, HasSeen, HasGot, Updating, Finish, AfterUpdate
    <3> QED
      BY <1>3, <2>2, <3>1
  <2>3. CASE See(p, row, "refill")
    <3>1. Proper(p, [r EXCEPT !.seen = row, !.pc = "refill"])
      BY <1>1, <2>1, Kinds DEF Proper, Record, PC, Place, HasSeen, HasGot, Updating
    <3> QED
      BY <2>3, <3>1 DEF See, r
  <2> QED
    BY <1>10, <2>2, <2>3 DEF Again
<1>11. CASE Refill(p)
  <2>1. r.pc = "refill" /\ See(p, Nil, AfterUpdate(p))
    BY <1>11 DEF Refill, At, r
  <2>2. AfterUpdate(p) # "idle" => Proper(p, [r EXCEPT !.seen = Nil, !.pc = AfterUpdate(p)])
    BY <1>1, <2>1, Kinds
    DEF Proper, Record, PC, Place, HasSeen, HasGot, Updating, Finish, AfterUpdate
  <2> QED
    BY <1>2, <2>1, <2>2 DEF See, r
<1>12. CASE PollLock(p)
  <2>1. r.pc = "idle" /\ p \in Poller /\ MoveTo(p, "list")
    BY <1>12 DEF PollLock, At, r
  <2>2. Proper(p, [r EXCEPT !.pc = "list"])
    BY <1>1, <2>1, Kinds DEF Proper, Record, PC, Place, HasSeen, HasGot, Updating
  <2> QED
    BY <1>3, <2>1, <2>2
<1>13. CASE PollList(p)
  <2>1. r.pc = "list" /\ p \in Poller /\ (See(p, row, "read") \/ Forget(p, "unlock"))
    BY <1>13 DEF PollList, At, r
  <2>2. Proper(p, [r EXCEPT !.seen = row, !.pc = "read"])
    BY <1>1, <2>1, Kinds DEF Proper, Record, PC, Place, HasSeen, HasGot, Updating
  <2>3. Proper(p, [r EXCEPT !.seen = Nil, !.got = Nil, !.pc = "unlock"])
    BY <1>1, <2>1, Kinds DEF Proper, Record, PC, Place, HasSeen, HasGot, Updating
  <2> QED
    BY <2>1, <2>2, <2>3 DEF See, Forget, r
<1>14. CASE \/ PollUnlock(p) \/ RefreshGivesUp(p) \/ RefreshUnlock(p) \/ LedgerRefuse(p)
            \/ LedgerCommit(p) \/ SwapRefuse(p) \/ SwapCommit(p) \/ Dies(p)
  BY <1>3, <1>14
  DEF PollUnlock, RefreshGivesUp, RefreshUnlock, LedgerRefuse, LedgerCommit, SwapRefuse,
      SwapCommit, Dies
<1>15. CASE RefreshLock(p)
  <2>1. r.pc = "lock" /\ p \in Refresh /\ MoveTo(p, "read")
    BY <1>15 DEF RefreshLock, At, r
  <2>2. Proper(p, [r EXCEPT !.pc = "read"])
    BY <1>1, <2>1, Kinds DEF Proper, Record, PC, Place, HasSeen, HasGot, Updating
  <2> QED
    BY <1>3, <2>1, <2>2
<1>16. CASE LedgerTake(p)
  <2>1. r.pc = "take" /\ p \in Ledger /\ MoveTo(p, "dropUser")
    BY <1>16 DEF LedgerTake, At, r
  <2>2. Proper(p, [r EXCEPT !.pc = "dropUser"])
    BY <1>1, <2>1, Kinds DEF Proper, Record, PC, Place, HasSeen, HasGot, Updating
  <2> QED
    BY <1>3, <2>1, <2>2
<1>17. CASE RefreshStart(p)
  <2>1. r.pc = "idle" /\ p \in Refresh /\ MoveTo(p, "look")
    BY <1>17 DEF RefreshStart, At, r
  <2>2. Proper(p, [r EXCEPT !.pc = "look"])
    BY <1>1, <2>1, Kinds DEF Proper, Record, PC, Place, HasSeen, HasGot, Updating
  <2> QED
    BY <1>3, <2>1, <2>2
<1>18. CASE ReconStart(p)
  <2>1. r.pc = "idle" /\ p \in Recon /\ MoveTo(p, "read")
    BY <1>18 DEF ReconStart, At, r
  <2>2. Proper(p, [r EXCEPT !.pc = "read"])
    BY <1>1, <2>1, Kinds DEF Proper, Record, PC, Place, HasSeen, HasGot, Updating
  <2> QED
    BY <1>3, <2>1, <2>2
<1>19. CASE LedgerStart(p)
  <2>1. p \in Ledger
    BY <1>19 DEF LedgerStart
  <2>2. PICK d \in Int : ps' = [ps EXCEPT ![p] = [r EXCEPT !.pc = "look", !.got = d]]
    <3>1. \E d \in {-1, 1} : ps' = [ps EXCEPT ![p] = [r EXCEPT !.pc = "look", !.got = d]]
      BY <1>19, Zenon DEF LedgerStart, r
    <3>2. -1 \in Int /\ 1 \in Int
      OBVIOUS
    <3> QED
      BY <3>1, <3>2, Zenon
  <2>3. Proper(p, [r EXCEPT !.pc = "look", !.got = d])
    BY <1>1, <2>1, Kinds DEF Proper, Record, PC, Place, HasSeen, HasGot, Updating
  <2> QED
    BY <2>2, <2>3
<1>20. CASE SwapStart(p)
  <2>1. p \in Ledger
    BY <1>20 DEF SwapStart
  <2>2. PICK d \in Int : ps' = [ps EXCEPT ![p] = [r EXCEPT !.pc = "hold", !.got = d]]
    <3>1. \E d \in {-1, 1} : ps' = [ps EXCEPT ![p] = [r EXCEPT !.pc = "hold", !.got = d]]
      BY <1>20, Zenon DEF SwapStart, r
    <3>2. -1 \in Int /\ 1 \in Int
      OBVIOUS
    <3> QED
      BY <3>1, <3>2, Zenon
  <2>3. Proper(p, [r EXCEPT !.pc = "hold", !.got = d])
    BY <1>1, <2>1, Kinds DEF Proper, Record, PC, Place, HasSeen, HasGot, Updating
  <2> QED
    BY <2>2, <2>3
<1>21. CASE SwapHold(p)
  <2>1. r.pc = "hold" /\ p \in Ledger /\ See(p, row, "swap")
    BY <1>21 DEF SwapHold, At, r
  <2>2. Proper(p, [r EXCEPT !.seen = row, !.pc = "swap"])
    BY <1>1, <2>1, Kinds DEF Proper, Record, PC, Place, HasSeen, HasGot, Updating
  <2> QED
    BY <2>1, <2>2 DEF See, r
<1> QED
  BY <1>4, <1>5, <1>6, <1>7, <1>8, <1>9, <1>10, <1>11, <1>12, <1>13, <1>14, <1>15, <1>16, <1>17,
     <1>18, <1>19, <1>20, <1>21 DEF Step, Start

\* Every process starts idle.
LEMMA InitTyping == SyncInit => BalanceTyping
<1> SUFFICES ASSUME SyncInit PROVE BalanceTyping
  OBVIOUS
<1>1. \A p \in Proc : Proper(p, Idle)
  BY Kinds DEF Proper, Idle, Record, PC, Place, HasSeen, HasGot, Updating
<1>2. chain \in Int /\ row \in Int
  BY DEF SyncInit
<1>3. ps \in [Proc -> Record] /\ \A p \in Proc : Proper(p, ps[p])
  BY <1>1 DEF SyncInit, Proper
<1> QED
  BY <1>2, <1>3 DEF SyncInit, BalanceTyping, SyncTypeOK, Known, Record

\* What a step of a process does to everything else.
LEMMA DataTyping ==
  ASSUME BalanceTyping, NEW p \in Proc, Step(p) \/ Start(p) \/ Dies(p)
  PROVE  /\ chain' = chain /\ newest' = newest /\ row' \in Int /\ rowLock' \in Ledger \cup {Nil}
         /\ copy' \in [Key -> Int \cup {Nil}]
         /\ pollLock' \in BOOLEAN /\ userLock' \in Refresh \cup {Nil}
         /\ overran' \in BOOLEAN /\ tainted' \in [Key -> BOOLEAN] /\ chances' \in Nat
<1> DEFINE Typed == /\ chain' = chain /\ newest' = newest /\ row' \in Int /\ rowLock' \in Ledger \cup {Nil}
                    /\ copy' \in [Key -> Int \cup {Nil}]
                    /\ pollLock' \in BOOLEAN /\ userLock' \in Refresh \cup {Nil}
                    /\ overran' \in BOOLEAN /\ tainted' \in [Key -> BOOLEAN] /\ chances' \in Nat
<1>1. Proper(p, ps[p]) /\ ps[p] \in Record
  BY DEF BalanceTyping, Known, Proper
<1>2. UseChance => chances' \in Nat
  BY DEF BalanceTyping, SyncTypeOK, UseChance
<1>3. CASE \/ Hit(p) \/ Select(p) \/ FillFails(p) \/ ReadChain(p) \/ Leave(p) \/ Again(p)
           \/ PollLock(p) \/ PollList(p) \/ PollUnlock(p) \/ RefreshGivesUp(p) \/ LedgerRefuse(p)
           \/ SwapRefuse(p) \/ Start(p)
  BY <1>2, <1>3
  DEF Hit, Select, FillFails, ReadChain, Leave, Again, PollLock, PollList, PollUnlock,
      RefreshGivesUp, LedgerRefuse, SwapRefuse, Start, RefreshStart, ReconStart, LedgerStart,
      SwapStart, BalanceTyping, SyncTypeOK
<1>4. CASE Fill(p) \/ Refill(p)
  <2>1. ps[p].seen \in Int
    BY <1>1, <1>4 DEF Fill, Refill, At, Proper, HasSeen
  <2>2. /\ copy' \in [Key -> Int \cup {Nil}] /\ tainted' \in [Key -> BOOLEAN]
    BY <1>4, <2>1 DEF Fill, Refill, BalanceTyping, SyncTypeOK
  <2> QED
    BY <1>4, <2>2 DEF Fill, Refill, BalanceTyping, SyncTypeOK
<1>5. CASE Write(p)
  <2>1. ps[p].got \in Int
    BY <1>1, <1>5 DEF Write, At, Proper, HasGot
  <2> QED
    BY <1>5, <2>1 DEF Write, BalanceTyping, SyncTypeOK
<1>6. CASE DropUser(p)
  <2>1. /\ copy' \in [Key -> Int \cup {Nil}] /\ tainted' \in [Key -> BOOLEAN]
    BY <1>6 DEF DropUser, BalanceTyping, SyncTypeOK
  <2> QED
    BY <1>2, <1>6, <2>1 DEF DropUser, BalanceTyping, SyncTypeOK
<1>7. CASE DropId(p) \/ DropToken(p)
  BY <1>7 DEF DropId, DropToken, Drop, BalanceTyping, SyncTypeOK
<1>8. CASE DropFails(p) \/ Dies(p)
  <2>1. tainted' \in [Key -> BOOLEAN]
    BY <1>8 DEF DropFails, Dies, BalanceTyping, SyncTypeOK
  <2> QED
    BY <1>2, <1>8, <2>1 DEF DropFails, Dies, BalanceTyping, SyncTypeOK
<1>9. CASE RefreshLock(p) \/ RefreshUnlock(p)
  BY <1>9 DEF RefreshLock, RefreshUnlock, Released, BalanceTyping, SyncTypeOK
<1>10. CASE LedgerTake(p) \/ SwapHold(p)
  BY <1>10 DEF LedgerTake, SwapHold, BalanceTyping, SyncTypeOK
<1>11. CASE LedgerCommit(p) \/ SwapCommit(p)
  <2>1. ps[p].got \in Int /\ (SwapCommit(p) => ps[p].seen \in Int)
    BY <1>1, <1>11 DEF LedgerCommit, SwapCommit, At, Proper, HasGot, HasSeen
  <2>2. row' \in Int
    BY <1>11, <2>1 DEF LedgerCommit, SwapCommit, BalanceTyping, SyncTypeOK
  <2>3. tainted' \in [Key -> BOOLEAN]
    BY <1>11 DEF LedgerCommit, SwapCommit, BalanceTyping, SyncTypeOK
  <2> QED
    BY <1>11, <2>2, <2>3 DEF LedgerCommit, SwapCommit, BalanceTyping, SyncTypeOK
<1> QED
  BY <1>3, <1>4, <1>5, <1>6, <1>7, <1>8, <1>9, <1>10, <1>11 DEF Step

\* The holder whose lock runs out is marked.
LEMMA ExpiryRecord ==
  ASSUME BalanceTyping, UserLockExpires
  PROVE  \E p \in Refresh : \E x :
           /\ p = userLock /\ Proper(p, x) /\ ps' = [ps EXCEPT ![p] = x]
           /\ x.pc = ps[p].pc
           /\ Refreshing(p) => x.lapsed
<1>1. PICK p \in Refresh : p = userLock
  BY DEF UserLockExpires, BalanceTyping, SyncTypeOK
<1>2. p \in Proc
  BY DEF Proc, Watcher
<1> DEFINE r == ps[p]
           x == IF Refreshing(p) THEN [r EXCEPT !.lapsed = TRUE] ELSE r
<1>3. Proper(p, r) /\ r \in Record
  BY <1>2 DEF BalanceTyping, Known, Proper
<1>4. x \in Record /\ x.pc = r.pc /\ x.seen = r.seen /\ x.got = r.got /\ (Refreshing(p) => x.lapsed)
  BY <1>3 DEF Record
<1>5. ps' = [ps EXCEPT ![p] = x]
  BY <1>1 DEF UserLockExpires
<1> HIDE DEF x
<1>6. Proper(p, x)
  BY <1>3, <1>4 DEF Proper, HasSeen, HasGot
<1> QED
  BY <1>1, <1>4, <1>5, <1>6

\* The types and the places of the code are inductive.
LEMMA TypingStep ==
  ASSUME BalanceTyping, [SyncNext]_syncVars
  PROVE  BalanceTyping'
<1>1. ASSUME NEW p \in Proc, Step(p) \/ Start(p) \/ Dies(p) PROVE BalanceTyping'
  <2>1. /\ ps' \in [Proc -> [pc : PC, seen : Int \cup {Nil}, got : Int \cup {Nil}, lapsed : BOOLEAN]]
        /\ Known'
    BY <1>1, NextRecord, Put
  <2>2. chain' \in 0..MaxAmount
    BY <1>1, DataTyping DEF BalanceTyping, SyncTypeOK
  <2> QED
    BY <1>1, <2>1, <2>2, DataTyping DEF BalanceTyping, SyncTypeOK
<1>2. CASE PollLockExpires
  <2>1. overran' \in BOOLEAN
    BY <1>2 DEF PollLockExpires, BalanceTyping, SyncTypeOK
  <2> QED
    BY <1>2, <2>1 DEF PollLockExpires, BalanceTyping, SyncTypeOK, Known
<1>3. CASE UserLockExpires
  <2>1. PICK p \in Refresh : \E x : Proper(p, x) /\ ps' = [ps EXCEPT ![p] = x]
    BY <1>3, ExpiryRecord
  <2>2. p \in Proc
    BY DEF Proc, Watcher
  <2>3. /\ ps' \in [Proc -> [pc : PC, seen : Int \cup {Nil}, got : Int \cup {Nil}, lapsed : BOOLEAN]]
        /\ Known'
    BY <2>1, <2>2, Put
  <2> QED
    BY <1>3, <2>3 DEF UserLockExpires, BalanceTyping, SyncTypeOK
<1>4. CASE ChainMoves
  BY <1>4 DEF ChainMoves, UseChance, BalanceTyping, SyncTypeOK, Known
<1>5. CASE ListMoves
  BY <1>5 DEF ListMoves, UseChance, BalanceTyping, SyncTypeOK, Known
<1>6. CASE UNCHANGED syncVars
  BY <1>6 DEF syncVars, BalanceTyping, SyncTypeOK, Known
<1> QED
  BY <1>1, <1>2, <1>3, <1>4, <1>5, <1>6 DEF SyncNext

-----------------------------------------------------------------------------
(* The locks *)

\* Until the poller's lock runs out during a cycle, whoever is in a cycle holds
\* it and is alone.
PollLockHeld ==
  overran \/ \A p \in Poller : Polling(p) => pollLock /\ \A q \in Poller : Polling(q) => q = p

\* What the locks depend on in a step of a process that neither takes nor
\* releases one: nobody enters a section.
LEMMA StaysOutside ==
  ASSUME BalanceTyping, NEW p \in Proc, Step(p) \/ Start(p) \/ Dies(p)
  PROVE  /\ PollLock(p) \/ PollUnlock(p) \/ (UNCHANGED <<pollLock, overran>>
                                             /\ (p \in Poller => Polling(p)))
         /\ RefreshLock(p) \/ RefreshUnlock(p)
              \/ (UNCHANGED userLock
                  /\ (p \in Refresh /\ Refreshing(p)' =>
                        Refreshing(p) /\ ps'[p].lapsed = ps[p].lapsed))
<1>1. Proper(p, ps[p]) /\ ps[p] \in Record /\ ps \in [Proc -> Record]
  BY DEF BalanceTyping, SyncTypeOK, Known, Proper, Record
<1>2. PollLock(p) \/ PollUnlock(p) \/ (UNCHANGED <<pollLock, overran>>
                                       /\ (p \in Poller => Polling(p)))
  BY Kinds
  DEF Step, Start, Hit, Select, Fill, FillFails, ReadChain, Leave, Write, DropUser, DropId,
      DropToken, Drop, DropFails, Again, Refill, PollList, RefreshLock, RefreshGivesUp,
      RefreshUnlock, LedgerRefuse, LedgerTake, LedgerCommit, SwapRefuse, SwapHold, SwapCommit,
      RefreshStart, ReconStart, LedgerStart, SwapStart, Dies, At, Polling
<1>3. RefreshLock(p) \/ RefreshUnlock(p) \/ UNCHANGED userLock
  BY DEF Step, Start, Hit, Select, Fill, FillFails, ReadChain, Leave, Write, DropUser, DropId,
      DropToken, Drop, DropFails, Again, Refill, PollLock, PollList, PollUnlock,
      RefreshGivesUp, LedgerRefuse, LedgerTake, LedgerCommit, SwapRefuse, SwapHold, SwapCommit,
      RefreshStart, ReconStart, LedgerStart, SwapStart, Dies
<1>4. ASSUME p \in Refresh, ~RefreshLock(p), ~RefreshUnlock(p), Refreshing(p)'
      PROVE  Refreshing(p) /\ ps'[p].lapsed = ps[p].lapsed
  <2> DEFINE r == ps[p]
             Inside(place) == place \in {"read", "compare", "unlock"} \cup Updating
             Stays == Inside(r.pc) /\ ps'[p].lapsed = r.lapsed
  <2> SUFFICES Stays
    BY DEF Refreshing
  <2>1. Inside(ps'[p].pc) /\ p \notin Poller /\ p \notin Recon /\ p \notin Ledger
    BY <1>4, Kinds DEF Refreshing
  <2>2. ~Inside("idle") /\ Idle.pc = "idle"
    BY DEF Idle, Updating
  <2>3. ASSUME NEW place, MoveTo(p, place) PROVE (Inside(r.pc) => Stays) /\ ps'[p].pc = place
    BY <1>1, <2>1, <2>2, <2>3 DEF MoveTo, Record
  <2>4. ASSUME NEW v, NEW place, See(p, v, place) PROVE (Inside(r.pc) => Stays) /\ ps'[p].pc = place
    BY <1>1, <2>1, <2>2, <2>4 DEF See, Record
  <2>5. ASSUME NEW place, Forget(p, place) \/ \E v : Get(p, v, place) PROVE Inside(r.pc) => Stays
    <3>1. ASSUME Forget(p, place) PROVE ps'[p].lapsed = r.lapsed
      <4>1. ps'[p] = [r EXCEPT !.seen = Nil, !.got = Nil, !.pc = place]
        BY <1>1, <3>1 DEF Forget
      <4> QED
        BY <1>1, <4>1 DEF Record
    <3>2. ASSUME NEW v, Get(p, v, place) PROVE ps'[p].lapsed = r.lapsed
      <4>1. ps'[p] = [r EXCEPT !.got = v, !.pc = place]
        BY <1>1, <3>2 DEF Get
      <4> QED
        BY <1>1, <4>1 DEF Record
    <3> QED
      BY <2>5, <3>1, <3>2
  <2> HIDE DEF Stays
  <2>6. CASE Hit(p) \/ Select(p) \/ Fill(p) \/ FillFails(p)
    <3>1. ps'[p].pc \in {AfterLook(p), "fill"}
      BY <2>3, <2>4, <2>6 DEF Hit, Select, Fill, FillFails
    <3> QED
      BY <1>4, <2>1, <3>1 DEF AfterLook, Updating
  <2>7. CASE ReadChain(p) \/ Leave(p) \/ Write(p)
    BY <2>1, <2>5, <2>7 DEF ReadChain, Leave, Write, At
  <2>8. CASE DropUser(p) \/ DropId(p) \/ DropToken(p) \/ DropFails(p)
    BY <2>1, <2>3, <2>8 DEF DropUser, DropId, DropToken, Drop, DropFails, At, Updating
  <2>9. CASE Again(p) \/ Refill(p)
    BY <2>1, <2>3, <2>4, <2>9 DEF Again, Refill, At, Updating
  <2>10. CASE RefreshGivesUp(p) \/ RefreshStart(p) \/ Dies(p)
    <3>1. ps'[p].pc \in {"idle", "look"}
      BY <2>3, <2>10 DEF RefreshGivesUp, RefreshStart, Dies
    <3> QED
      BY <2>1, <3>1 DEF Updating
  <2> QED
    BY <1>4, <2>1, <2>6, <2>7, <2>8, <2>9, <2>10
    DEF Step, Start, PollLock, PollList, PollUnlock, LedgerRefuse, LedgerTake, LedgerCommit,
        SwapRefuse, SwapHold, SwapCommit, ReconStart, LedgerStart, SwapStart
<1> QED
  BY <1>2, <1>3, <1>4

\* The poller's lock stays with the one instance that polls, until it expires.
LEMMA PollStep ==
  ASSUME BalanceTyping, PollLockHeld, [SyncNext]_syncVars
  PROVE  PollLockHeld'
<1>1. ASSUME NEW p \in Proc, Step(p) \/ Start(p) \/ Dies(p) PROVE PollLockHeld'
  <2>1. PICK x : Proper(p, x) /\ ps' = [ps EXCEPT ![p] = x]
    BY <1>1, NextRecord
  <2>2. \A q \in Poller : q # p => (Polling(q)' <=> Polling(q))
    BY <2>1 DEF Polling, BalanceTyping, SyncTypeOK, Proc, Watcher
  <2>3. CASE PollLock(p)
    <3>1. p \in Poller /\ ~pollLock /\ pollLock' /\ overran' = overran
      BY <2>3 DEF PollLock
    <3> QED
      BY <2>2, <3>1 DEF PollLockHeld
  <2>4. CASE PollUnlock(p)
    <3>1. p \in Poller /\ Polling(p) /\ overran' = overran
      BY <2>4 DEF PollUnlock, At, Polling
    <3>2. ~Polling(p)'
      <4>1. ps' = [ps EXCEPT ![p] = Idle]
        BY <2>4 DEF PollUnlock, MoveTo
      <4> QED
        BY <4>1 DEF BalanceTyping, SyncTypeOK, Polling, Idle
    <3> QED
      BY <2>2, <3>1, <3>2 DEF PollLockHeld
  <2>5. CASE UNCHANGED <<pollLock, overran>> /\ (p \in Poller => Polling(p))
    BY <2>2, <2>5 DEF PollLockHeld
  <2> QED
    BY <1>1, <2>3, <2>4, <2>5, StaysOutside
<1>2. CASE PollLockExpires
  BY <1>2 DEF PollLockExpires, PollLockHeld, Polling
<1>3. CASE UserLockExpires
  <2>p. PICK p \in Refresh : \E x : ps' = [ps EXCEPT ![p] = x] /\ x.pc = ps[p].pc
    BY <1>3, ExpiryRecord
  <2>1. PICK x : ps' = [ps EXCEPT ![p] = x] /\ x.pc = ps[p].pc
    BY <2>p
  <2>2. \A q \in Poller : Polling(q)' <=> Polling(q)
    BY <2>1 DEF Polling, BalanceTyping, SyncTypeOK, Proc, Watcher
  <2> QED
    BY <1>3, <2>2 DEF UserLockExpires, PollLockHeld
<1>4. CASE ChainMoves \/ ListMoves \/ UNCHANGED syncVars
  BY <1>4 DEF ChainMoves, ListMoves, syncVars, PollLockHeld, Polling
<1> QED
  BY <1>1, <1>2, <1>3, <1>4 DEF SyncNext

\* The user's lock stays with the refresh that took it, until it expires.
LEMMA KeptStep ==
  ASSUME BalanceTyping, LockIsKept, [SyncNext]_syncVars
  PROVE  LockIsKept'
<1>1. ASSUME NEW p \in Proc, Step(p) \/ Start(p) \/ Dies(p) PROVE LockIsKept'
  <2>1. PICK x : Proper(p, x) /\ ps' = [ps EXCEPT ![p] = x]
    BY <1>1, NextRecord
  <2>2. \A q \in Refresh : q # p => (Refreshing(q)' <=> Refreshing(q)) /\ ps'[q] = ps[q]
    BY <2>1 DEF Refreshing, BalanceTyping, SyncTypeOK, Proc, Watcher
  <2>3. CASE RefreshLock(p)
    <3>1. userLock = Nil /\ userLock' = p /\ \A q \in Refresh : q # Nil
      BY <2>3, NilAssumption DEF RefreshLock, Proc, Watcher
    <3> QED
      BY <2>2, <3>1 DEF LockIsKept
  <2>4. CASE RefreshUnlock(p)
    <3>1. ~Refreshing(p)'
      <4>1. ps' = [ps EXCEPT ![p] = Idle]
        BY <2>4 DEF RefreshUnlock, MoveTo
      <4> QED
        BY <4>1 DEF BalanceTyping, SyncTypeOK, Refreshing, Idle, Updating
    <3>2. \A q \in Refresh : q # p /\ userLock = q => userLock' = q
      BY <2>4 DEF RefreshUnlock, Released
    <3> QED
      BY <2>2, <3>1, <3>2 DEF LockIsKept
  <2>5. CASE UNCHANGED userLock /\ (p \in Refresh /\ Refreshing(p)' =>
                                      Refreshing(p) /\ ps'[p].lapsed = ps[p].lapsed)
    BY <2>2, <2>5 DEF LockIsKept
  <2> QED
    BY <1>1, <2>3, <2>4, <2>5, StaysOutside
<1>2. CASE PollLockExpires \/ ChainMoves \/ ListMoves \/ UNCHANGED syncVars
  BY <1>2 DEF PollLockExpires, ChainMoves, ListMoves, syncVars, LockIsKept, Refreshing
<1>3. CASE UserLockExpires
  <2>p. PICK p \in Refresh : \E x :
          /\ p = userLock /\ ps' = [ps EXCEPT ![p] = x] /\ x.pc = ps[p].pc
          /\ Refreshing(p) => x.lapsed
    BY <1>3, ExpiryRecord
  <2>1. PICK x : /\ p = userLock /\ ps' = [ps EXCEPT ![p] = x] /\ x.pc = ps[p].pc
                 /\ Refreshing(p) => x.lapsed
    BY <2>p
  <2>2. \A q \in Refresh : q # p => ps'[q] = ps[q]
    BY <2>1 DEF BalanceTyping, SyncTypeOK, Proc, Watcher
  <2>3. ps'[p] = x
    BY <2>1 DEF BalanceTyping, SyncTypeOK, Proc, Watcher
  <2> QED
    BY <2>1, <2>2, <2>3 DEF LockIsKept, Refreshing
<1> QED
  BY <1>1, <1>2, <1>3 DEF SyncNext

-----------------------------------------------------------------------------
(* The copies *)

\* An update that has written the row and not yet cleared the copy k.
Uncleared(k) == CASE k = "user" -> {"dropUser"}
                  [] k = "id"   -> {"dropUser", "dropId"}
                  [] OTHER      -> {"dropUser", "dropId", "dropToken"}

\* A copy is the row, or is explained, or will still be cleared.
Explained ==
  \A k \in Key : \/ copy[k] \in {Nil, row} \/ tainted[k]
                 \/ \E p \in Watcher : ps[p].pc \in Uncleared(k)

\* A step of p that does not write the row: what it must do for each key.
Accounts(p, x, k) ==
  \/ copy'[k] \in {Nil, row} \/ tainted'[k]
  \/ /\ copy'[k] = copy[k] /\ (tainted[k] => tainted'[k])
     /\ p \in Watcher /\ ps[p].pc \in Uncleared(k) => x.pc \in Uncleared(k)

\* A step that leaves the row and accounts for every key keeps every copy explained.
LEMMA AccountedFor ==
  ASSUME BalanceTyping, Explained, NEW p \in Proc, NEW x, ps' = [ps EXCEPT ![p] = x],
         row' = row, \A k \in Key : Accounts(p, x, k)
  PROVE  Explained'
<1>1. \A q \in Watcher : ps'[q] = IF q = p THEN x ELSE ps[q]
  BY DEF BalanceTyping, SyncTypeOK, Proc
<1> QED
  BY <1>1 DEF Explained, Accounts

\* A copy that differs from the row was noted, or its writer is still clearing it.
LEMMA ExplainedStep ==
  ASSUME BalanceTyping, Explained, [SyncNext]_syncVars
  PROVE  Explained'
<1>1. ASSUME NEW p \in Proc, Step(p) \/ Start(p) \/ Dies(p) PROVE Explained'
  <2> DEFINE r == ps[p]
  <2>1. PICK x : Proper(p, x) /\ ps' = [ps EXCEPT ![p] = x]
    BY <1>1, NextRecord
  <2>2. x = ps'[p] /\ r \in Record /\ ps \in [Proc -> Record]
    BY <2>1 DEF BalanceTyping, SyncTypeOK, Record
  <2>3. ASSUME NEW place, MoveTo(p, place) PROVE x.pc = place
    BY <2>2, <2>3 DEF MoveTo, Record, Idle
  <2> HIDE DEF r
  <2>4. CASE UNCHANGED <<row, copy, tainted>> /\ r.pc \notin {"dropUser", "dropId", "dropToken"}
    <3>1. \A k \in Key : Accounts(p, x, k)
      BY <2>4 DEF Accounts, Uncleared, r
    <3> QED
      BY <2>1, <2>4, <3>1, AccountedFor
  <2>5. CASE Fill(p)
    <3>1. r.pc = "fill" /\ row' = row
      BY <2>5 DEF Fill, At, r
    <3>2. \A k \in Key : Accounts(p, x, k)
      BY <2>5, <3>1 DEF Fill, Accounts, Uncleared, BalanceTyping, SyncTypeOK, r
    <3> QED
      BY <2>1, <3>1, <3>2, AccountedFor
  <2>6. CASE Refill(p)
    <3>1. r.pc = "refill" /\ row' = row
      BY <2>6 DEF Refill, At, r
    <3>2. \A k \in Key : Accounts(p, x, k)
      BY <2>6, <3>1 DEF Refill, Accounts, Uncleared, BalanceTyping, SyncTypeOK, r
    <3> QED
      BY <2>1, <3>1, <3>2, AccountedFor
  <2>7. CASE DropUser(p)
    <3>1. row' = row /\ x.pc = "dropId"
      BY <2>3, <2>7 DEF DropUser
    <3>2. \A k \in Key : Accounts(p, x, k)
      BY <2>7, <3>1 DEF DropUser, Accounts, Uncleared, BalanceTyping, SyncTypeOK, Key
    <3> QED
      BY <2>1, <3>1, <3>2, AccountedFor
  <2>8. CASE DropId(p)
    <3>1. row' = row /\ x.pc = AfterDropId(p) /\ r.pc = "dropId"
      BY <2>3, <2>8 DEF DropId, Drop, At, r
    <3>2. p \in Watcher => x.pc = "dropToken"
      BY <3>1, Kinds DEF AfterDropId
    <3>3. /\ copy' = [copy EXCEPT !["id"] = Nil] /\ tainted' = [tainted EXCEPT !["id"] = FALSE]
      BY <2>8 DEF DropId, Drop
    <3>4. \A k \in Key : Accounts(p, x, k)
      BY <3>1, <3>2, <3>3 DEF Accounts, Uncleared, BalanceTyping, SyncTypeOK, Key, r
    <3> QED
      BY <2>1, <3>1, <3>4, AccountedFor
  <2>9. CASE DropToken(p)
    <3>1. row' = row /\ r.pc = "dropToken"
      BY <2>9 DEF DropToken, Drop, At, r
    <3>2. /\ copy' = [copy EXCEPT !["token"] = Nil]
          /\ tainted' = [tainted EXCEPT !["token"] = FALSE]
      BY <2>9 DEF DropToken, Drop
    <3>3. \A k \in Key : Accounts(p, x, k)
      BY <3>1, <3>2 DEF Accounts, Uncleared, BalanceTyping, SyncTypeOK, Key, r
    <3> QED
      BY <2>1, <3>1, <3>3, AccountedFor
  <2>10. CASE DropFails(p)
    <3>1. row' = row /\ copy' = copy /\ tainted' = [k \in Key |-> tainted[k] \/ copy[k] # Nil]
      BY <2>10 DEF DropFails
    <3>2. \A k \in Key : Accounts(p, x, k)
      BY <3>1 DEF Accounts
    <3> QED
      BY <2>1, <3>1, <3>2, AccountedFor
  <2>11. CASE Dies(p)
    <3>1. /\ row' = row /\ copy' = copy
          /\ \A k \in Key :
               /\ tainted[k] => tainted'[k]
               /\ p \in Watcher /\ copy[k] # Nil /\ r.pc \in Updating => tainted'[k]
      BY <2>11 DEF Dies, r
    <3>2. \A k \in Key : Accounts(p, x, k)
      BY <3>1 DEF Accounts, Uncleared, Updating, r
    <3> QED
      BY <2>1, <3>1, <3>2, AccountedFor
  <2>12. CASE Write(p)
    <3>1. p \in Watcher /\ x.pc = "dropUser"
      BY <2>2, <2>12 DEF Write, Forget, Record
    <3>2. \A k \in Key : ps'[p].pc \in Uncleared(k)
      BY <2>2, <3>1 DEF Uncleared
    <3> QED
      BY <3>1, <3>2 DEF Explained
  <2>13. CASE LedgerCommit(p) \/ SwapCommit(p)
    <3>1. copy' = copy /\ tainted' = [k \in Key |-> tainted[k] \/ copy[k] # Nil]
      BY <2>13 DEF LedgerCommit, SwapCommit
    <3> QED
      BY <3>1 DEF Explained
  <2>14. CASE \/ Hit(p) \/ Select(p) \/ FillFails(p) \/ ReadChain(p) \/ Leave(p) \/ Again(p)
              \/ PollLock(p) \/ PollList(p) \/ PollUnlock(p) \/ RefreshLock(p)
              \/ RefreshGivesUp(p) \/ RefreshUnlock(p) \/ LedgerRefuse(p) \/ LedgerTake(p)
              \/ SwapRefuse(p) \/ SwapHold(p) \/ Start(p)
    BY <2>4, <2>14
    DEF Hit, Select, FillFails, ReadChain, Leave, Again, PollLock, PollList, PollUnlock,
        RefreshLock, RefreshGivesUp, RefreshUnlock, LedgerRefuse, LedgerTake, SwapRefuse,
        SwapHold, Start, RefreshStart, ReconStart, LedgerStart, SwapStart, At, r
  <2> QED
    BY <1>1, <2>5, <2>6, <2>7, <2>8, <2>9, <2>10, <2>11, <2>12, <2>13, <2>14 DEF Step
<1>2. CASE PollLockExpires \/ ChainMoves \/ ListMoves \/ UNCHANGED syncVars
  BY <1>2 DEF PollLockExpires, ChainMoves, ListMoves, syncVars, Explained
<1>3. CASE UserLockExpires
  <2>p. PICK p \in Refresh : \E x : ps' = [ps EXCEPT ![p] = x] /\ x.pc = ps[p].pc
    BY <1>3, ExpiryRecord
  <2>1. PICK x : ps' = [ps EXCEPT ![p] = x] /\ x.pc = ps[p].pc
    BY <2>p
  <2>2. p \in Proc /\ UNCHANGED <<row, copy, tainted>>
    BY <1>3 DEF Proc, Watcher, UserLockExpires
  <2>3. \A k \in Key : Accounts(p, x, k)
    BY <2>1, <2>2 DEF Accounts
  <2> QED
    BY <2>1, <2>2, <2>3, AccountedFor
<1> QED
  BY <1>1, <1>2, <1>3 DEF SyncNext

-----------------------------------------------------------------------------
\* Inductive: where a process is tells what it has read, which lock it relies on
\* and which copies it still has to clear.
BalanceInv == BalanceTyping /\ PollLockHeld /\ LockIsKept /\ Explained

\* The types, both locks and the account of every stale copy hold in every state.
THEOREM BalanceInvariance == SyncSpec => []BalanceInv
<1>1. SyncInit => BalanceInv
  <2>1. SyncInit => PollLockHeld /\ LockIsKept /\ Explained
    <3> SUFFICES ASSUME SyncInit PROVE PollLockHeld /\ LockIsKept /\ Explained
      OBVIOUS
    <3>1. \A p \in Proc : ps[p].pc = "idle"
      BY DEF SyncInit, Idle
    <3>2. PollLockHeld
      BY <3>1 DEF PollLockHeld, Polling, Proc, Watcher
    <3>3. LockIsKept
      BY <3>1 DEF LockIsKept, Refreshing, Updating, Proc, Watcher
    <3>4. Explained
      BY DEF SyncInit, Explained
    <3> QED
      BY <3>2, <3>3, <3>4
  <2> QED
    BY <2>1, InitTyping DEF BalanceInv
<1>2. BalanceInv /\ [SyncNext]_syncVars => BalanceInv'
  BY TypingStep, PollStep, KeptStep, ExplainedStep DEF BalanceInv
<1> QED
  BY <1>1, <1>2, PTL DEF SyncSpec

\* Two poller instances poll together only after the poller's lock expired, and a
\* refresh that has not outlived its lock still holds it, for any number of
\* processes (listeners/balance.js, updateUserBalance).
THEOREM LockTheorem == SyncSpec => []LockInv
<1>1. BalanceInv => LockInv
  BY DEF BalanceInv, BalanceTyping, LockInv, PollersExclude, PollLockHeld
<1> QED
  BY <1>1, BalanceInvariance, PTL

\* Whenever nobody is between the UPDATE of Balance.update and its return, every
\* copy in Redis that differs from the row has one of the recorded causes (a late
\* reader, a debit, credit or swap, a lost DEL), for any number of processes,
\* faults and crashes (models/Balance.js, SwapService.applyLedgerSwap).
THEOREM FreshTheorem == SyncSpec => []FreshOrExplained
<1>1. BalanceInv => FreshOrExplained
  BY DEF BalanceInv, Explained, FreshOrExplained, Uncleared, Updating
<1> QED
  BY <1>1, BalanceInvariance, PTL
=============================================================================
