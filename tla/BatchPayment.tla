----------------------------- MODULE BatchPayment -----------------------------
(***************************************************************************)
(* Batch payments behind the idempotency gate (BatchPaymentService): one   *)
(* batch requested several times under one key.  Every request that        *)
(* reaches the handler makes a batch row; a small batch is processed in    *)
(* the request, a large one by a queue job that is attempted again when it *)
(* fails.  An atomic batch is one Stellar transaction; the others pay item *)
(* by item, concurrently, through processPayment.                          *)
(***************************************************************************)
EXTENDS IdempotencyGate, FiniteSetsExt

CONSTANTS
  Item,      \* the payments of the batch
  Content,   \* recipient and amount of each: what processPayment derives its key from
  Attempts   \* runs of a queue job

ASSUME BatchAssumption ==
  /\ IsFiniteSet(Item) /\ Item # {}
  /\ DOMAIN Content = Item
  /\ Attempts \in Nat \ {0}

VARIABLES
  atomic, queued,  \* what kind of batch it is: chosen once
  batch,   \* payment_batches: a row per request
  job,     \* the row's queue job: its state and the attempts made
  run,     \* processing a row: per request and attempt
  item,    \* the tasks of a run that pays item by item
  posted,  \* contents that a committed completed transactions row has
  paid,    \* per row and item, payments on the chain
  booked,  \* per row, committed transactions of an atomic batch
  cause    \* per row, the faults its processing met

batchVars == <<atomic, queued, batch, job, run, item, posted, paid, booked, cause>>
vars == <<gateVars, batchVars>>

Run == Req \X (1..Attempts)
Over == {"completed", "partial_failed", "failed"}
Settled == {"idle", "completed", "failed"}
InFlight == {"valid", "paying", "posting", "noting"}

Init ==
  /\ GateInit
  /\ atomic \in BOOLEAN /\ queued \in BOOLEAN
  /\ batch  = [r \in Req |-> [status |-> "none", good |-> 0, bad |-> 0]]
  /\ job    = [r \in Req |-> [st |-> "none", tries |-> 0]]
  /\ run    = [x \in Run |-> "idle"]
  /\ item   = [x \in Run |-> [i \in Item |-> "idle"]]
  /\ posted = {}
  /\ paid   = [r \in Req |-> [i \in Item |-> 0]]
  /\ booked = [r \in Req |-> 0]
  /\ cause  = [r \in Req |-> {}]

Goto(x, pc) == run' = [run EXCEPT ![x] = pc]
Row(r, status) == batch' = [batch EXCEPT ![r].status = status]
Blame(r, why) == Fault /\ cause' = [cause EXCEPT ![r] = @ \cup {why}]

\* What a step of the processing leaves alone.
GateRest == <<record, req, reply, source, writing, lost>>
Kind == <<atomic, queued>>

Good(x) == {i \in Item : item[x][i] = "completed"}
Bad(x) == {i \in Item : item[x][i] = "failed"}

\* Mutant: a job that succeeded is attempted again.
EndThenAgain(x, kind) ==
  LET r == x[1] IN
  /\ Goto(x, "over")
  /\ item' = [item EXCEPT ![x] = [i \in Item |-> "idle"]]
  /\ IF queued
     THEN /\ job' = [job EXCEPT ![r].st = IF job[r].tries < Attempts THEN "waiting" ELSE "failed"]
          /\ UNCHANGED <<req, reply, source, writing>>
     ELSE Respond(r, IF kind = "fail" THEN "4xx" ELSE kind) /\ UNCHANGED job
  /\ UNCHANGED <<record, lost>>

\* The run is over: the request answers, or the job is done or tried again.  Only
\* tasks still in flight keep the run's results alive.
End(x, kind) ==
  LET r == x[1] IN
  /\ Goto(x, "over")
  /\ item' = IF \E i \in Item : item[x][i] \in InFlight THEN item
             ELSE [item EXCEPT ![x] = [i \in Item |-> "idle"]]
  /\ IF queued
     THEN /\ job' = [job EXCEPT ![r].st = IF kind # "fail" THEN "done"
                                          ELSE IF job[r].tries < Attempts THEN "waiting" ELSE "failed"]
          /\ UNCHANGED <<req, reply, source, writing>>
     ELSE /\ \E k \in IF kind = "fail" THEN {"4xx", "5xx"} ELSE {kind} : Respond(r, k)
          /\ UNCHANGED job
  /\ UNCHANGED <<record, lost>>

-----------------------------------------------------------------------------
(* The request *)

\* validate: a malformed body.
Refuse(r) ==
  /\ req[r] = "handler" /\ batch[r].status = "none"
  /\ Respond(r, "4xx")
  /\ UNCHANGED <<record, lost, faults, batchVars>>

\* BatchPayment.create
CreateBatch(r) ==
  /\ req[r] = "handler" /\ batch[r].status = "none"
  /\ Row(r, "pending")
  /\ IF queued THEN UNCHANGED run ELSE Goto(<<r, 1>>, "prepare")
  /\ UNCHANGED <<gateVars, Kind, job, item, posted, paid, booked, cause>>

\* batchPaymentQueue.add, and 202.
Enqueue(r) ==
  /\ queued /\ req[r] = "handler" /\ batch[r].status # "none"
  /\ job' = [job EXCEPT ![r].st = "waiting"]
  /\ Respond(r, "2xx")
  /\ UNCHANGED <<record, lost, faults, Kind, batch, run, item, posted, paid, booked, cause>>

\* The row or the job cannot be written: 500.
RequestFails(r) ==
  /\ req[r] = "handler"
  /\ batch[r].status = "none" \/ queued
  /\ Blame(r, "db")
  /\ Respond(r, "5xx")
  /\ UNCHANGED <<record, lost, Kind, batch, job, run, item, posted, paid, booked>>

\* The worker takes one job at a time.
StartJob(r) ==
  /\ job[r].st = "waiting" /\ job[r].tries < Attempts
  /\ \A q \in Req : job[q].st # "active"
  /\ job' = [job EXCEPT ![r] = [st |-> "active", tries |-> @.tries + 1]]
  /\ Goto(<<r, job[r].tries + 1>>, "prepare")
  /\ UNCHANGED <<gateVars, Kind, batch, item, posted, paid, booked, cause>>

-----------------------------------------------------------------------------
(* prepareBatch, and what is checked before anything is paid *)

\* Look-ups decide which items V are valid; an atomic batch needs all of them and
\* the balance for them.  Then the row says processing.
Prepare(x) ==
  \E V \in SUBSET Item :
    /\ run[x] = "prepare" /\ V # {} /\ (atomic => V = Item)
    /\ Goto(x, IF atomic THEN "submit" ELSE "items")
    /\ item' = IF atomic THEN item
               ELSE [item EXCEPT ![x] = [i \in Item |-> IF i \in V THEN "valid" ELSE "failed"]]
    /\ batch' = [batch EXCEPT ![x[1]].status = "processing",
                              ![x[1]].good = IF atomic THEN @ ELSE 0,
                              ![x[1]].bad = IF atomic THEN @ ELSE Cardinality(Item \ V)]
    /\ UNCHANGED <<gateVars, Kind, job, posted, paid, booked, cause>>

\* The token, an address, the balance or an atomic batch's item does not do: an
\* exception.  Without one, the other batches fail only when no item is valid.
NotPrepared(x) ==
  /\ run[x] = "prepare"
  /\ Goto(x, "fail") \/ (~atomic /\ Goto(x, "refused"))
  /\ UNCHANGED <<gateVars, Kind, batch, job, item, posted, paid, booked, cause>>

-----------------------------------------------------------------------------
(* processAtomicBatch: rows and transaction, then COMMIT *)

PaidAll(r) == [paid EXCEPT ![r] = [i \in Item |-> @[i] + 1]]

SubmitBatch(x) ==
  /\ run[x] = "submit"
  /\ paid' = PaidAll(x[1])
  /\ Goto(x, "commit")
  /\ UNCHANGED <<gateVars, Kind, batch, job, item, posted, booked, cause>>

\* Signing fails, or the network refuses the transaction: ROLLBACK.
SubmitRefused(x) ==
  /\ run[x] = "submit"
  /\ Goto(x, "fail")
  /\ UNCHANGED <<gateVars, Kind, batch, job, item, posted, paid, booked, cause>>

\* No attempt is answered, and the transaction is applied: ROLLBACK as well.
SubmitUnanswered(x) ==
  /\ run[x] = "submit"
  /\ Blame(x[1], "unanswered")
  /\ paid' = PaidAll(x[1])
  /\ Goto(x, "fail")
  /\ UNCHANGED <<GateRest, Kind, batch, job, item, posted, booked>>

Commit(x) ==
  /\ run[x] = "commit"
  /\ booked' = [booked EXCEPT ![x[1]] = @ + 1]
  /\ Goto(x, "record")
  /\ UNCHANGED <<gateVars, Kind, batch, job, item, posted, paid, cause>>

\* The batch row of an atomic batch is written last.
Record(x) ==
  /\ run[x] = "record"
  /\ batch' = [batch EXCEPT ![x[1]] = [status |-> "completed", good |-> Cardinality(Item), bad |-> 0]]
  /\ Goto(x, "written")
  /\ UNCHANGED <<gateVars, Kind, job, item, posted, paid, booked, cause>>

\* A statement of the transaction, the reads after it or the last update fails:
\* the catch rolls back what is not committed and the batch fails.
ProcessingFails(x) ==
  /\ run[x] \in {"prepare", "submit", "commit", "record", "refused"}
  /\ Blame(x[1], "db")
  /\ Goto(x, "fail")
  /\ UNCHANGED <<GateRest, Kind, batch, job, item, posted, paid, booked>>

-----------------------------------------------------------------------------
(* processNonAtomicBatch: tasks, ten at a time *)

Task(x, i, st) == item' = [item EXCEPT ![x][i] = st]

\* The task is over: counters and batch row.  They are the run's own.
Count(x, i, st) ==
  LET one(s) == IF st = s THEN 1 ELSE 0 IN
  /\ Task(x, i, st)
  /\ batch' = [batch EXCEPT ![x[1]].good = Cardinality(Good(x)) + one("completed"),
                            ![x[1]].bad  = Cardinality(Bad(x)) + one("failed")]

\* A payment with the same content is in progress.
Rivalled(i) ==
  \E y \in Run, j \in Item : item[y][j] \in {"paying", "posting"} /\ Content[j] = Content[i]

\* processPayment finds a completed payment with this content and returns it.
Replay(x, i) ==
  /\ item[x][i] = "valid"
  /\ Content[i] \in posted
  /\ Task(x, i, "noting")
  /\ UNCHANGED <<gateVars, Kind, batch, job, run, posted, paid, booked, cause>>

\* Mutant: a completed payment with this content is not looked for.
StartPaymentAgain(x, i) ==
  /\ item[x][i] = "valid" /\ ~Rivalled(i)
  /\ Task(x, i, "paying")
  /\ UNCHANGED <<gateVars, Kind, batch, job, run, posted, paid, booked, cause>>

\* Its row takes the unique key; a rival's uncommitted row makes it wait.
StartPayment(x, i) ==
  /\ item[x][i] = "valid"
  /\ Content[i] \notin posted /\ ~Rivalled(i)
  /\ Task(x, i, "paying")
  /\ UNCHANGED <<gateVars, Kind, batch, job, run, posted, paid, booked, cause>>

\* The remaining balance, a check of processPayment or the key: not paid.
ItemRefused(x, i) ==
  /\ item[x][i] \in {"valid", "paying"}
  /\ Count(x, i, "failed")
  /\ UNCHANGED <<gateVars, Kind, job, run, posted, paid, booked, cause>>

PayItem(x, i) ==
  /\ item[x][i] = "paying"
  /\ paid' = [paid EXCEPT ![x[1]][i] = @ + 1]
  /\ Task(x, i, "posting")
  /\ UNCHANGED <<gateVars, Kind, batch, job, run, posted, booked, cause>>

\* COMMIT of processPayment.
PostItem(x, i) ==
  /\ item[x][i] = "posting"
  /\ posted' = posted \cup {Content[i]}
  /\ Task(x, i, "noting")
  /\ UNCHANGED <<gateVars, Kind, batch, job, run, paid, booked, cause>>

\* Its UPDATE or COMMIT fails once the payment is made.  The recovery row is kept
\* or not; the caller asks for the row that was rolled back, so the item fails
\* either way.
PostFails(x, i) ==
  /\ item[x][i] = "posting"
  /\ \/ Blame(x[1], "db") /\ posted' = posted \cup {Content[i]}
     \/ Blame(x[1], "unposted") /\ UNCHANGED posted
  /\ Count(x, i, "failed")
  /\ UNCHANGED <<GateRest, Kind, job, run, paid, booked>>

\* Paid, but no answer came: processPayment throws and keeps no row.
ItemUnanswered(x, i) ==
  /\ item[x][i] = "paying"
  /\ Blame(x[1], "unanswered")
  /\ paid' = [paid EXCEPT ![x[1]][i] = @ + 1]
  /\ Count(x, i, "failed")
  /\ UNCHANGED <<GateRest, Kind, job, run, posted, booked>>

\* The payment's row is given its batch and item; then the counters.
NoteItem(x, i) ==
  /\ item[x][i] = "noting"
  /\ Count(x, i, "completed")
  /\ UNCHANGED <<gateVars, Kind, job, run, posted, paid, booked, cause>>

\* Reading or updating the payment's row fails: a paid item counts as failed.
NoteFails(x, i) ==
  /\ item[x][i] = "noting"
  /\ Blame(x[1], "db")
  /\ Count(x, i, "failed")
  /\ UNCHANGED <<GateRest, Kind, job, run, posted, paid, booked>>

\* The update of the batch row fails inside a task: Promise.all rejects and the
\* batch fails while the other tasks go on.
CountFails(x, i) ==
  /\ item[x][i] = "noting" /\ run[x] = "items"
  /\ Blame(x[1], "db")
  /\ Task(x, i, "completed")
  /\ Goto(x, "fail")
  /\ UNCHANGED <<GateRest, Kind, batch, job, posted, paid, booked>>

\* getFinalStatus
FinalStatus(x) ==
  CASE Good(x) # {} /\ Bad(x) # {} -> "partial_failed"
    [] Good(x) # {} /\ Bad(x) = {} -> "completed"
    [] OTHER                       -> "failed"

\* Mutant: the results are awaited with a race instead of all of them.
FinishEarly(x) ==
  /\ run[x] = "items"
  /\ \E i \in Item : item[x][i] \in Settled
  /\ batch' = [batch EXCEPT ![x[1]] = [status |-> FinalStatus(x),
                  good |-> Cardinality(Good(x)), bad |-> Cardinality(Bad(x))]]
  /\ Goto(x, "written")
  /\ UNCHANGED <<gateVars, Kind, job, item, posted, paid, booked, cause>>

Finish(x) ==
  /\ run[x] = "items"
  /\ \A i \in Item : item[x][i] \in Settled
  /\ batch' = [batch EXCEPT ![x[1]] = [status |-> FinalStatus(x),
                  good |-> Cardinality(Good(x)), bad |-> Cardinality(Bad(x))]]
  /\ Goto(x, "written")
  /\ UNCHANGED <<gateVars, Kind, job, item, posted, paid, booked, cause>>

FinishFails(x) ==
  /\ run[x] = "items"
  /\ \A i \in Item : item[x][i] \in Settled
  /\ Blame(x[1], "db")
  /\ Goto(x, "fail")
  /\ UNCHANGED <<GateRest, Kind, batch, job, item, posted, paid, booked>>

\* The finished row has been read back: the result is returned.
Return(x) ==
  /\ run[x] = "written"
  /\ End(x, IF atomic \/ FinalStatus(x) # "failed" THEN "2xx" ELSE "4xx")
  /\ UNCHANGED <<faults, Kind, batch, posted, paid, booked, cause>>

\* Reading it back, in BatchPayment.update or for the answer, fails inside the try
\* of the processing: the finished batch fails.
RereadFails(x) ==
  /\ run[x] = "written"
  /\ Blame(x[1], "reread")
  /\ Goto(x, "fail")
  /\ UNCHANGED <<GateRest, Kind, batch, job, item, posted, paid, booked>>

-----------------------------------------------------------------------------
(* Failing *)

\* Mutant: a failed batch leaves its row as it was.
FailBatchQuietly(x) ==
  /\ run[x] = "fail"
  /\ End(x, "fail")
  /\ UNCHANGED <<faults, Kind, batch, posted, paid, booked, cause>>

FailedRow(r) == [batch EXCEPT ![r] = [status |-> "failed", good |-> 0, bad |-> Cardinality(Item)]]

\* failBatch, whatever has been paid; 4xx, or 503 for a network error.  A batch
\* without a valid item ends the job, everything else makes its attempt fail.
FailBatch(x) ==
  /\ run[x] \in {"fail", "refused"}
  /\ batch' = FailedRow(x[1])
  /\ End(x, IF run[x] = "refused" THEN "4xx" ELSE "fail")
  /\ UNCHANGED <<faults, Kind, posted, paid, booked, cause>>

\* Its update fails, or reading the row back once it is written.
FailBatchFails(x) ==
  /\ run[x] = "fail"   \* a failure while "refused" only leads here
  /\ Blame(x[1], "db")
  /\ batch' \in {batch, FailedRow(x[1])}
  /\ Goto(x, "over")
  /\ IF queued
     THEN /\ job' = [job EXCEPT ![x[1]].st = IF job[x[1]].tries < Attempts THEN "waiting" ELSE "failed"]
          /\ UNCHANGED <<req, reply, source, writing>>
     ELSE Respond(x[1], "5xx") /\ UNCHANGED job
  /\ UNCHANGED <<record, lost, Kind, item, posted, paid, booked>>

\* The process dies.  Open transactions roll back, also one whose Stellar
\* transaction has just been applied; an active job stalls and is taken again.
Crash ==
  LET live == {x \in Run : run[x] \notin {"idle", "over"}}
      busy == {x \in Run : \E i \in Item : item[x][i] \in InFlight}
      hit  == {x[1] : x \in live \cup busy}
              \cup {r \in Req : req[r] = "handler" \/ job[r].st = "active"} IN
  /\ GateCrash
  /\ hit # {}
  /\ run'  = [x \in Run |-> IF x \in live THEN "over" ELSE run[x]]
  /\ item' = [x \in Run |-> [i \in Item |->
                IF item[x][i] \in InFlight THEN "idle" ELSE item[x][i]]]
  /\ job'  = [r \in Req |-> IF job[r].st # "active" THEN job[r]
                            ELSE [job[r] EXCEPT !.st = IF job[r].tries = Attempts
                                                       THEN "failed" ELSE "waiting"]]
  /\ cause' = [r \in Req |-> IF r \in hit THEN cause[r] \cup {"crash"} ELSE cause[r]]
  /\ UNCHANGED <<Kind, batch, posted, paid, booked>>

-----------------------------------------------------------------------------
Gate(r) == GateStep(r) /\ UNCHANGED batchVars
GateGoesWrong ==
  (LockExpires \/ AnswerExpires \/ \E r \in Req : GateFault(r)) /\ UNCHANGED batchVars

RunStep(x) ==
  \/ Prepare(x) \/ NotPrepared(x) \/ SubmitBatch(x) \/ SubmitRefused(x)
  \/ Commit(x) \/ Record(x) \/ Finish(x) \/ Return(x) \/ FailBatch(x)

TaskStep(x, i) ==
  \/ Replay(x, i) \/ StartPayment(x, i) \/ PayItem(x, i) \/ PostItem(x, i)
  \/ ItemRefused(x, i) \/ NoteItem(x, i)

Advance(x) ==
  \/ run[x] \notin {"idle", "over"} /\ RunStep(x)
  \/ \E i \in Item : item[x][i] \in InFlight /\ TaskStep(x, i)

GoWrong(x) ==
  \/ SubmitUnanswered(x) \/ ProcessingFails(x) \/ FinishFails(x) \/ RereadFails(x)
  \/ FailBatchFails(x)
  \/ \E i \in Item : PostFails(x, i) \/ ItemUnanswered(x, i) \/ NoteFails(x, i) \/ CountFails(x, i)

Handle(r) == Refuse(r) \/ CreateBatch(r) \/ Enqueue(r)

Progress ==
  \/ \E r \in Req : Gate(r) \/ Handle(r) \/ StartJob(r)
  \/ \E x \in Run : Advance(x)

Next ==
  \/ Progress
  \/ \E r \in Req : RequestFails(r)
  \/ \E x \in Run : GoWrong(x)
  \/ GateGoesWrong
  \/ Crash

Spec == Init /\ [][Next]_vars

\* Every awaited call returns and the worker takes the jobs that wait: processing
\* does not stop while some step is possible.  No step can be taken for ever, so
\* that is enough.
FairSpec == Spec /\ WF_vars(Progress)

-----------------------------------------------------------------------------
(* Properties *)

\* Types; a row's counters never exceed its items, whatever order its tasks end in.
TypeOK ==
  /\ GateTypeOK
  /\ atomic \in BOOLEAN /\ queued \in BOOLEAN
  /\ batch \in [Req -> [status: {"none", "pending", "processing"} \cup Over,
                        good: 0..Cardinality(Item), bad: 0..Cardinality(Item)]]
  /\ \A r \in Req : batch[r].good + batch[r].bad <= Cardinality(Item)
  /\ job   \in [Req -> [st: {"none", "waiting", "active", "done", "failed"}, tries: 0..Attempts]]
  /\ run   \in [Run -> {"idle", "prepare", "submit", "commit", "record", "items",
                        "written", "fail", "refused", "over"}]
  /\ item  \in [Run -> [Item -> InFlight \cup Settled]]
  /\ posted \subseteq {Content[i] : i \in Item}
  /\ paid  \in [Req -> [Item -> Nat]] /\ booked \in [Req -> Nat]
  /\ cause \in [Req -> SUBSET {"db", "unposted", "unanswered", "reread", "crash"}]

\* The payment of an item, or of one it cannot be told from, is on the chain; an
\* item was paid more than once.
Paid(i) == \E r \in Req, j \in Item : paid[r][j] > 0 /\ Content[j] = Content[i]
PaidTwice(i) ==
  \E r, q \in Req : paid[r][i] > 0 /\ paid[q][i] > 0 /\ (r # q \/ paid[r][i] > 1)

\* An item is paid once, however often the batch is requested under its key and
\* its job attempted: twice only after the gate let the key go or the batch met a
\* fault once it was paid.  Item by item, processPayment's own key makes it hold
\* without the gate, except for a payment whose answer was lost or that no row
\* could be kept of.
PaidOnce ==
  \A i \in Item : PaidTwice(i) =>
    IF atomic THEN \/ lost \cap {"redis", "expired", "aged", "crash"} # {}
                   \/ \E r \in Req : cause[r] # {}
              ELSE \E r \in Req : cause[r] \cap {"unposted", "unanswered", "crash"} # {}

\* What a batch row reports of finished processing is so: completed, all items
\* are paid; failed, none is, or the row met a fault; partial_failed, some are
\* and, without a fault, just those it counts.  After a failed update of the row,
\* tasks that go on may write older counters over the outcome of a later attempt.
RowIsTrue ==
  \A r \in Req :
    LET done == {i \in Item : Paid(i)}
        mine == {i \in Item : paid[r][i] > 0} IN
    CASE batch[r].status = "completed" ->
           done = Item /\ (batch[r].good = Cardinality(Item) \/ "db" \in cause[r])
      [] batch[r].status = "failed" -> mine = {} \/ cause[r] # {}
      [] batch[r].status = "partial_failed" ->
           /\ done # {}
           /\ batch[r].good \in 1..Cardinality(done) \/ "db" \in cause[r]
           /\ batch[r].good + batch[r].bad = Cardinality(Item) \/ "db" \in cause[r]
           /\ cause[r] = {} => Cardinality(mine) <= batch[r].good
      [] OTHER -> TRUE

\* What a batch row says.
RowInv == TypeOK /\ RowIsTrue

Payments(i) == MapThenSumSet(LAMBDA r : paid[r][i], Req)

\* A completed batch executes what was authorized: as many payments of a
\* recipient and amount as it has items with them (BATCH_PAYMENT_INTEGRITY.md).
ExecutedAsAuthorized ==
  \A r \in Req : batch[r].status = "completed" =>
    MapThenSumSet(Payments, Item) >= Cardinality(Item)

\* A finished row is not reopened or turned into another outcome, but for two
\* cases.  What could not be read back once it was written turns into failed.  And
\* a queue job is attempted again: until its last attempt, no failed of a large
\* batch is final, nor an outcome that its attempt died on or could not report.
FinishedIsFinal ==
  [][\A r \in Req : batch[r].status \in Over /\ batch'[r].status # batch[r].status =>
       \/ "reread" \in cause[r] /\ batch'[r].status = "failed"
       \/ /\ queued /\ job[r].tries > 1
          /\ batch[r].status = "failed" \/ cause[r] \cap {"crash", "reread"} # {}]_vars

\* Every batch row comes to an end, unless the process died in the request or in
\* the last attempt of its job, or the database failed: nothing looks for rows
\* left pending or processing.
EveryBatchEnds ==
  \A r \in Req : batch[r].status \in {"pending", "processing"} ~>
    \/ batch[r].status \in Over
    \/ "db" \in cause[r]
    \/ "crash" \in cause[r] /\ (~queued \/ job[r].st \in {"none", "failed"})
=============================================================================
