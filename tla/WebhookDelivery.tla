--------------------------- MODULE WebhookDelivery ---------------------------
(***************************************************************************)
(* Dispatch and delivery of the events of one webhook subscription         *)
(* (WebhookService, WebhookDeliveryService, WebhookEvent, the two BullMQ   *)
(* queues and the admin's replay).  Dispatchers, queue workers and admins  *)
(* interleave at every database query and queue call; all of them live in  *)
(* one process, which may crash.                                           *)
(*                                                                         *)
(* A job is job[k][n]: n = 0 is the job of event k in webhook-delivery     *)
(* (job id event-<key>), n > 0 its n-th retry in webhook-retry (job id     *)
(* retry-<event>-<n>).  BullMQ ignores an add whose job id it still knows, *)
(* also of a finished job, and runs the job of a dead worker once more.    *)
(*                                                                         *)
(* dispatch inserts a column "attempts" that no migration creates: with    *)
(* the schema of the repository hasAttempts is FALSE, every insert is      *)
(* refused and every event goes untracked.  TRUE is the schema that        *)
(* WebhookService is written for.                                          *)
(***************************************************************************)
EXTENDS Naturals, FiniteSets

CONSTANTS
  Key,           \* events, by webhook, type and payload (the idempotency key)
  Exec,          \* concurrent executions of executeDelivery
  Disp,          \* concurrent calls of dispatch
  MaxRetries,    \* MAX_RETRIES, 5 in the code
  Schemas,       \* the schemas considered: may the column "attempts" be missing?
  Budget         \* how often each fault or outside action may happen

ASSUME WebhookAssumption ==
  /\ Key # {}
  /\ MaxRetries \in Nat \ {0}
  /\ Schemas \subseteq BOOLEAN
  /\ Budget \in [{"crash", "fault", "dispatch", "outside"} -> Nat]

VARIABLES
  hasAttempts, \* webhook_events has the column "attempts"; never changes
  hook,    \* the row of webhooks: status, is_active, and whether it exists
  row,     \* rows of webhook_events: status, and whether attempt_count > 0
  job,     \* the jobs BullMQ knows
  exec, disp,
  got,     \* events the receiver has acknowledged
  tried,   \* per event, the attempts that were posted
  cause,   \* per event, what can have cost it its job
  budget

vars == <<hasAttempts, hook, row, job, exec, disp, got, tried, cause, budget>>

Attempt == 0..MaxRetries
Status  == {"none", "pending", "failed", "success", "dead_letter"}
Cause   == {"db", "redis", "url", "stalled", "race", "replay", "untracked", "crash"}

NoJob   == [state |-> "none", tracked |-> TRUE, stalled |-> FALSE]
Resting == [pc |-> "idle", key |-> CHOOSE k \in Key : TRUE, n |-> 0,
            by |-> "job", tracked |-> TRUE]
Silent  == [pc |-> "idle", key |-> CHOOSE k \in Key : TRUE, tracked |-> TRUE]

Init ==
  /\ hasAttempts \in Schemas
  /\ hook   = [status |-> "active", is_active |-> TRUE, exists |-> TRUE]
  /\ row    = [k \in Key |-> [status |-> "none", attempted |-> FALSE]]
  /\ job    = [k \in Key |-> [n \in Attempt |-> NoJob]]
  /\ exec   = [e \in Exec |-> Resting]
  /\ disp   = [d \in Disp |-> Silent]
  /\ got    = {}
  /\ tried  = [k \in Key |-> {}]
  /\ cause  = [k \in Key |-> {}]
  /\ budget = Budget

Spend(f) == budget[f] > 0 /\ budget' = [budget EXCEPT ![f] = @ - 1]
Blame(k, c) == cause' = [cause EXCEPT ![k] = @ \cup {c}]

\* UPDATE ... WHERE id: nothing happens when the row is gone.
SetRow(k, st, counts) ==
  row' = IF row[k].status = "none" THEN row
         ELSE [row EXCEPT ![k] = [status |-> st, attempted |-> @.attempted \/ counts]]

AddJob(k, n, tr) ==
  job' = IF job[k][n].state # "none" THEN job
         ELSE [job EXCEPT ![k][n] = [state |-> "queued", tracked |-> tr, stalled |-> FALSE]]

-----------------------------------------------------------------------------
(* dispatch: one subscribed webhook, one event *)

FindActive(d, k) ==
  /\ disp[d].pc = "idle"
  /\ Spend("dispatch")
  /\ hook.exists /\ hook.is_active /\ hook.status = "active"
  /\ disp' = [disp EXCEPT ![d] = [pc |-> "select", key |-> k, tracked |-> TRUE]]
  /\ UNCHANGED <<hasAttempts, hook, row, job, exec, got, tried, cause>>

IsNew(r) == r.status = "pending" /\ ~r.attempted

SelectEvent(d) ==
  LET r == row[disp[d].key] IN
  /\ disp[d].pc = "select"
  /\ disp' = IF r.status = "none" THEN [disp EXCEPT ![d].pc = "insert"]
             ELSE IF IsNew(r) THEN [disp EXCEPT ![d].pc = "enqueue"]
             ELSE [disp EXCEPT ![d] = Silent]
  /\ UNCHANGED <<hasAttempts, hook, row, job, exec, got, tried, cause, budget>>

CanInsert(k) == hasAttempts /\ hook.exists /\ row[k].status = "none"

InsertEvent(d) ==
  LET k == disp[d].key IN
  /\ disp[d].pc = "insert"
  /\ CanInsert(k)
  /\ row' = [row EXCEPT ![k] = [status |-> "pending", attempted |-> FALSE]]
  /\ disp' = [disp EXCEPT ![d].pc = "enqueue"]
  /\ UNCHANGED <<hasAttempts, hook, job, exec, got, tried, cause, budget>>

\* The error is logged, and the event goes on without an id.
InsertRefused(d) ==
  LET k == disp[d].key IN
  /\ disp[d].pc = "insert"
  /\ ~CanInsert(k)
  /\ disp' = [disp EXCEPT ![d].pc = "enqueue", ![d].tracked = FALSE]
  /\ Blame(k, IF row[k].status = "none" THEN "untracked" ELSE "race")
  /\ UNCHANGED <<hasAttempts, hook, row, job, exec, got, tried, budget>>

\* The database fails before the insert, or between the insert and its read back.
InsertFails(d) ==
  LET k == disp[d].key IN
  /\ disp[d].pc \in {"select", "insert"}
  /\ Spend("fault")
  /\ \/ UNCHANGED row
     \/ /\ disp[d].pc = "insert" /\ CanInsert(k)
        /\ row' = [row EXCEPT ![k] = [status |-> "pending", attempted |-> FALSE]]
  /\ disp' = [disp EXCEPT ![d].pc = "enqueue", ![d].tracked = FALSE]
  /\ Blame(k, "db")
  /\ UNCHANGED <<hasAttempts, hook, job, exec, got, tried>>

EnqueueEvent(d) ==
  /\ disp[d].pc = "enqueue"
  /\ AddJob(disp[d].key, 0, disp[d].tracked)
  /\ disp' = [disp EXCEPT ![d] = Silent]
  /\ UNCHANGED <<hasAttempts, hook, row, exec, got, tried, cause, budget>>

\* Redis refuses: dispatch throws, its callers log it.
EnqueueEventFails(d) ==
  /\ disp[d].pc = "enqueue"
  /\ Spend("fault")
  /\ disp' = [disp EXCEPT ![d] = Silent]
  /\ Blame(disp[d].key, "redis")
  /\ UNCHANGED <<hasAttempts, hook, row, job, exec, got, tried>>

-----------------------------------------------------------------------------
(* The workers of the two queues and the admin's replay *)

TakeJob(e, k, n) ==
  /\ exec[e].pc = "idle"
  /\ job[k][n].state = "queued"
  /\ job' = [job EXCEPT ![k][n].state = "active"]
  /\ exec' = [exec EXCEPT ![e] = [pc |-> IF n = 0 THEN "validate" ELSE "post", key |-> k,
                                  n |-> n, by |-> "job", tracked |-> job[k][n].tracked]]
  /\ UNCHANGED <<hasAttempts, hook, row, disp, got, tried, cause, budget>>

\* retryDeadLetter reads the event and the webhook, then delivers as attempt 0.
ReplayDeadLetter(e, k) ==
  /\ exec[e].pc = "idle"
  /\ Spend("outside")
  /\ row[k].status = "dead_letter"
  /\ hook.exists /\ hook.is_active
  /\ exec' = [exec EXCEPT ![e] = [pc |-> "post", key |-> k, n |-> 0,
                                  by |-> "admin", tracked |-> TRUE]]
  /\ Blame(k, "replay")
  /\ UNCHANGED <<hasAttempts, hook, row, job, disp, got, tried>>

Step(e, next) == exec' = [exec EXCEPT ![e].pc = next]

\* executeDelivery returned ("done") or threw ("failed"); both queues give a
\* job one attempt, so a failed job stays failed.
Finish(e, how) ==
  /\ exec' = [exec EXCEPT ![e] = Resting]
  /\ job' = IF exec[e].by = "job" THEN [job EXCEPT ![exec[e].key][exec[e].n].state = how] ELSE job

\* validateWebhookUrl at delivery time, in the first queue only.
ValidateUrl(e) ==
  /\ exec[e].pc = "validate"
  /\ \/ Step(e, "post") /\ UNCHANGED <<job, cause, budget>>
     \/ Spend("fault") /\ Finish(e, "failed") /\ Blame(exec[e].key, "url")
  /\ UNCHANGED <<hasAttempts, hook, row, disp, got, tried>>

\* Mutant: validateStatus accepts every answer.
PostEventAnyStatus(e) ==
  LET k == exec[e].key IN
  /\ exec[e].pc = "post"
  /\ tried' = [tried EXCEPT ![k] = @ \cup {exec[e].n}]
  /\ \/ Step(e, IF exec[e].tracked THEN "markSuccess" ELSE "trigger") /\ got' \in {got, got \cup {k}}
     \/ Step(e, "handleFailure") /\ UNCHANGED got
  /\ UNCHANGED <<hasAttempts, hook, row, job, disp, cause, budget>>

PostEvent(e) ==
  LET k == exec[e].key IN
  /\ exec[e].pc = "post"
  /\ tried' = [tried EXCEPT ![k] = @ \cup {exec[e].n}]
  /\ \/ Step(e, IF exec[e].tracked THEN "markSuccess" ELSE "trigger") /\ got' = got \cup {k}
     \/ Step(e, "handleFailure") /\ got' \in {got, got \cup {k}}  \* refused, or the answer is lost
  /\ UNCHANGED <<hasAttempts, hook, row, job, disp, cause, budget>>

MarkSuccess(e) ==
  /\ exec[e].pc = "markSuccess"
  /\ SetRow(exec[e].key, "success", FALSE)
  /\ Step(e, "trigger")
  /\ UNCHANGED <<hasAttempts, hook, job, disp, got, tried, cause, budget>>

RecordTrigger(e) ==
  /\ exec[e].pc = "trigger"
  /\ Finish(e, "done")
  /\ UNCHANGED <<hasAttempts, hook, row, disp, got, tried, cause, budget>>

\* A failed query after the answer is caught as a failed delivery.
RecordingFails(e) ==
  /\ exec[e].pc \in {"markSuccess", "trigger"}
  /\ Spend("fault")
  /\ Step(e, "handleFailure")
  /\ UNCHANGED <<hasAttempts, hook, row, job, disp, got, tried, cause>>

\* handleFailure: an event without an id is dropped.
DropUntracked(e) ==
  /\ exec[e].pc = "handleFailure"
  /\ ~exec[e].tracked
  /\ Finish(e, "done")
  /\ Blame(exec[e].key, "untracked")
  /\ UNCHANGED <<hasAttempts, hook, row, disp, got, tried, budget>>

\* Mutant: nextAttempt >= MAX_RETRIES.
MarkFailedTooSoon(e) ==
  /\ exec[e].pc = "handleFailure"
  /\ exec[e].tracked
  /\ SetRow(exec[e].key, "failed", TRUE)
  /\ Step(e, IF exec[e].n + 1 >= MaxRetries THEN "bury" ELSE "schedule")
  /\ UNCHANGED <<hasAttempts, hook, job, disp, got, tried, cause, budget>>

MarkFailed(e) ==
  /\ exec[e].pc = "handleFailure"
  /\ exec[e].tracked
  /\ SetRow(exec[e].key, "failed", TRUE)
  /\ Step(e, IF exec[e].n + 1 > MaxRetries THEN "bury" ELSE "schedule")
  /\ UNCHANGED <<hasAttempts, hook, job, disp, got, tried, cause, budget>>

MarkDeadLetter(e) ==
  /\ exec[e].pc = "bury"
  /\ SetRow(exec[e].key, "dead_letter", FALSE)
  /\ Step(e, "disable")
  /\ UNCHANGED <<hasAttempts, hook, job, disp, got, tried, cause, budget>>

\* recordTrigger and updateStatus: no later event is dispatched to this webhook.
DisableWebhook(e) ==
  /\ exec[e].pc = "disable"
  /\ hook' = [hook EXCEPT !.status = "failed"]
  /\ Step(e, "return")
  /\ UNCHANGED <<hasAttempts, row, job, disp, got, tried, cause, budget>>

\* Mutant: the row is enough, as if a worker looked for pending rows.
ScheduleRetryOnly(e) ==
  /\ exec[e].pc = "schedule"
  /\ SetRow(exec[e].key, "pending", TRUE)
  /\ Step(e, "return")
  /\ UNCHANGED <<hasAttempts, hook, job, disp, got, tried, cause, budget>>

ScheduleRetry(e) ==
  /\ exec[e].pc = "schedule"
  /\ SetRow(exec[e].key, "pending", TRUE)
  /\ Step(e, "enqueue")
  /\ UNCHANGED <<hasAttempts, hook, job, disp, got, tried, cause, budget>>

\* Mutant: one job id for all retries of an event.
EnqueueRetryUnnumbered(e) ==
  /\ exec[e].pc = "enqueue"
  /\ IF \E n \in Attempt \ {0} : job[exec[e].key][n].state # "none"
     THEN UNCHANGED job ELSE AddJob(exec[e].key, exec[e].n + 1, TRUE)
  /\ Step(e, "return")
  /\ UNCHANGED <<hasAttempts, hook, row, disp, got, tried, cause, budget>>

EnqueueRetry(e) ==
  /\ exec[e].pc = "enqueue"
  /\ AddJob(exec[e].key, exec[e].n + 1, TRUE)
  /\ Step(e, "return")
  /\ UNCHANGED <<hasAttempts, hook, row, disp, got, tried, cause, budget>>

\* The execution returns, and BullMQ records its job as completed.
CompleteJob(e) ==
  /\ exec[e].pc = "return"
  /\ Finish(e, "done")
  /\ UNCHANGED <<hasAttempts, hook, row, disp, got, tried, cause, budget>>

\* handleFailure throws: so does executeDelivery, and the job has failed.
FailureHandlingFails(e) ==
  /\ \/ exec[e].pc \in {"bury", "disable", "schedule"} /\ Spend("fault") /\ Blame(exec[e].key, "db")
     \/ exec[e].pc = "handleFailure" /\ exec[e].tracked /\ Spend("fault") /\ Blame(exec[e].key, "db")
     \/ exec[e].pc = "enqueue" /\ Spend("fault") /\ Blame(exec[e].key, "redis")
  /\ Finish(e, "failed")
  /\ UNCHANGED <<hasAttempts, hook, row, disp, got, tried>>

-----------------------------------------------------------------------------
(* The process, BullMQ and the owner of the webhook *)

\* Every execution and dispatch is gone.  BullMQ puts the jobs of the dead
\* workers back once (maxStalledCount), and fails them the second time.
Crash ==
  /\ Spend("crash")
  /\ exec' = [e \in Exec |-> Resting]
  /\ disp' = [d \in Disp |-> Silent]
  /\ job' = [k \in Key |-> [n \in Attempt |->
               IF job[k][n].state # "active" THEN job[k][n]
               ELSE [job[k][n] EXCEPT !.state = IF @ = "active" /\ job[k][n].stalled
                                                THEN "failed" ELSE "queued",
                                      !.stalled = TRUE]]]
  /\ cause' = [k \in Key |-> cause[k]
       \cup {c \in {"stalled"} : \E n \in Attempt : job[k][n].state = "active" /\ job[k][n].stalled}
       \cup {c \in {"crash"} : \E d \in Disp : disp[d].pc # "idle" /\ disp[d].key = k}]
  /\ UNCHANGED <<hasAttempts, hook, row, got, tried>>

\* removeOnComplete and removeOnFail: an old finished job is forgotten.
TrimJob(k, n) ==
  /\ job[k][n].state \in {"done", "failed"}
  /\ Spend("outside")
  /\ job' = [job EXCEPT ![k][n] = NoJob]
  /\ UNCHANGED <<hasAttempts, hook, row, exec, disp, got, tried, cause>>

SetActive(b) ==
  /\ hook.exists /\ hook.is_active # b
  /\ Spend("outside")
  /\ hook' = [hook EXCEPT !.is_active = b]
  /\ UNCHANGED <<hasAttempts, row, job, exec, disp, got, tried, cause>>

\* The events go with the webhook (ON DELETE CASCADE); the jobs stay.
DeleteWebhook ==
  /\ hook.exists
  /\ Spend("outside")
  /\ hook' = [hook EXCEPT !.exists = FALSE]
  /\ row' = [k \in Key |-> [status |-> "none", attempted |-> FALSE]]
  /\ UNCHANGED <<hasAttempts, job, exec, disp, got, tried, cause>>

-----------------------------------------------------------------------------
Dispatch(d) ==
  \/ SelectEvent(d) \/ InsertEvent(d) \/ InsertRefused(d) \/ EnqueueEvent(d)

Execute(e) ==
  \/ ValidateUrl(e) \/ PostEvent(e) \/ MarkSuccess(e) \/ RecordTrigger(e)
  \/ DropUntracked(e) \/ MarkFailed(e) \/ MarkDeadLetter(e) \/ DisableWebhook(e)
  \/ ScheduleRetry(e) \/ EnqueueRetry(e) \/ CompleteJob(e)

Next ==
  \/ \E d \in Disp : Dispatch(d) \/ InsertFails(d) \/ EnqueueEventFails(d)
                     \/ \E k \in Key : FindActive(d, k)
  \/ \E e \in Exec : Execute(e) \/ RecordingFails(e) \/ FailureHandlingFails(e)
                     \/ \E k \in Key : ReplayDeadLetter(e, k)
                                       \/ \E n \in Attempt : TakeJob(e, k, n)
  \/ Crash
  \/ \E k \in Key, n \in Attempt : TrimJob(k, n)
  \/ \E b \in BOOLEAN : SetActive(b)
  \/ DeleteWebhook

Spec == Init /\ [][Next]_vars

\* Calls go on and queued jobs are taken; nobody has to dispatch, replay or fail.
Fairness ==
  /\ \A d \in Disp : WF_vars(Dispatch(d))
  /\ \A e \in Exec : WF_vars(Execute(e))
  /\ \A k \in Key, n \in Attempt : WF_vars(\E e \in Exec : TakeJob(e, k, n))

FairSpec == Spec /\ Fairness

-----------------------------------------------------------------------------
Job == [state : {"none", "queued", "active", "done", "failed"},
        tracked : BOOLEAN, stalled : BOOLEAN]

\* Every variable has its type, and only the worker of an active job works on it.
TypeOK ==
  /\ hasAttempts \in Schemas
  /\ hook \in [status : {"active", "failed"}, is_active : BOOLEAN, exists : BOOLEAN]
  /\ row \in [Key -> [status : Status, attempted : BOOLEAN]]
  /\ job \in [Key -> [Attempt -> Job]]
  /\ exec \in [Exec -> [pc : {"idle", "validate", "post", "markSuccess", "trigger", "handleFailure",
                              "bury", "disable", "schedule", "enqueue", "return"},
                        key : Key, n : Attempt, by : {"job", "admin"}, tracked : BOOLEAN]]
  /\ disp \in [Disp -> [pc : {"idle", "select", "insert", "enqueue"}, key : Key, tracked : BOOLEAN]]
  /\ got \subseteq Key
  /\ tried \in [Key -> SUBSET Attempt]
  /\ cause \in [Key -> SUBSET Cause]
  /\ budget \in [DOMAIN Budget -> Nat]

\* An event is in the dead letters only after every rung of the ladder, the
\* first delivery and MAX_RETRIES retries, was posted: no lost race, stalled
\* job or replay shortens it (handleFailure).
DeadLetterClimbedTheLadder ==
  \A k \in Key : row[k].status = "dead_letter" => tried[k] = Attempt

Busy(k) ==
  \/ \E n \in Attempt : job[k][n].state \in {"queued", "active"} /\ job[k][n].tracked
  \/ \E e \in Exec : exec[e].pc # "idle" /\ exec[e].key = k /\ exec[e].tracked
  \/ \E d \in Disp : disp[d].pc # "idle" /\ disp[d].key = k

\* Received, or posted on every rung of the ladder.
Served(k) == k \in got \/ tried[k] = Attempt

\* An event owed and not yet served has a job or somebody at work on it, unless
\* one of the known causes has touched it: a failed query or queue call, a
\* refused URL, a job that stalled twice, a crash inside dispatch, a lost race
\* of two dispatches, a replay.  A crash of the workers alone loses no event.
OwedIsQueued ==
  \A k \in Key : row[k].status \in {"pending", "failed"} /\ ~Served(k) /\ cause[k] = {} => Busy(k)

\* The invariants of delivery (handleFailure and the queues).
DeliveryInv == TypeOK /\ OwedIsQueued

\* An event owed is served in the end, under the same exceptions.
OwedIsServed ==
  \A k \in Key : row[k].status \in {"pending", "failed"}
                   ~> Served(k) \/ row[k].status = "none" \/ cause[k] # {}

\* The rows and the receiver implement at-least-once delivery: an event whose
\* row says success was received, and no event is dead that was not owed.
Delivery == INSTANCE AtLeastOnce WITH
  Event   <- Key,
  promise <- [k \in Key |->
                CASE row[k].status = "none" -> "unknown"
                  [] row[k].status \in {"pending", "failed"} -> "owed"
                  [] row[k].status = "success" -> "delivered"
                  [] row[k].status = "dead_letter" -> "dead"],
  reached <- got

ImplementsAtLeastOnce == Delivery!Spec

\* A dead letter replayed in vain is back on the ladder ("securely queued back
\* onto exponential backoff cycle", retryDeadLetter).
ReplayIsRequeued ==
  \A k \in Key : row[k].status = "pending" /\ cause[k] = {"replay"} => Busy(k)
=============================================================================
