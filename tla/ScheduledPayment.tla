--------------------------- MODULE ScheduledPayment ---------------------------
(***************************************************************************)
(* Scheduled payments: the executor job that pays what is due, the job     *)
(* that sends reminders, and the requests by which users cancel and resume.*)
(* Requests and jobs read a row, await, and write it without looking at    *)
(* its status again.                                                       *)
(*                                                                         *)
(* The executor calls processPayment without senderTag, which throws: as   *)
(* the code stands every payment is PayRefused.  The other outcomes are    *)
(* those of a call that names its sender, as the executor is written for.  *)
(*                                                                         *)
(* Names that TagPayment has as well are prefixed or chosen apart          *)
(* (ScheduleNext, rows, Nil): TagPayment_proofs extends both.              *)
(***************************************************************************)
EXTENDS Naturals, FiniteSets

CONSTANTS
  Payment,
  Content,      \* sender, recipient, amount and asset: what processPayment derives its key from
  Requests,     \* how many requests to cancel or resume are made
  MaxFailures,
  Refusable,    \* payments that processPayment may refuse
  Announced,    \* payments with time for a reminder before they are due
  Faults,
  Nil

ASSUME ScheduledAssumption ==
  /\ DOMAIN Content = Payment /\ Nil \notin Payment
  /\ MaxFailures \in Nat \ {0} /\ Requests \in Nat /\ Faults \in Nat
  /\ Refusable \subseteq Payment /\ Announced \subseteq Payment

VARIABLES
  rows,      \* scheduled_payments; due: scheduled_at has come
  exec,      \* the executor: where it is, the rows it has read, the current one, the count read
  notifier,  \* the reminder job: the rows it has read and the one it has sent a reminder for
  call,      \* requests that have read a payment's row and not yet written it
  asked,     \* how many were made
  posted,    \* contents of completed transactions
  paid,      \* payments on the chain
  runs,      \* executions since the payment was created or resumed
  reminded,  \* reminders sent
  late,      \* what had read a payment when it was cancelled and may still write it
  cause,     \* faults a payment met
  faults

scheduleVars == <<rows, exec, notifier, call, asked, posted, paid, runs, reminded, late, cause, faults>>

Idle == [pc |-> "idle", list |-> {}, cur |-> Nil, count |-> 0]
Quiet == [pc |-> "idle", list |-> {}, cur |-> Nil]

ScheduleInit ==
  /\ rows     = [p \in Payment |-> [status |-> "none", due |-> FALSE, failures |-> 0, notified |-> FALSE]]
  /\ exec     = Idle
  /\ notifier = Quiet
  /\ call     = [p \in Payment |-> [cancel |-> 0, resume |-> 0]]
  /\ asked    = 0
  /\ posted   = {}
  /\ paid     = [p \in Payment |-> 0]
  /\ runs     = [p \in Payment |-> 0]
  /\ reminded = [p \in Payment |-> 0]
  /\ late     = [p \in Payment |-> {}]
  /\ cause    = [p \in Payment |-> {}]
  /\ faults   = Faults

Status(p, s) == rows' = [rows EXCEPT ![p].status = s]
Fault == faults > 0 /\ faults' = faults - 1
Blame(p, why) == Fault /\ cause' = [cause EXCEPT ![p] = @ \cup {why}]
ExecutorAt(pc) == exec.pc = pc
Goto(pc) == exec' = [exec EXCEPT !.pc = pc]

\* The rest of the list.
NextRow ==
  /\ exec' = [Idle EXCEPT !.pc = IF exec.list = {} THEN "idle" ELSE "next", !.list = exec.list]
  /\ late' = [late EXCEPT ![exec.cur] = @ \ {"executor"}]

\* Who has read p's row and may still write it.
AtWork(p) ==
  (IF p \in exec.list \cup {exec.cur} THEN {"executor"} ELSE {})
  \cup (IF call[p].resume > 0 THEN {"resume"} ELSE {})

-----------------------------------------------------------------------------
CreateScheduledPayment(p) ==
  /\ rows[p].status = "none"
  /\ Status(p, "pending")
  /\ UNCHANGED <<exec, notifier, call, asked, posted, paid, runs, reminded, late, cause, faults>>

\* scheduled_at passes.
ComesDue(p) ==
  /\ rows[p].status # "none" /\ ~rows[p].due
  /\ rows' = [rows EXCEPT ![p].due = TRUE]
  /\ UNCHANGED <<exec, notifier, call, asked, posted, paid, runs, reminded, late, cause, faults>>

-----------------------------------------------------------------------------
(* The executor *)

\* Mutant: a payment that failed once is not looked for.
TickFresh ==
  LET due == {p \in Payment : rows[p].status = "pending" /\ rows[p].due /\ rows[p].failures = 0} IN
  /\ ExecutorAt("idle") /\ due # {}
  /\ exec' = [Idle EXCEPT !.pc = "next", !.list = due]
  /\ UNCHANGED <<rows, notifier, call, asked, posted, paid, runs, reminded, late, cause, faults>>

\* Every 60 s: getDuePayments.
Tick ==
  LET due == {p \in Payment : rows[p].status = "pending" /\ rows[p].due} IN
  /\ ExecutorAt("idle") /\ due # {}
  /\ exec' = [Idle EXCEPT !.pc = "next", !.list = due]
  /\ UNCHANGED <<rows, notifier, call, asked, posted, paid, runs, reminded, late, cause, faults>>

\* The next payment of the list is marked as processing, whatever its row says now.
Mark(p) ==
  /\ ExecutorAt("next") /\ p \in exec.list
  /\ Status(p, "processing")
  /\ exec' = [exec EXCEPT !.pc = "pay", !.list = @ \ {p}, !.cur = p]
  /\ runs' = [runs EXCEPT ![p] = @ + 1]
  /\ UNCHANGED <<notifier, call, asked, posted, paid, reminded, late, cause, faults>>

MarkFails(p) ==
  /\ ExecutorAt("next") /\ p \in exec.list
  /\ Blame(p, "db")
  /\ exec' = [exec EXCEPT !.pc = "fail", !.list = @ \ {p}, !.cur = p]
  /\ UNCHANGED <<rows, notifier, call, asked, posted, paid, runs, reminded, late>>

\* Mutant: processPayment is not asked whether it has paid this before.
PayAlways ==
  /\ ExecutorAt("pay")
  /\ paid' = [paid EXCEPT ![exec.cur] = @ + 1]
  /\ posted' = posted \cup {Content[exec.cur]}
  /\ Goto("complete")
  /\ UNCHANGED <<rows, notifier, call, asked, runs, reminded, late, cause, faults>>

\* processPayment pays, or finds a completed payment with the same content.
Pay ==
  /\ ExecutorAt("pay")
  /\ IF Content[exec.cur] \in posted
     THEN UNCHANGED <<paid, posted>>
     ELSE /\ paid' = [paid EXCEPT ![exec.cur] = @ + 1]
          /\ posted' = posted \cup {Content[exec.cur]}
  /\ Goto("complete")
  /\ UNCHANGED <<rows, notifier, call, asked, runs, reminded, late, cause, faults>>

\* No signing key, no funds, no recipient; or no sender tag, which throws at once
\* and which the executor never passes.
PayRefused ==
  /\ ExecutorAt("pay")
  /\ exec.cur \in Refusable
  /\ Goto("fail")
  /\ UNCHANGED <<rows, notifier, call, asked, posted, paid, runs, reminded, late, cause, faults>>

\* Paid, but no answer came: processPayment throws and keeps no row.
PayUnanswered ==
  /\ ExecutorAt("pay") /\ Content[exec.cur] \notin posted
  /\ Blame(exec.cur, "unanswered")
  /\ paid' = [paid EXCEPT ![exec.cur] = @ + 1]
  /\ Goto("fail")
  /\ UNCHANGED <<rows, notifier, call, asked, posted, runs, reminded, late>>

\* Paid, but the UPDATE or COMMIT of the payment's row fails.  Without a recovery row
\* processPayment still reports success, unless its audit entries fail as well.
PayUnposted ==
  LET p == exec.cur IN
  /\ ExecutorAt("pay") /\ Content[p] \notin posted
  /\ paid' = [paid EXCEPT ![p] = @ + 1]
  /\ \/ Blame(p, "unposted") /\ UNCHANGED posted /\ \E pc \in {"complete", "fail"} : Goto(pc)
     \/ Blame(p, "db") /\ posted' = posted \cup {Content[p]} /\ Goto("fail")
  /\ UNCHANGED <<rows, notifier, call, asked, runs, reminded, late>>

Complete ==
  /\ ExecutorAt("complete")
  /\ rows' = [rows EXCEPT ![exec.cur].status = "completed", ![exec.cur].failures = 0]
  /\ NextRow
  /\ UNCHANGED <<notifier, call, asked, posted, paid, runs, reminded, cause, faults>>

\* The update fails: the payment is handled like one that was not made.
CompleteFails ==
  /\ ExecutorAt("complete")
  /\ Blame(exec.cur, "db")
  /\ Goto("fail")
  /\ UNCHANGED <<rows, notifier, call, asked, posted, paid, runs, reminded, late>>

\* recordFailure: the count is read ...
ReadCount ==
  /\ ExecutorAt("fail")
  /\ exec' = [exec EXCEPT !.pc = "record", !.count = rows[exec.cur].failures]
  /\ UNCHANGED <<rows, notifier, call, asked, posted, paid, runs, reminded, late, cause, faults>>

\* Mutant: the count is compared before it is incremented.
RecordFailureLate ==
  LET p == exec.cur IN
  /\ ExecutorAt("record")
  /\ rows' = IF exec.count >= MaxFailures
            THEN [rows EXCEPT ![p].status = "paused"]
            ELSE [rows EXCEPT ![p].status = "pending", ![p].failures = exec.count + 1, ![p].due = FALSE]
  /\ NextRow
  /\ UNCHANGED <<notifier, call, asked, posted, paid, runs, reminded, cause, faults>>

\* ... and written back: paused after MaxFailures, else pending again in 15 min.
RecordFailure ==
  LET p == exec.cur  n == exec.count + 1 IN
  /\ ExecutorAt("record")
  /\ rows' = IF n >= MaxFailures
            THEN [rows EXCEPT ![p].status = "paused", ![p].failures = n]
            ELSE [rows EXCEPT ![p].status = "pending", ![p].failures = n, ![p].due = FALSE]
  /\ NextRow
  /\ UNCHANGED <<notifier, call, asked, posted, paid, runs, reminded, cause, faults>>

\* A query in the catch block fails: the job ends, with the rest of its list.
CatchFails ==
  /\ exec.pc \in {"fail", "record"}
  /\ Blame(exec.cur, "db")
  /\ exec' = Idle
  /\ late' = [p \in Payment |-> late[p] \ {"executor"}]
  /\ UNCHANGED <<rows, notifier, call, asked, posted, paid, runs, reminded>>

-----------------------------------------------------------------------------
(* The reminders *)

\* Every 5 min: getUpcomingForNotification.
NotifierTick ==
  LET soon == {p \in Announced : rows[p].status = "pending" /\ ~rows[p].due /\ ~rows[p].notified} IN
  /\ notifier.pc = "idle" /\ soon # {}
  /\ notifier' = [Quiet EXCEPT !.pc = "next", !.list = soon]
  /\ UNCHANGED <<rows, exec, call, asked, posted, paid, runs, reminded, late, cause, faults>>

Remind(p) ==
  /\ notifier.pc = "next" /\ p \in notifier.list
  /\ reminded' = [reminded EXCEPT ![p] = @ + 1]
  /\ notifier' = [notifier EXCEPT !.pc = "note", !.list = @ \ {p}, !.cur = p]
  /\ UNCHANGED <<rows, exec, call, asked, posted, paid, runs, late, cause, faults>>

NotifierNext == notifier' = [Quiet EXCEPT !.pc = IF notifier.list = {} THEN "idle" ELSE "next",
                                          !.list = notifier.list]

Note ==
  /\ notifier.pc = "note"
  /\ rows' = [rows EXCEPT ![notifier.cur].notified = TRUE]
  /\ NotifierNext
  /\ UNCHANGED <<exec, call, asked, posted, paid, runs, reminded, late, cause, faults>>

NoteFails ==
  /\ notifier.pc = "note"
  /\ Blame(notifier.cur, "db")
  /\ NotifierNext
  /\ UNCHANGED <<rows, exec, call, asked, posted, paid, runs, reminded, late>>

-----------------------------------------------------------------------------
(* The requests *)

Asked(p, status) == asked < Requests /\ asked' = asked + 1 /\ rows[p].status = status

\* cancelScheduledPayment: only a pending payment can be cancelled ...
AskCancel(p) ==
  /\ Asked(p, "pending")
  /\ call' = [call EXCEPT ![p].cancel = @ + 1]
  /\ UNCHANGED <<rows, exec, notifier, posted, paid, runs, reminded, late, cause, faults>>

\* ... and the update does not look again.
Cancel(p) ==
  /\ call[p].cancel > 0
  /\ Status(p, "cancelled")
  /\ call' = [call EXCEPT ![p].cancel = @ - 1]
  /\ late' = IF rows[p].status = "cancelled" THEN late ELSE [late EXCEPT ![p] = AtWork(p)]
  /\ UNCHANGED <<exec, notifier, asked, posted, paid, runs, reminded, cause, faults>>

\* Mutant: a cancelled payment can be resumed as well.
AskResumeAny(p) ==
  /\ Asked(p, "paused") \/ Asked(p, "cancelled")
  /\ call' = [call EXCEPT ![p].resume = @ + 1]
  /\ UNCHANGED <<rows, exec, notifier, posted, paid, runs, reminded, late, cause, faults>>

\* resumeScheduledPayment: only a paused one.
AskResume(p) ==
  /\ Asked(p, "paused")
  /\ call' = [call EXCEPT ![p].resume = @ + 1]
  /\ UNCHANGED <<rows, exec, notifier, posted, paid, runs, reminded, late, cause, faults>>

Resume(p) ==
  /\ call[p].resume > 0
  /\ rows' = [rows EXCEPT ![p].status = "pending", ![p].failures = 0, ![p].due = TRUE]
  /\ call' = [call EXCEPT ![p].resume = @ - 1]
  /\ runs' = [runs EXCEPT ![p] = 0]
  /\ UNCHANGED <<exec, notifier, asked, posted, paid, reminded, late, cause, faults>>

\* The process dies.
SchedulerDies ==
  LET hit == {exec.cur, notifier.cur} \cap Payment IN
  /\ Fault /\ hit # {}
  /\ exec' = Idle /\ notifier' = Quiet
  /\ late' = [p \in Payment |-> {}]
  /\ call' = [p \in Payment |-> [cancel |-> 0, resume |-> 0]]
  /\ cause' = [p \in Payment |-> IF p \in hit THEN cause[p] \cup {"crash"} ELSE cause[p]]
  \* A payment may just have been made.
  /\ \E sent \in SUBSET ({exec.cur} \cap Payment) :
       /\ sent # {} => ExecutorAt("pay") /\ Content[exec.cur] \notin posted
       /\ paid' = [p \in Payment |-> IF p \in sent THEN paid[p] + 1 ELSE paid[p]]
  /\ UNCHANGED <<rows, asked, posted, runs, reminded>>

-----------------------------------------------------------------------------
Executor ==
  \/ Tick \/ Pay \/ PayRefused \/ Complete \/ ReadCount \/ RecordFailure
  \/ \E p \in Payment : Mark(p)
ExecutorGoesWrong ==
  \/ PayUnanswered \/ PayUnposted \/ CompleteFails \/ CatchFails
  \/ \E p \in Payment : MarkFails(p)
Notifier == NotifierTick \/ Note \/ \E p \in Payment : Remind(p)
Answers == \E p \in Payment : Cancel(p) \/ Resume(p)
Users == \E p \in Payment : CreateScheduledPayment(p) \/ AskCancel(p) \/ AskResume(p)

ScheduleProgress == Executor \/ Notifier \/ Answers \/ \E p \in Payment : ComesDue(p)

ScheduleNext == ScheduleProgress \/ Users \/ ExecutorGoesWrong \/ NoteFails \/ SchedulerDies

ScheduleSpec == ScheduleInit /\ [][ScheduleNext]_scheduleVars

\* The repeated jobs come, every awaited call returns, and time passes.
FairScheduleSpec == ScheduleSpec /\ WF_scheduleVars(ScheduleProgress)

-----------------------------------------------------------------------------
(* Properties *)

\* Every variable has its type; a count of failures never passes MaxFailures.
ScheduleTypeOK ==
  /\ rows \in [Payment -> [status: {"none", "pending", "processing", "completed", "paused", "cancelled"},
                          due: BOOLEAN, failures: 0..MaxFailures, notified: BOOLEAN]]
  /\ exec \in [pc: {"idle", "next", "pay", "complete", "fail", "record"}, list: SUBSET Payment,
               cur: Payment \cup {Nil}, count: 0..MaxFailures]
  /\ notifier \in [pc: {"idle", "next", "note"}, list: SUBSET Payment, cur: Payment \cup {Nil}]
  /\ call \in [Payment -> [cancel: 0..Requests, resume: 0..Requests]]
  /\ asked \in 0..Requests
  /\ late \in [Payment -> SUBSET {"executor", "resume"}]
  /\ cause \in [Payment -> SUBSET {"db", "unposted", "unanswered", "crash"}]
  /\ faults \in 0..Faults

\* A scheduled payment is paid once, however often it is tried, resumed and its
\* outcome not recorded: twice only if an answer was lost, no row could be kept of
\* the payment or the process died while it was paid.
PaidOnce ==
  \A p \in Payment : paid[p] > 1 => cause[p] \cap {"unposted", "unanswered", "crash"} # {}

\* After MaxFailures failed executions in a row, and not before, the user has to
\* resume, although the count is read and written back around other requests.  A
\* second resume in the middle of an execution alone may make it early.
GivesUp ==
  \A p \in Payment :
    /\ runs[p] <= MaxFailures
    /\ rows[p].status = "paused" => runs[p] = MaxFailures \/ "db" \in cause[p] \/ asked > 1

\* A row marked as processing is the one the executor is paying, unless the
\* database failed or the process died then: nothing else leaves one behind.
ProcessingIsRunning ==
  \A p \in Payment : rows[p].status = "processing" => exec.cur = p \/ cause[p] # {}

\* A cancelled payment is revived or paid by nothing but what had read its row
\* before it was cancelled and is not through with it: the executor's run that has
\* it in its list, which may pay it and overwrites the cancellation with what
\* became of it, or a request to resume it.  Once those are through and it is still
\* cancelled, it stays so for good.
CancelIsFinal ==
  [][\A p \in Payment : rows[p].status = "cancelled" =>
       /\ rows'[p].status # "cancelled" => late[p] # {}
       /\ paid'[p] > paid[p] => "executor" \in late[p]]_scheduleVars

\* A payment is announced once, unless noting it failed.
RemindedOnce == \A p \in Payment : reminded[p] > 1 => cause[p] # {}

\* What the rows say.
ScheduleInv == ScheduleTypeOK /\ GivesUp /\ ProcessingIsRunning /\ RemindedOnce

\* A scheduled payment is executed, cancelled or paused in the end.  One that was
\* processing when the process died or the database failed stays so for ever.
EveryPaymentEnds ==
  \A p \in Payment : rows[p].status = "pending" ~>
    rows[p].status \in {"completed", "cancelled", "paused"} \/ cause[p] # {}
=============================================================================
