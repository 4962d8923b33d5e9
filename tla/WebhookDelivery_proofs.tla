------------------------ MODULE WebhookDelivery_proofs ------------------------
(***************************************************************************)
(* Theorems about WebhookDelivery for any events, workers, dispatchers,    *)
(* ladder height and budgets.                                              *)
(*                                                                         *)
(* The argument: a job for the n-th retry, and whoever executes it, exists *)
(* only when all rungs below n were posted, since it is added by the one   *)
(* who posted rung n - 1; and a delivery is recorded as successful only by *)
(* an execution that has the receiver's answer.  Once a rung of an event   *)
(* is known, that rung or a higher one waits in the queue or has a worker, *)
(* so that no crash of the workers alone loses an event that is owed.      *)
(***************************************************************************)
EXTENDS WebhookDelivery, TLAPS

\* Every rung below n has been posted for event k.
ClimbedTo(k, n) == \A m \in Attempt : m < n => m \in tried[k]

Posted == {"markSuccess", "trigger", "handleFailure", "bury", "disable", "schedule",
           "enqueue", "return"}

\* Where an execution stands tells which rungs are behind it.
OnLadder(e) ==
  LET x == exec[e] IN
  x.pc # "idle" =>
    /\ ClimbedTo(x.key, x.n)
    /\ x.pc \in Posted => x.n \in tried[x.key]
    /\ x.pc \in {"bury", "disable"} => x.n = MaxRetries
    /\ x.pc \in {"schedule", "enqueue"} => x.n < MaxRetries
    /\ x.pc \in {"markSuccess", "trigger"} => x.key \in got

LadderInv ==
  /\ \A e \in Exec : OnLadder(e)
  /\ \A k \in Key, n \in Attempt : job[k][n].state # "none" => ClimbedTo(k, n)
  /\ DeadLetterClimbedTheLadder

Inv == TypeOK /\ LadderInv

\* Posted to the end or received, or something was noted that can cost k its job.
Settled(k) == Served(k) \/ cause[k] # {}

\* Rung n of event k is waiting, or a worker that will see to it is on it.
Pending(k, n) ==
  \/ job[k][n].state = "queued"
  \/ \E e \in Exec : /\ exec[e].pc \notin {"idle", "return"} /\ exec[e].by = "job"
                     /\ exec[e].key = k /\ exec[e].n = n

Known(k, n)   == n \in tried[k] \/ job[k][n].state # "none"
Enqueueing(k) == \E d \in Disp : disp[d].pc = "enqueue" /\ disp[d].key = k

\* A worker is on an active job, an admin on an event that was replayed.
WorkersHaveJobs ==
  \A e \in Exec : exec[e].pc # "idle" =>
    LET j == job[exec[e].key][exec[e].n] IN
    IF exec[e].by = "job" THEN j.state = "active" /\ j.tracked = exec[e].tracked
                          ELSE cause[exec[e].key] # {}

OneWorkerPerJob ==
  \A e, d \in Exec :
    /\ exec[e].pc # "idle" /\ exec[d].pc # "idle"
    /\ exec[e].by = "job" /\ exec[d].by = "job"
    /\ exec[e].key = exec[d].key /\ exec[e].n = exec[d].n
    => e = d

UntrackedIsBlamed ==
  /\ \A k \in Key, n \in Attempt :
       job[k][n].state # "none" /\ ~job[k][n].tracked => cause[k] # {}
  /\ \A d \in Disp : disp[d].pc # "idle" /\ ~disp[d].tracked => cause[disp[d].key] # {}

\* Whatever rung is known, that one or a higher one is still seen to.
ClimbGoesOn ==
  \A k \in Key, n \in Attempt :
    Known(k, n) => Settled(k) \/ \E m \in n..MaxRetries : Pending(k, m)

\* A recorded event is seen to on some rung, or about to be added to the queue.
RecordedIsSeenTo ==
  \A k \in Key : row[k].status # "none" =>
    Settled(k) \/ Enqueueing(k) \/ \E m \in Attempt : Pending(k, m)

QueueInv ==
  WorkersHaveJobs /\ OneWorkerPerJob /\ UntrackedIsBlamed /\ ClimbGoesOn /\ RecordedIsSeenTo

-----------------------------------------------------------------------------
(* Types *)

ExecRecord ==
  [pc : {"idle", "validate", "post"} \cup Posted,
   key : Key, n : Attempt, by : {"job", "admin"}, tracked : BOOLEAN]
DispRecord == [pc : {"idle", "select", "insert", "enqueue"}, key : Key, tracked : BOOLEAN]
RowRecord == [status : Status, attempted : BOOLEAN]
HookRecord == [status : {"active", "failed"}, is_active : BOOLEAN, exists : BOOLEAN]

\* Someone is there to deliver an event, so there is one.
LEMMA RestingType ==
  ASSUME NEW k \in Key
  PROVE  Resting \in ExecRecord /\ Silent \in DispRecord /\ Resting.pc = "idle"
<1>1. (CHOOSE i \in Key : TRUE) \in Key
  OBVIOUS
<1>2. 0 \in Attempt
  BY WebhookAssumption DEF Attempt
<1> QED
  BY <1>1, <1>2 DEF Resting, Silent, ExecRecord, DispRecord

LEMMA SpendType ==
  ASSUME TypeOK, NEW f \in {"crash", "fault", "dispatch", "outside"}, Spend(f)
  PROVE  budget' \in [DOMAIN Budget -> Nat]
<1>1. DOMAIN Budget = {"crash", "fault", "dispatch", "outside"}
  BY WebhookAssumption
<1>2. budget[f] \in Nat /\ budget[f] > 0
  BY <1>1 DEF TypeOK, Spend
<1> QED
  BY <1>1, <1>2 DEF TypeOK, Spend

LEMMA BlameType ==
  ASSUME TypeOK, NEW k \in Key, NEW c \in Cause, Blame(k, c)
  PROVE  cause' \in [Key -> SUBSET Cause]
BY DEF TypeOK, Blame

LEMMA SetRowType ==
  ASSUME TypeOK, NEW k \in Key, NEW st \in Status, NEW b \in BOOLEAN, SetRow(k, st, b)
  PROVE  /\ row' \in [Key -> RowRecord]
         /\ \A i \in Key \ {k} : row'[i] = row[i]
         /\ row'[k].status = IF row[k].status = "none" THEN "none" ELSE st
<1>1. row[k] \in RowRecord
  BY DEF TypeOK, RowRecord
<1>2. [status |-> st, attempted |-> row[k].attempted \/ b] \in RowRecord
  BY <1>1 DEF RowRecord
<1> QED
  BY <1>1, <1>2 DEF TypeOK, SetRow, RowRecord

\* One job changes, the others stay.
LEMMA SetJobType ==
  ASSUME TypeOK, NEW k \in Key, NEW n \in Attempt, NEW j \in Job,
         job' = [job EXCEPT ![k] = [@ EXCEPT ![n] = j]]
  PROVE  /\ job' \in [Key -> [Attempt -> Job]]
         /\ \A i \in Key, m \in Attempt : job'[i][m] = job[i][m] \/ (i = k /\ m = n)
<1>1. job \in [Key -> [Attempt -> Job]]
  BY DEF TypeOK
<1>2. [job[k] EXCEPT ![n] = j] \in [Attempt -> Job]
  BY <1>1
<1>3. job'[k] = [job[k] EXCEPT ![n] = j] /\ \A i \in Key \ {k} : job'[i] = job[i]
  BY <1>1
<1>4. job' \in [Key -> [Attempt -> Job]]
  BY <1>1, <1>2
<1>5. \A m \in Attempt \ {n} : job'[k][m] = job[k][m]
  BY <1>1, <1>3
<1> QED
  BY <1>3, <1>4, <1>5

LEMMA AddJobType ==
  ASSUME TypeOK, NEW k \in Key, NEW n \in Attempt, NEW tr \in BOOLEAN, AddJob(k, n, tr)
  PROVE  /\ job' \in [Key -> [Attempt -> Job]]
         /\ \A i \in Key, m \in Attempt : job'[i][m] = job[i][m] \/ (i = k /\ m = n)
<1>1. [state |-> "queued", tracked |-> tr, stalled |-> FALSE] \in Job
  BY DEF Job
<1>2. CASE job' = job
  BY <1>2 DEF TypeOK
<1>3. CASE job' = [job EXCEPT ![k] = [@ EXCEPT ![n] =
                    [state |-> "queued", tracked |-> tr, stalled |-> FALSE]]]
  BY <1>1, <1>3, SetJobType
<1> QED
  BY <1>2, <1>3 DEF AddJob

LEMMA SetStateType ==
  ASSUME TypeOK, NEW k \in Key, NEW n \in Attempt,
         NEW st \in {"none", "queued", "active", "done", "failed"},
         job' = [job EXCEPT ![k][n].state = st]
  PROVE  /\ job' \in [Key -> [Attempt -> Job]]
         /\ \A i \in Key, m \in Attempt : job'[i][m] = job[i][m] \/ (i = k /\ m = n)
<1> DEFINE j == [job[k][n] EXCEPT !.state = st]
<1>1. job[k][n] \in Job
  BY DEF TypeOK
<1>2. j \in Job
  BY <1>1 DEF Job
<1>3. job' = [job EXCEPT ![k] = [@ EXCEPT ![n] = j]]
  OBVIOUS
<1> HIDE DEF j
<1>4. job \in [Key -> [Attempt -> Job]]
  BY DEF TypeOK
<1>5. [job[k] EXCEPT ![n] = j] \in [Attempt -> Job]
  BY <1>2, <1>4
<1>6. job'[k] = [job[k] EXCEPT ![n] = j] /\ \A i \in Key \ {k} : job'[i] = job[i]
  BY <1>3, <1>4
<1>7. job' \in [Key -> [Attempt -> Job]]
  BY <1>3, <1>4, <1>5
<1>8. \A m \in Attempt \ {n} : job'[k][m] = job[k][m]
  BY <1>4, <1>6
<1> QED
  BY <1>6, <1>7, <1>8

LEMMA Stepping ==
  ASSUME TypeOK, NEW e \in Exec, NEW next \in {"idle", "validate", "post"} \cup Posted,
         Step(e, next)
  PROVE  /\ exec' \in [Exec -> ExecRecord]
         /\ exec'[e].pc = next /\ exec'[e].key = exec[e].key /\ exec'[e].n = exec[e].n
         /\ \A d \in Exec \ {e} : exec'[d] = exec[d]
<1>1. exec \in [Exec -> ExecRecord]
  BY DEF TypeOK, ExecRecord, Posted
<1> QED
  BY <1>1 DEF Step, ExecRecord

LEMMA Finishing ==
  ASSUME TypeOK, NEW e \in Exec, NEW how \in {"done", "failed"}, Finish(e, how),
         exec[e].pc # "idle"
  PROVE  /\ exec' \in [Exec -> ExecRecord]
         /\ exec'[e].pc = "idle"
         /\ \A d \in Exec \ {e} : exec'[d] = exec[d]
         /\ job' \in [Key -> [Attempt -> Job]]
         /\ \A k \in Key, n \in Attempt :
              job'[k][n] = job[k][n] \/ (k = exec[e].key /\ n = exec[e].n)
<1>1. exec \in [Exec -> ExecRecord] /\ exec[e].key \in Key /\ exec[e].n \in Attempt
  BY DEF TypeOK, ExecRecord, Posted
<1>2. exec' = [exec EXCEPT ![e] = Resting] /\ Resting \in ExecRecord /\ Resting.pc = "idle"
  BY <1>1, RestingType DEF Finish
<1>3. CASE exec[e].by = "job"
  <2>1. job' = [job EXCEPT ![exec[e].key][exec[e].n].state = how]
    BY <1>3 DEF Finish
  <2> QED
    BY <1>1, <1>2, <2>1, SetStateType
<1>4. CASE exec[e].by # "job"
  <2>1. job' = job /\ job \in [Key -> [Attempt -> Job]]
    BY <1>4 DEF Finish, TypeOK
  <2> QED
    BY <1>1, <1>2, <2>1
<1> QED
  BY <1>3, <1>4

\* Each variable may be shown to keep its type on its own.
LEMMA TypesBut ==
  ASSUME TypeOK, hasAttempts' = hasAttempts,
         hook' \in HookRecord, row' \in [Key -> RowRecord], job' \in [Key -> [Attempt -> Job]],
         exec' \in [Exec -> ExecRecord], disp' \in [Disp -> DispRecord],
         got' \subseteq Key, tried' \in [Key -> SUBSET Attempt],
         cause' \in [Key -> SUBSET Cause], budget' \in [DOMAIN Budget -> Nat]
  PROVE  TypeOK'
BY DEF TypeOK, HookRecord, RowRecord, ExecRecord, DispRecord, Posted

\* The same facts of the state before.
LEMMA Types ==
  ASSUME TypeOK
  PROVE  /\ hook \in HookRecord /\ row \in [Key -> RowRecord]
         /\ job \in [Key -> [Attempt -> Job]]
         /\ exec \in [Exec -> ExecRecord] /\ disp \in [Disp -> DispRecord]
         /\ got \subseteq Key /\ tried \in [Key -> SUBSET Attempt]
         /\ cause \in [Key -> SUBSET Cause] /\ budget \in [DOMAIN Budget -> Nat]
BY DEF TypeOK, HookRecord, RowRecord, ExecRecord, DispRecord, Posted

\* What a step may change on the ladder.
LEMMA Ladder ==
  ASSUME Inv, TypeOK',
         \A k \in Key : tried[k] \subseteq tried'[k], got \subseteq got',
         \A e \in Exec : exec'[e] = exec[e] \/ OnLadder(e)',
         \A k \in Key, n \in Attempt :
           job'[k][n].state = "none" \/ job[k][n].state # "none" \/ ClimbedTo(k, n)',
         \A k \in Key :
           row'[k].status = "dead_letter"
             => row[k].status = "dead_letter" \/ tried'[k] = Attempt
  PROVE  Inv'
<1>1. \A k \in Key, n \in Attempt : ClimbedTo(k, n) => ClimbedTo(k, n)'
  BY DEF ClimbedTo
<1>2. \A e \in Exec : OnLadder(e)'
  <2> SUFFICES ASSUME NEW e \in Exec, exec'[e] = exec[e] PROVE OnLadder(e)'
    OBVIOUS
  <2>1. exec[e].key \in Key /\ exec[e].n \in Attempt
    BY DEF Inv, TypeOK
  <2>2. OnLadder(e)
    BY DEF Inv, LadderInv
  <2> QED
    BY <1>1, <2>1, <2>2 DEF OnLadder
<1>3. \A k \in Key, n \in Attempt : job'[k][n].state # "none" => ClimbedTo(k, n)'
  BY <1>1 DEF Inv, LadderInv
<1>4. DeadLetterClimbedTheLadder'
  <2> SUFFICES ASSUME NEW k \in Key, row'[k].status = "dead_letter" PROVE tried'[k] = Attempt
    BY DEF DeadLetterClimbedTheLadder
  <2>1. CASE row[k].status = "dead_letter"
    <3>1. tried[k] = Attempt
      BY <2>1 DEF Inv, LadderInv, DeadLetterClimbedTheLadder
    <3>2. tried'[k] \subseteq Attempt
      BY DEF TypeOK
    <3> QED
      BY <3>1, <3>2
  <2> QED
    BY <2>1
<1> QED
  BY <1>2, <1>3, <1>4 DEF Inv, LadderInv

-----------------------------------------------------------------------------
(* The ladder, one step of a dispatcher or an execution at a time *)

LEMMA DispatchKeeps ==
  ASSUME Inv, NEW d \in Disp,
         \/ Dispatch(d) \/ InsertFails(d) \/ EnqueueEventFails(d)
         \/ \E k \in Key : FindActive(d, k)
  PROVE  Inv'
<1> DEFINE k == disp[d].key
<1> USE Types DEF Inv
<1>1. k \in Key /\ disp[d].tracked \in BOOLEAN /\ Silent \in DispRecord
  BY RestingType DEF DispRecord
<1>2. disp' \in [Disp -> DispRecord]
  <2>1. CASE disp' = [disp EXCEPT ![d] = Silent]
    BY <1>1, <2>1
  <2>2. CASE \E pc \in {"insert", "enqueue"} :
               \/ disp' = [disp EXCEPT ![d].pc = pc]
               \/ disp' = [disp EXCEPT ![d].pc = pc, ![d].tracked = FALSE]
    BY <2>2 DEF DispRecord
  <2>3. CASE \E i \in Key :
               disp' = [disp EXCEPT ![d] = [pc |-> "select", key |-> i, tracked |-> TRUE]]
    BY <2>3 DEF DispRecord
  <2> QED
    BY <2>1, <2>2, <2>3
    DEF Dispatch, InsertFails, EnqueueEventFails, FindActive, SelectEvent, InsertEvent,
        InsertRefused, EnqueueEvent
<1>3. /\ row' \in [Key -> RowRecord]
      /\ \A i \in Key : row'[i].status = "dead_letter" => row[i].status = "dead_letter"
  <2>1. CASE row' = row
    BY <2>1
  <2>2. CASE row' = [row EXCEPT ![k] = [status |-> "pending", attempted |-> FALSE]]
    BY <1>1, <2>2 DEF RowRecord, Status
  <2> QED
    BY <2>1, <2>2
    DEF Dispatch, InsertFails, EnqueueEventFails, FindActive, SelectEvent, InsertEvent,
        InsertRefused, EnqueueEvent
<1>4. /\ job' \in [Key -> [Attempt -> Job]]
      /\ \A i \in Key, n \in Attempt : job'[i][n] = job[i][n] \/ n = 0
  <2>1. CASE EnqueueEvent(d)
    <3>1. AddJob(k, 0, disp[d].tracked) /\ 0 \in Attempt
      BY <2>1, WebhookAssumption DEF EnqueueEvent, Attempt
    <3> QED
      BY <1>1, <3>1, AddJobType
  <2>2. CASE ~EnqueueEvent(d)
    BY <2>2 DEF Dispatch, InsertFails, EnqueueEventFails, FindActive, SelectEvent, InsertEvent,
                InsertRefused
  <2> QED
    BY <2>1, <2>2
<1>5. cause' \in [Key -> SUBSET Cause]
  <2>1. CASE cause' = cause
    BY <2>1
  <2>2. CASE \E c \in Cause : Blame(k, c)
    BY <1>1, <2>2, BlameType
  <2> QED
    BY <2>1, <2>2
    DEF Dispatch, InsertFails, EnqueueEventFails, FindActive, SelectEvent, InsertEvent,
        InsertRefused, EnqueueEvent, Cause
<1>6. budget' \in [DOMAIN Budget -> Nat]
  BY SpendType
  DEF Dispatch, InsertFails, EnqueueEventFails, FindActive, SelectEvent, InsertEvent,
      InsertRefused, EnqueueEvent
<1>7. UNCHANGED <<hasAttempts, hook, exec, got, tried>>
  BY DEF Dispatch, InsertFails, EnqueueEventFails, FindActive, SelectEvent, InsertEvent,
         InsertRefused, EnqueueEvent
<1>8. TypeOK'
  BY <1>2, <1>3, <1>4, <1>5, <1>6, <1>7, TypesBut
<1>9. \A i \in Key : ClimbedTo(i, 0)'
  BY DEF ClimbedTo, Attempt
<1> QED
  BY <1>3, <1>4, <1>7, <1>8, <1>9, Ladder

\* A job is taken on the rung it was added for.
LEMMA TakeJobKeeps ==
  ASSUME Inv, NEW e \in Exec, NEW k \in Key, NEW n \in Attempt, TakeJob(e, k, n)
  PROVE  Inv'
<1> USE Types DEF Inv
<1>1. ClimbedTo(k, n)
  BY DEF TakeJob, LadderInv
<1>2. /\ exec' \in [Exec -> ExecRecord]
      /\ exec'[e].pc \in {"validate", "post"} /\ exec'[e].key = k /\ exec'[e].n = n
      /\ \A d \in Exec \ {e} : exec'[d] = exec[d]
  BY DEF TakeJob, ExecRecord, Job
<1>3. /\ job' \in [Key -> [Attempt -> Job]]
      /\ \A i \in Key, m \in Attempt : job'[i][m] = job[i][m] \/ (i = k /\ m = n)
  <2>1. job' = [job EXCEPT ![k][n].state = "active"]
    BY DEF TakeJob
  <2> QED
    BY <2>1, SetStateType
<1>4. TypeOK'
  BY <1>2, <1>3, TypesBut DEF TakeJob
<1>5. OnLadder(e)' /\ ClimbedTo(k, n)'
  BY <1>1, <1>2 DEF OnLadder, ClimbedTo, Posted, TakeJob
<1> QED
  BY <1>2, <1>3, <1>4, <1>5, Ladder DEF TakeJob

\* A replay starts on the lowest rung.
LEMMA ReplayKeeps ==
  ASSUME Inv, NEW e \in Exec, NEW k \in Key, ReplayDeadLetter(e, k)
  PROVE  Inv'
<1> USE Types DEF Inv
<1>1. 0 \in Attempt
  BY WebhookAssumption DEF Attempt
<1>2. /\ exec' \in [Exec -> ExecRecord]
      /\ exec'[e].pc = "post" /\ exec'[e].key = k /\ exec'[e].n = 0
      /\ \A d \in Exec \ {e} : exec'[d] = exec[d]
  BY <1>1 DEF ReplayDeadLetter, ExecRecord
<1>3. TypeOK'
  BY <1>2, TypesBut, SpendType, BlameType DEF ReplayDeadLetter, Cause
<1>4. OnLadder(e)'
  BY <1>2 DEF OnLadder, ClimbedTo, Posted, Attempt
<1> QED
  BY <1>2, <1>3, <1>4, Ladder DEF ReplayDeadLetter

\* What Inv says of an execution under way.
LEMMA AtRung ==
  ASSUME Inv, NEW e \in Exec, exec[e].pc # "idle"
  PROVE  /\ exec[e].key \in Key /\ exec[e].n \in Attempt /\ exec[e].tracked \in BOOLEAN
         /\ ClimbedTo(exec[e].key, exec[e].n)
         /\ exec[e].pc \in Posted => exec[e].n \in tried[exec[e].key]
         /\ exec[e].pc \in {"bury", "disable"} => exec[e].n = MaxRetries
         /\ exec[e].pc \in {"schedule", "enqueue"} => exec[e].n < MaxRetries
         /\ exec[e].pc \in {"markSuccess", "trigger"} => exec[e].key \in got
BY DEF Inv, LadderInv, OnLadder, TypeOK

\* An execution that ends leaves the ladder.
LEMMA FinishKeeps ==
  ASSUME Inv, NEW e \in Exec, NEW how \in {"done", "failed"}, Finish(e, how),
         exec[e].pc # "idle",
         UNCHANGED <<hasAttempts, hook, row, disp, got, tried>>,
         cause' \in [Key -> SUBSET Cause], budget' \in [DOMAIN Budget -> Nat]
  PROVE  Inv'
<1> USE Types DEF Inv
<1>1. /\ exec' \in [Exec -> ExecRecord] /\ exec'[e].pc = "idle"
      /\ \A d \in Exec \ {e} : exec'[d] = exec[d]
      /\ job' \in [Key -> [Attempt -> Job]]
      /\ \A k \in Key, n \in Attempt :
           job'[k][n] = job[k][n] \/ (k = exec[e].key /\ n = exec[e].n)
  BY Finishing
<1>2. TypeOK'
  BY <1>1, TypesBut
<1>3. \A m \in Attempt : m < exec[e].n => m \in tried'[exec[e].key]
  BY AtRung DEF ClimbedTo
<1>4. OnLadder(e)'
  BY <1>1 DEF OnLadder
<1>5. \A k \in Key, n \in Attempt :
        job'[k][n].state = "none" \/ job[k][n].state # "none" \/ ClimbedTo(k, n)'
  BY <1>1, <1>3 DEF ClimbedTo
<1> QED
  BY <1>1, <1>2, <1>4, <1>5, Ladder

\* An execution that moves on, having left jobs alone, keeps its rung.
LEMMA StepKeeps ==
  ASSUME Inv, NEW e \in Exec, NEW next \in Posted \cup {"post"}, Step(e, next),
         exec[e].pc # "idle",
         UNCHANGED <<hasAttempts, job, disp>>,
         hook' \in HookRecord, row' \in [Key -> RowRecord],
         \A k \in Key :
           row'[k].status = "dead_letter"
             => row[k].status = "dead_letter" \/ tried[k] = Attempt,
         got \subseteq got', got' \subseteq Key,
         tried' \in [Key -> SUBSET Attempt], \A k \in Key : tried[k] \subseteq tried'[k],
         cause' \in [Key -> SUBSET Cause], budget' \in [DOMAIN Budget -> Nat],
         next \in Posted => exec[e].n \in tried'[exec[e].key],
         next \in {"bury", "disable"} => exec[e].n = MaxRetries,
         next \in {"schedule", "enqueue"} => exec[e].n < MaxRetries,
         next \in {"markSuccess", "trigger"} => exec[e].key \in got'
  PROVE  Inv'
<1> USE Types DEF Inv
<1>1. /\ exec' \in [Exec -> ExecRecord]
      /\ exec'[e].pc = next /\ exec'[e].key = exec[e].key /\ exec'[e].n = exec[e].n
      /\ \A d \in Exec \ {e} : exec'[d] = exec[d]
  BY Stepping
<1>2. TypeOK'
  BY <1>1, TypesBut
<1>3. \A m \in Attempt : m < exec[e].n => m \in tried'[exec[e].key]
  BY AtRung DEF ClimbedTo
<1>4. OnLadder(e)'
  BY <1>1, <1>3 DEF OnLadder, ClimbedTo
<1>5. \A k \in Key :
        row'[k].status = "dead_letter" => row[k].status = "dead_letter" \/ tried'[k] = Attempt
  <2> SUFFICES ASSUME NEW k \in Key, row'[k].status = "dead_letter",
                      row[k].status # "dead_letter"
               PROVE  tried'[k] = Attempt
    OBVIOUS
  <2>1. tried[k] = Attempt /\ tried[k] \subseteq tried'[k] /\ tried'[k] \subseteq Attempt
    OBVIOUS
  <2> QED
    BY <2>1
<1> QED
  BY <1>1, <1>2, <1>4, <1>5, Ladder

-----------------------------------------------------------------------------
(* Each action of an execution *)

LEMMA ValidateUrlKeeps ==
  ASSUME Inv, NEW e \in Exec, ValidateUrl(e) PROVE Inv'
<1> USE Types DEF Inv
<1>1. CASE Step(e, "post") /\ UNCHANGED <<job, cause, budget>>
  BY <1>1, StepKeeps DEF ValidateUrl, Posted
<1>2. CASE Spend("fault") /\ Finish(e, "failed") /\ Blame(exec[e].key, "url")
  <2>1. exec[e].key \in Key
    BY DEF ExecRecord
  <2>2. cause' \in [Key -> SUBSET Cause] /\ budget' \in [DOMAIN Budget -> Nat]
    BY <1>2, <2>1, BlameType, SpendType DEF Cause
  <2> QED
    BY <1>2, <2>2, FinishKeeps DEF ValidateUrl
<1> QED
  BY <1>1, <1>2 DEF ValidateUrl

\* The rung is posted before anything else is done about it.
LEMMA PostEventKeeps ==
  ASSUME Inv, NEW e \in Exec, PostEvent(e) PROVE Inv'
<1> DEFINE k == exec[e].key
           n == exec[e].n
<1> USE Types DEF Inv
<1>1. k \in Key /\ n \in Attempt /\ exec[e].pc = "post"
  BY DEF ExecRecord, PostEvent
<1>2. /\ tried' \in [Key -> SUBSET Attempt] /\ n \in tried'[k]
      /\ \A i \in Key : tried[i] \subseteq tried'[i]
  BY <1>1 DEF PostEvent
<1>3. got \subseteq got' /\ got' \subseteq Key
  BY <1>1 DEF PostEvent
<1>4. PICK next \in {"markSuccess", "trigger", "handleFailure"} :
        Step(e, next) /\ (next \in {"markSuccess", "trigger"} => k \in got')
  BY DEF PostEvent
<1> QED
  BY <1>1, <1>2, <1>3, <1>4, StepKeeps DEF PostEvent, Posted

\* nextAttempt > MAX_RETRIES on the last rung only.
LEMMA Rungs ==
  ASSUME NEW n \in Attempt
  PROVE  (n + 1 > MaxRetries => n = MaxRetries) /\ (~(n + 1 > MaxRetries) => n < MaxRetries)
BY WebhookAssumption DEF Attempt

\* Executions that go on without a rung of their own being posted.
LEMMA RecordKeeps ==
  ASSUME Inv, NEW e \in Exec,
         MarkSuccess(e) \/ RecordingFails(e) \/ MarkFailed(e) \/ DisableWebhook(e)
           \/ ScheduleRetry(e) \/ MarkDeadLetter(e)
  PROVE  Inv'
<1> DEFINE k == exec[e].key
           n == exec[e].n
<1> USE Types DEF Inv
<1>1. /\ exec[e].pc # "idle" /\ exec[e].pc \in Posted
  BY DEF MarkSuccess, RecordingFails, MarkFailed, DisableWebhook, ScheduleRetry,
         MarkDeadLetter,
         Posted
<1>2. /\ k \in Key /\ n \in Attempt /\ n \in tried[k] /\ ClimbedTo(k, n)
      /\ exec[e].pc = "bury" => n = MaxRetries
      /\ exec[e].pc = "schedule" => n < MaxRetries
      /\ exec[e].pc = "markSuccess" => k \in got
  BY <1>1, AtRung
<1>3. PICK next \in {"trigger", "handleFailure", "bury", "schedule", "disable", "enqueue",
                    "return"} :
        /\ Step(e, next)
        /\ next = "bury" => MarkFailed(e) /\ n + 1 > MaxRetries
        /\ next = "schedule" => MarkFailed(e) /\ ~(n + 1 > MaxRetries)
        /\ next = "enqueue" => ScheduleRetry(e)
        /\ next = "disable" => MarkDeadLetter(e)
        /\ next = "trigger" => MarkSuccess(e)
  BY DEF MarkSuccess, RecordingFails, MarkFailed, DisableWebhook, ScheduleRetry, MarkDeadLetter
<1>4. /\ next \in {"bury", "disable"} => n = MaxRetries
      /\ next \in {"schedule", "enqueue"} => n < MaxRetries
      /\ next = "trigger" => k \in got
  <2>1. /\ ScheduleRetry(e) => n < MaxRetries
        /\ MarkDeadLetter(e) => n = MaxRetries
        /\ MarkSuccess(e) => k \in got
    BY <1>2 DEF ScheduleRetry, MarkDeadLetter, MarkSuccess
  <2>2. (n + 1 > MaxRetries => n = MaxRetries) /\ (~(n + 1 > MaxRetries) => n < MaxRetries)
    BY <1>2, Rungs
  <2> QED
    BY <1>3, <2>1, <2>2
<1>5. budget' \in [DOMAIN Budget -> Nat]
  BY SpendType
  DEF MarkSuccess, RecordingFails, MarkFailed, DisableWebhook, ScheduleRetry, MarkDeadLetter
<1>6. hook' \in HookRecord
  BY DEF MarkSuccess, RecordingFails, MarkFailed, DisableWebhook, ScheduleRetry,
         MarkDeadLetter,
         HookRecord
<1>7. MarkDeadLetter(e) => tried[k] = Attempt
  <2> SUFFICES ASSUME MarkDeadLetter(e), NEW m \in Attempt PROVE m \in tried[k]
    BY <1>2
  <2>1. n = MaxRetries
    BY <1>2 DEF MarkDeadLetter
  <2>2. m < n \/ m = n
    BY <2>1, WebhookAssumption DEF Attempt
  <2> QED
    BY <1>2, <2>2 DEF ClimbedTo
<1>8. /\ row' \in [Key -> RowRecord]
      /\ \A i \in Key : row'[i].status = "dead_letter" =>
                          row[i].status = "dead_letter" \/ tried[i] = Attempt
  <2>1. CASE row' = row
    BY <2>1
  <2>2. CASE \E st \in {"success", "failed", "pending"}, b \in BOOLEAN : SetRow(k, st, b)
    <3> PICK st \in {"success", "failed", "pending"}, b \in BOOLEAN : SetRow(k, st, b)
      BY <2>2
    <3> QED
      BY <1>2, SetRowType DEF Status
  <2>3. CASE MarkDeadLetter(e)
    <3>1. SetRow(k, "dead_letter", FALSE)
      BY <2>3 DEF MarkDeadLetter
    <3> QED
      BY <1>2, <1>7, <2>3, <3>1, SetRowType DEF Status
  <2> QED
    BY <2>1, <2>2, <2>3
    DEF MarkSuccess, RecordingFails, MarkFailed, DisableWebhook, ScheduleRetry
<1>9. UNCHANGED <<hasAttempts, job, disp, got, tried, cause>>
  BY DEF MarkSuccess, RecordingFails, MarkFailed, DisableWebhook, ScheduleRetry, MarkDeadLetter
<1>10. next \in Posted /\ next # "markSuccess"
  BY DEF Posted
<1> QED
  BY <1>1, <1>2, <1>3, <1>4, <1>5, <1>6, <1>8, <1>9, <1>10, StepKeeps

\* The retry is added one rung above what has been posted.
LEMMA EnqueueRetryKeeps ==
  ASSUME Inv, NEW e \in Exec, EnqueueRetry(e) PROVE Inv'
<1> DEFINE k == exec[e].key
           n == exec[e].n
<1> USE Types DEF Inv
<1>1. /\ k \in Key /\ n \in Attempt /\ n \in tried[k] /\ ClimbedTo(k, n) /\ n < MaxRetries
      /\ exec[e].pc = "enqueue"
  BY AtRung DEF EnqueueRetry, Posted
<1>2. n + 1 \in Attempt /\ ClimbedTo(k, n + 1)
  BY <1>1, WebhookAssumption DEF Attempt, ClimbedTo
<1>3. /\ exec' \in [Exec -> ExecRecord]
      /\ exec'[e].pc = "return" /\ exec'[e].key = k /\ exec'[e].n = n
      /\ \A d \in Exec \ {e} : exec'[d] = exec[d]
  BY Stepping DEF EnqueueRetry, Posted
<1>4. /\ job' \in [Key -> [Attempt -> Job]]
      /\ \A i \in Key, m \in Attempt : job'[i][m] = job[i][m] \/ (i = k /\ m = n + 1)
  <2>1. AddJob(k, n + 1, TRUE)
    BY DEF EnqueueRetry
  <2>2. PICK rung \in Attempt : rung = n + 1
    BY <1>2
  <2>3. PICK tr \in BOOLEAN : AddJob(k, rung, tr)
    BY <2>1, <2>2
  <2>4. /\ job' \in [Key -> [Attempt -> Job]]
        /\ \A i \in Key, m \in Attempt : job'[i][m] = job[i][m] \/ (i = k /\ m = rung)
    BY <1>1, <2>3, AddJobType
  <2> QED
    BY <2>2, <2>4
<1>5. TypeOK'
  BY <1>3, <1>4, TypesBut DEF EnqueueRetry
<1>6. OnLadder(e)'
  BY <1>1, <1>3 DEF OnLadder, ClimbedTo, EnqueueRetry
<1>7. ClimbedTo(k, n + 1) /\ tried' = tried
  BY <1>2 DEF EnqueueRetry
<1>8. \A i \in Key, m \in Attempt :
        job'[i][m].state = "none" \/ job[i][m].state # "none" \/ ClimbedTo(i, m)'
  BY <1>4, <1>7 DEF ClimbedTo
<1> QED
  BY <1>3, <1>5, <1>6, <1>8, Ladder DEF EnqueueRetry

LEMMA FinishingKeeps ==
  ASSUME Inv, NEW e \in Exec,
         RecordTrigger(e) \/ DropUntracked(e) \/ CompleteJob(e) \/ FailureHandlingFails(e)
  PROVE  Inv'
<1> USE Types DEF Inv
<1>1. exec[e].pc # "idle" /\ exec[e].key \in Key
  BY DEF RecordTrigger, DropUntracked, CompleteJob, FailureHandlingFails, ExecRecord
<1>2. cause' \in [Key -> SUBSET Cause]
  BY <1>1, BlameType DEF RecordTrigger, DropUntracked, CompleteJob, FailureHandlingFails, Cause
<1>3. budget' \in [DOMAIN Budget -> Nat]
  BY SpendType DEF RecordTrigger, DropUntracked, CompleteJob, FailureHandlingFails
<1>4. PICK how \in {"done", "failed"} : Finish(e, how)
  BY DEF RecordTrigger, DropUntracked, CompleteJob, FailureHandlingFails
<1>5. UNCHANGED <<hasAttempts, hook, row, disp, got, tried>>
  BY DEF RecordTrigger, DropUntracked, CompleteJob, FailureHandlingFails
<1> QED
  BY <1>1, <1>2, <1>3, <1>4, <1>5, FinishKeeps

-----------------------------------------------------------------------------
(* The process, BullMQ and the owner *)

LEMMA CrashKeeps == ASSUME Inv, Crash PROVE Inv'
<1> USE Types DEF Inv
<1>1. exec' \in [Exec -> ExecRecord] /\ \A e \in Exec : exec'[e].pc = "idle"
  <2> SUFFICES ASSUME NEW e \in Exec PROVE Resting \in ExecRecord /\ Resting.pc = "idle"
    BY DEF Crash
  <2>1. exec[e].key \in Key
    BY DEF ExecRecord
  <2> QED
    BY <2>1, RestingType
<1>2. disp' \in [Disp -> DispRecord]
  <2> SUFFICES ASSUME NEW d \in Disp PROVE Silent \in DispRecord
    BY DEF Crash
  <2>1. disp[d].key \in Key
    BY DEF DispRecord
  <2> QED
    BY <2>1, RestingType
<1>3. \A k \in Key, n \in Attempt :
        /\ job'[k][n] \in Job
        /\ job'[k][n].state # "none" => job[k][n].state # "none"
  <2> SUFFICES ASSUME NEW k \in Key, NEW n \in Attempt
               PROVE  /\ job'[k][n] \in Job
                      /\ job'[k][n].state # "none" => job[k][n].state # "none"
    OBVIOUS
  <2>1. job[k][n] \in Job
    OBVIOUS
  <2>2. CASE job[k][n].state # "active"
    BY <2>1, <2>2 DEF Crash
  <2>3. CASE job[k][n].state = "active"
    <3>1. \E st \in {"failed", "queued"} :
            job'[k][n] = [job[k][n] EXCEPT !.state = st, !.stalled = TRUE]
      BY <2>3 DEF Crash
    <3> QED
      BY <2>1, <2>3, <3>1 DEF Job
  <2> QED
    BY <2>2, <2>3
<1>4. job' \in [Key -> [Attempt -> Job]]
  <2>1. job' = [k \in Key |-> [n \in Attempt |-> job'[k][n]]]
    BY DEF Crash
  <2> QED
    BY <1>3, <2>1
<1>5. cause' \in [Key -> SUBSET Cause]
  BY DEF Crash, Cause
<1>6. TypeOK'
  BY <1>1, <1>2, <1>4, <1>5, TypesBut, SpendType DEF Crash
<1>7. \A e \in Exec : OnLadder(e)'
  BY <1>1 DEF OnLadder
<1> QED
  BY <1>3, <1>6, <1>7, Ladder DEF Crash

LEMMA TrimJobKeeps ==
  ASSUME Inv, NEW k \in Key, NEW n \in Attempt, TrimJob(k, n) PROVE Inv'
<1> USE Types DEF Inv
<1>1. NoJob \in Job /\ NoJob.state = "none"
  BY DEF NoJob, Job
<1>2. job' = [job EXCEPT ![k] = [@ EXCEPT ![n] = NoJob]]
  BY DEF TrimJob
<1>3. job' \in [Key -> [Attempt -> Job]]
      /\ \A i \in Key, m \in Attempt : job'[i][m] = job[i][m] \/ (i = k /\ m = n)
  BY <1>1, <1>2, SetJobType
<1>4. job'[k][n] = NoJob
  BY <1>2
<1>5. TypeOK'
  BY <1>3, TypesBut, SpendType DEF TrimJob
<1> QED
  BY <1>1, <1>3, <1>4, <1>5, Ladder DEF TrimJob

LEMMA OwnerKeeps ==
  ASSUME Inv, DeleteWebhook \/ (\E b \in BOOLEAN : SetActive(b)) PROVE Inv'
<1> USE Types DEF Inv
<1>1. hook' \in HookRecord /\ budget' \in [DOMAIN Budget -> Nat]
  BY SpendType DEF DeleteWebhook, SetActive, HookRecord
<1>2. /\ row' \in [Key -> RowRecord]
      /\ \A k \in Key : row'[k].status = "dead_letter" => row[k].status = "dead_letter"
  <2>1. CASE row' = row
    BY <2>1
  <2>2. CASE row' = [k \in Key |-> [status |-> "none", attempted |-> FALSE]]
    BY <2>2 DEF RowRecord, Status
  <2> QED
    BY <2>1, <2>2 DEF DeleteWebhook, SetActive
<1>3. UNCHANGED <<hasAttempts, job, exec, disp, got, tried, cause>>
  BY DEF DeleteWebhook, SetActive
<1>4. TypeOK'
  BY <1>1, <1>2, <1>3, TypesBut
<1> QED
  BY <1>2, <1>3, <1>4, Ladder

-----------------------------------------------------------------------------
(* The invariant of the specification *)

LEMMA InitInv == Init => Inv
<1> SUFFICES ASSUME Init PROVE Inv
  OBVIOUS
<1>1. PICK k \in Key : TRUE
  BY WebhookAssumption
<1>2. /\ exec \in [Exec -> ExecRecord] /\ \A e \in Exec : exec[e].pc = "idle"
      /\ disp \in [Disp -> DispRecord]
  BY <1>1, RestingType DEF Init
<1>3. NoJob \in Job /\ NoJob.state = "none"
  BY DEF NoJob, Job
<1>4. /\ job \in [Key -> [Attempt -> Job]]
      /\ \A i \in Key, n \in Attempt : job[i][n].state = "none"
  BY <1>3 DEF Init
<1>5. row \in [Key -> RowRecord] /\ \A i \in Key : row[i].status = "none"
  BY DEF Init, RowRecord, Status
<1>6. budget \in [DOMAIN Budget -> Nat]
  BY WebhookAssumption DEF Init
<1>7. TypeOK
  BY <1>2, <1>4, <1>5, <1>6
  DEF Init, TypeOK, HookRecord, RowRecord, ExecRecord, DispRecord, Posted
<1>8. LadderInv
  BY <1>2, <1>4, <1>5 DEF LadderInv, OnLadder, DeadLetterClimbedTheLadder
<1> QED
  BY <1>7, <1>8 DEF Inv

LEMMA NextInv == Inv /\ [Next]_vars => Inv'
<1> SUFFICES ASSUME Inv, [Next]_vars PROVE Inv'
  OBVIOUS
<1>1. CASE \E d \in Disp : Dispatch(d) \/ InsertFails(d) \/ EnqueueEventFails(d)
                           \/ (\E k \in Key : FindActive(d, k))
  BY <1>1, DispatchKeeps
<1>2. CASE \E e \in Exec : Execute(e) \/ RecordingFails(e) \/ FailureHandlingFails(e)
  BY <1>2, ValidateUrlKeeps, PostEventKeeps, RecordKeeps, EnqueueRetryKeeps, FinishingKeeps
  DEF Execute
<1>3. CASE \E e \in Exec, k \in Key : \/ ReplayDeadLetter(e, k)
                                     \/ \E n \in Attempt : TakeJob(e, k, n)
  BY <1>3, ReplayKeeps, TakeJobKeeps
<1>4. CASE Crash \/ (\E k \in Key, n \in Attempt : TrimJob(k, n))
           \/ (\E b \in BOOLEAN : SetActive(b)) \/ DeleteWebhook
  BY <1>4, CrashKeeps, TrimJobKeeps, OwnerKeeps
<1>5. CASE UNCHANGED vars
  BY <1>5 DEF vars, Inv, TypeOK, LadderInv, OnLadder, ClimbedTo, DeadLetterClimbedTheLadder
<1> QED
  BY <1>1, <1>2, <1>3, <1>4, <1>5 DEF Next

\* The inductive invariant of dispatch, workers, replays and crashes.
THEOREM DeliveryInvariant == Spec => []Inv
BY InitInv, NextInv, PTL DEF Spec

\* No dead letter without all MAX_RETRIES retries and the first delivery posted
\* (handleFailure), for any ladder, however often processes crash, jobs are
\* forgotten and admins replay.
THEOREM LadderTheorem == Spec => []DeadLetterClimbedTheLadder
<1>1. Inv => DeadLetterClimbedTheLadder
  BY DEF Inv, LadderInv
<1> QED
  BY <1>1, DeliveryInvariant, PTL

-----------------------------------------------------------------------------
(* No event is forgotten *)

\* What has been noted, received and posted stays.
LEMMA SettledStays ==
  ASSUME Inv, Inv', got \subseteq got', NEW k \in Key,
         tried[k] \subseteq tried'[k], cause[k] \subseteq cause'[k], Settled(k)
  PROVE  Settled(k)'
<1>1. tried'[k] \subseteq Attempt
  BY DEF Inv, TypeOK
<1> QED
  BY <1>1 DEF Settled, Served

\* An event is still seen to if the step hands on whatever was pending, and
\* what it adds is seen to as well.
LEMMA StillSeenTo ==
  ASSUME Inv, Inv', QueueInv, got \subseteq got',
         \A k \in Key : tried[k] \subseteq tried'[k] /\ cause[k] \subseteq cause'[k],
         \A k \in Key, m \in Attempt :
           Pending(k, m) => Settled(k)' \/ \E i \in m..MaxRetries : Pending(k, i)',
         \A k \in Key, n \in Attempt :
           Known(k, n)' => \/ Known(k, n) \/ Settled(k)'
                           \/ \E i \in n..MaxRetries : Pending(k, i)',
         \A k \in Key :
           row'[k].status # "none"
             => row[k].status # "none" \/ Settled(k)' \/ Enqueueing(k)',
         \A k \in Key :
           Enqueueing(k)
             => Settled(k)' \/ Enqueueing(k)' \/ \E i \in Attempt : Pending(k, i)'
  PROVE  (ClimbGoesOn /\ RecordedIsSeenTo)'
<1>1. \A k \in Key : Settled(k) => Settled(k)'
  BY SettledStays
<1>2. \A n \in Attempt : \A m \in n..MaxRetries :
        m \in Attempt /\ m..MaxRetries \subseteq n..MaxRetries
  BY WebhookAssumption DEF Attempt
<1>3. \A k \in Key, n \in Attempt :
        Known(k, n)' => Settled(k)' \/ \E m \in n..MaxRetries : Pending(k, m)'
  <2> SUFFICES ASSUME NEW k \in Key, NEW n \in Attempt, Known(k, n), ~Settled(k)'
               PROVE  \E m \in n..MaxRetries : Pending(k, m)'
    OBVIOUS
  <2>1. PICK m \in n..MaxRetries : Pending(k, m)
    BY <1>1 DEF QueueInv, ClimbGoesOn
  <2>2. PICK i \in m..MaxRetries : Pending(k, i)'
    BY <1>2, <2>1
  <2> QED
    BY <1>2, <2>2
<1>4. \A k \in Key : row'[k].status # "none" =>
        Settled(k)' \/ Enqueueing(k)' \/ \E m \in Attempt : Pending(k, m)'
  <2> SUFFICES ASSUME NEW k \in Key, row[k].status # "none", ~Settled(k)', ~Enqueueing(k)'
               PROVE  \E m \in Attempt : Pending(k, m)'
    OBVIOUS
  <2>1. CASE Enqueueing(k)
    BY <2>1
  <2>2. CASE \E m \in Attempt : Pending(k, m)
    <3>1. PICK m \in Attempt : Pending(k, m)
      BY <2>2
    <3>2. PICK i \in m..MaxRetries : Pending(k, i)'
      BY <3>1
    <3>3. i \in Attempt
      BY <3>2, WebhookAssumption DEF Attempt
    <3> QED
      BY <3>2, <3>3
  <2> QED
    BY <1>1, <2>1, <2>2 DEF QueueInv, RecordedIsSeenTo
<1> QED
  BY <1>3, <1>4 DEF ClimbGoesOn, RecordedIsSeenTo

\* A step that leaves jobs and executions alone.
LEMMA JobsAndWorkersStay ==
  ASSUME Inv, Inv', QueueInv, UNCHANGED <<job, exec, got, tried>>,
         \A k \in Key : cause[k] \subseteq cause'[k],
         \A d \in Disp :
           disp'[d].pc # "idle" /\ ~disp'[d].tracked =>
             \/ cause'[disp'[d].key] # {}
             \/ disp[d].pc # "idle" /\ ~disp[d].tracked /\ disp'[d].key = disp[d].key,
         \A k \in Key :
           row'[k].status # "none"
             => row[k].status # "none" \/ Settled(k)' \/ Enqueueing(k)',
         \A k \in Key :
           Enqueueing(k)
             => Settled(k)' \/ Enqueueing(k)' \/ \E i \in Attempt : Pending(k, i)'
  PROVE  QueueInv'
<1>1. \A e \in Exec : exec[e].key \in Key /\ exec[e].n \in Attempt
  BY DEF Inv, TypeOK
<1>2. \A d \in Disp : disp[d].key \in Key
  BY DEF Inv, TypeOK
<1>3. WorkersHaveJobs'
  BY <1>1 DEF QueueInv, WorkersHaveJobs
<1>4. OneWorkerPerJob'
  BY DEF QueueInv, OneWorkerPerJob
<1>5. UntrackedIsBlamed'
  BY <1>2 DEF QueueInv, UntrackedIsBlamed
<1>6. \A k \in Key, m \in Attempt : Pending(k, m) <=> Pending(k, m)'
  BY DEF Pending
<1>7. \A k \in Key, m \in Attempt : Known(k, m) <=> Known(k, m)'
  BY DEF Known
<1>8. \A m \in Attempt : m \in m..MaxRetries
  BY WebhookAssumption DEF Attempt
<1> QED
  BY <1>3, <1>4, <1>5, <1>6, <1>7, <1>8, StillSeenTo DEF QueueInv

\* dispatch, up to its call of the queue.
LEMMA DispatchForgetsNothing ==
  ASSUME Inv, Inv', QueueInv, NEW d \in Disp,
         \/ SelectEvent(d) \/ InsertEvent(d) \/ InsertRefused(d) \/ InsertFails(d)
         \/ EnqueueEventFails(d) \/ \E k \in Key : FindActive(d, k)
  PROVE  QueueInv'
<1> USE DEF Inv
<1>0. PICK k \in Key : k = disp[d].key
  BY Types DEF DispRecord
<1>1. disp \in [Disp -> DispRecord] /\ cause \in [Key -> SUBSET Cause] /\ k = disp[d].key
  BY <1>0, Types
<1>2. UNCHANGED <<job, exec, got, tried>>
  BY DEF SelectEvent, InsertEvent, InsertRefused, InsertFails, EnqueueEventFails, FindActive
<1>3. cause' = cause \/ \E c \in Cause : cause' = [cause EXCEPT ![k] = @ \cup {c}]
  BY <1>1 DEF SelectEvent, InsertEvent, InsertRefused, InsertFails, EnqueueEventFails,
              FindActive, Blame, Cause
<1>4. \A i \in Key : cause[i] \subseteq cause'[i]
  BY <1>1, <1>3
<1>5. \A q \in Disp \ {d} : disp'[q] = disp[q]
  BY <1>1 DEF SelectEvent, InsertEvent, InsertRefused, InsertFails, EnqueueEventFails, FindActive
<1>6. CASE InsertRefused(d) \/ InsertFails(d) \/ EnqueueEventFails(d)
  <2>1. cause'[k] # {}
    BY <1>1, <1>6 DEF InsertRefused, InsertFails, EnqueueEventFails, Blame
  <2>2. disp'[d] = Silent \/ disp'[d].key = k
    BY <1>1, <1>6 DEF InsertRefused, InsertFails, EnqueueEventFails, DispRecord
  <2>3. \A i \in Key \ {k} : row'[i] = row[i]
    BY <1>1, <1>6, Types DEF InsertRefused, InsertFails, EnqueueEventFails
  <2>4. Settled(k)'
    BY <2>1 DEF Settled
  <2>5. \A i \in Key \ {k} : Enqueueing(i) => Enqueueing(i)'
    BY <1>1, <1>5 DEF Enqueueing
  <2>6. disp'[d].pc # "idle" /\ ~disp'[d].tracked => cause'[disp'[d].key] # {}
    BY <2>1, <2>2 DEF Silent
  <2> QED
    BY <1>2, <1>4, <1>5, <2>3, <2>4, <2>5, <2>6, JobsAndWorkersStay
<1>7. CASE SelectEvent(d) \/ InsertEvent(d) \/ \E i \in Key : FindActive(d, i)
  <2>1. disp[d].pc # "enqueue"
    BY <1>7 DEF SelectEvent, InsertEvent, FindActive
  <2>2. \A i \in Key : Enqueueing(i) => Enqueueing(i)'
    BY <1>5, <2>1 DEF Enqueueing
  <2>3. disp'[d].pc # "idle" /\ ~disp'[d].tracked =>
          disp[d].pc # "idle" /\ ~disp[d].tracked /\ disp'[d].key = disp[d].key
    BY <1>1, <1>7 DEF SelectEvent, InsertEvent, FindActive, DispRecord, Silent
  <2>4. \A i \in Key : row'[i].status # "none" => row[i].status # "none" \/ Enqueueing(i)'
    <3>1. CASE InsertEvent(d)
      <4>1. disp'[d].pc = "enqueue" /\ disp'[d].key = k
        BY <1>1, <3>1 DEF InsertEvent, DispRecord
      <4>2. \A i \in Key \ {k} : row'[i] = row[i]
        BY <1>1, <3>1, Types DEF InsertEvent
      <4> QED
        BY <4>1, <4>2 DEF Enqueueing
    <3>2. CASE row' = row
      BY <3>2
    <3> QED
      BY <1>7, <3>1, <3>2 DEF SelectEvent, FindActive
  <2> QED
    BY <1>2, <1>4, <1>5, <2>2, <2>3, <2>4, JobsAndWorkersStay
<1> QED
  BY <1>6, <1>7

\* The owner loses an event only with all its records.
LEMMA OwnerForgetsNothing ==
  ASSUME Inv, Inv', QueueInv, DeleteWebhook \/ (\E b \in BOOLEAN : SetActive(b))
  PROVE  QueueInv'
<1>1. UNCHANGED <<job, exec, disp, got, tried, cause>>
  BY DEF DeleteWebhook, SetActive
<1>2. \A k \in Key : row'[k].status # "none" => row[k].status # "none"
  <2>1. CASE row' = row
    BY <2>1
  <2>2. CASE row' = [k \in Key |-> [status |-> "none", attempted |-> FALSE]]
    BY <2>2
  <2> QED
    BY <2>1, <2>2 DEF DeleteWebhook, SetActive
<1>3. \A k \in Key : Enqueueing(k) => Enqueueing(k)'
  BY <1>1 DEF Enqueueing
<1> QED
  BY <1>1, <1>2, <1>3, JobsAndWorkersStay

\* A job that is added is queued, unless its id is known.
LEMMA AddJobIs ==
  ASSUME TypeOK, NEW k \in Key, NEW n \in Attempt, NEW tr \in BOOLEAN, AddJob(k, n, tr)
  PROVE  /\ \A i \in Key, m \in Attempt : job'[i][m] = job[i][m] \/ (i = k /\ m = n)
         /\ IF job[k][n].state # "none" THEN job'[k][n] = job[k][n]
            ELSE job'[k][n] = [state |-> "queued", tracked |-> tr, stalled |-> FALSE]
<1>1. job \in [Key -> [Attempt -> Job]]
  BY Types
<1>2. CASE job[k][n].state # "none"
  BY <1>2 DEF AddJob
<1>3. CASE job[k][n].state = "none"
  <2>1. job' = [job EXCEPT ![k] = [@ EXCEPT ![n] =
                  [state |-> "queued", tracked |-> tr, stalled |-> FALSE]]]
    BY <1>3 DEF AddJob
  <2>2. job'[k] = [job[k] EXCEPT ![n] =
                     [state |-> "queued", tracked |-> tr, stalled |-> FALSE]]
    BY <1>1, <2>1
  <2>3. job'[k][n] = [state |-> "queued", tracked |-> tr, stalled |-> FALSE]
    BY <1>1, <2>2
  <2> QED
    BY <1>3, <2>3, AddJobType
<1> QED
  BY <1>2, <1>3

\* A step that adds a job, tracked unless the event is blamed, keeps what is
\* said of jobs and workers.
LEMMA AddingKeepsWorkers ==
  ASSUME Inv, QueueInv, NEW k \in Key, NEW n \in Attempt, NEW tr \in BOOLEAN,
         AddJob(k, n, tr), tr \/ cause[k] # {}, cause' = cause,
         \A e \in Exec :
           exec'[e].pc # "idle" =>
             /\ exec[e].pc # "idle"
             /\ exec'[e].by = exec[e].by /\ exec'[e].key = exec[e].key
             /\ exec'[e].n = exec[e].n /\ exec'[e].tracked = exec[e].tracked,
         \A d \in Disp : disp'[d].pc # "idle" => disp'[d] = disp[d]
  PROVE  (WorkersHaveJobs /\ OneWorkerPerJob /\ UntrackedIsBlamed)'
<1>1. /\ \A i \in Key, m \in Attempt : job'[i][m] = job[i][m] \/ (i = k /\ m = n)
      /\ IF job[k][n].state # "none" THEN job'[k][n] = job[k][n]
         ELSE job'[k][n] = [state |-> "queued", tracked |-> tr, stalled |-> FALSE]
  BY AddJobIs DEF Inv
<1>2. \A e \in Exec : exec[e].key \in Key /\ exec[e].n \in Attempt
  BY DEF Inv, TypeOK
<1>3. \A i \in Key, m \in Attempt : job[i][m].state = "active" => job'[i][m] = job[i][m]
  BY <1>1
<1>4. WorkersHaveJobs'
  BY <1>2, <1>3 DEF QueueInv, WorkersHaveJobs
<1>5. OneWorkerPerJob'
  BY DEF QueueInv, OneWorkerPerJob
<1>6. \A i \in Key, m \in Attempt :
        job'[i][m].state # "none" /\ ~job'[i][m].tracked => cause'[i] # {}
  BY <1>1 DEF QueueInv, UntrackedIsBlamed
<1>7. \A d \in Disp : disp'[d].pc # "idle" /\ ~disp'[d].tracked => cause'[disp'[d].key] # {}
  BY DEF QueueInv, UntrackedIsBlamed
<1> QED
  BY <1>4, <1>5, <1>6, <1>7 DEF UntrackedIsBlamed

\* The first delivery is queued, or its job is known already and seen to.
LEMMA EnqueueForgetsNothing ==
  ASSUME Inv, Inv', QueueInv, NEW d \in Disp, EnqueueEvent(d)
  PROVE  QueueInv'
<1> USE DEF Inv
<1>1. PICK k \in Key : k = disp[d].key
  BY Types DEF DispRecord
<1>2. PICK tr \in BOOLEAN : tr = disp[d].tracked
  BY Types DEF DispRecord
<1>3. /\ disp[d].pc = "enqueue" /\ AddJob(k, 0, tr)
      /\ disp' = [disp EXCEPT ![d] = Silent]
      /\ UNCHANGED <<row, exec, got, tried, cause>>
  BY <1>1, <1>2 DEF EnqueueEvent
<1>4. 0 \in Attempt
  BY WebhookAssumption DEF Attempt
<1>5. tr \/ cause[k] # {}
  BY <1>1, <1>2, <1>3 DEF QueueInv, UntrackedIsBlamed
<1>6. \A q \in Disp : q # d => disp'[q] = disp[q]
  BY <1>3, Types
<1>7. disp'[d].pc = "idle"
  BY <1>3, Types DEF Silent
<1>8. (WorkersHaveJobs /\ OneWorkerPerJob /\ UntrackedIsBlamed)'
  BY <1>3, <1>4, <1>5, <1>6, <1>7, AddingKeepsWorkers
<1>9. /\ \A i \in Key, m \in Attempt : job'[i][m] = job[i][m] \/ (i = k /\ m = 0)
      /\ IF job[k][0].state # "none" THEN job'[k][0] = job[k][0]
         ELSE job'[k][0] = [state |-> "queued", tracked |-> tr, stalled |-> FALSE]
  BY <1>3, <1>4, AddJobIs
<1>10. \A i \in Key, m \in Attempt : Pending(i, m) => Pending(i, m)'
  BY <1>3, <1>9 DEF Pending
<1>11. \A i \in Key, m \in Attempt : Known(i, m)' => Known(i, m) \/ Pending(i, m)'
  BY <1>3, <1>9 DEF Known, Pending
<1>12. \A m \in Attempt : m \in m..MaxRetries
  BY WebhookAssumption DEF Attempt
<1>13. Settled(k) => Settled(k)'
  BY <1>3, SettledStays
<1>14. Settled(k)' \/ \E i \in Attempt : Pending(k, i)'
  <2>1. CASE job[k][0].state = "none"
    BY <1>4, <1>9, <2>1 DEF Pending
  <2>2. CASE job[k][0].state # "none"
    <3>1. Settled(k) \/ \E m \in 0..MaxRetries : Pending(k, m)
      BY <1>4, <2>2 DEF QueueInv, ClimbGoesOn, Known
    <3> QED
      BY <1>10, <1>13, <3>1 DEF Attempt
  <2> QED
    BY <2>1, <2>2
<1>15. \A i \in Key : Enqueueing(i) => Enqueueing(i)' \/ i = k
  BY <1>1, <1>6 DEF Enqueueing
<1>16. (ClimbGoesOn /\ RecordedIsSeenTo)'
  BY <1>3, <1>10, <1>11, <1>12, <1>14, <1>15, StillSeenTo
<1> QED
  BY <1>8, <1>16 DEF QueueInv

\* A waiting rung is taken.
LEMMA TakeJobForgetsNothing ==
  ASSUME Inv, Inv', QueueInv, NEW e \in Exec, NEW k \in Key, NEW n \in Attempt,
         TakeJob(e, k, n)
  PROVE  QueueInv'
<1> USE DEF Inv
<1>1. /\ exec[e].pc = "idle" /\ job[k][n].state = "queued"
      /\ job' = [job EXCEPT ![k][n].state = "active"]
      /\ UNCHANGED <<row, disp, got, tried, cause>>
  BY DEF TakeJob
<1>2. /\ exec'[e].pc \in {"validate", "post"} /\ exec'[e].key = k /\ exec'[e].n = n
      /\ exec'[e].by = "job" /\ exec'[e].tracked = job[k][n].tracked
      /\ \A d \in Exec \ {e} : exec'[d] = exec[d]
  BY Types DEF TakeJob
<1>3. /\ \A i \in Key, m \in Attempt : job'[i][m] = job[i][m] \/ (i = k /\ m = n)
      /\ job'[k][n].state = "active" /\ job'[k][n].tracked = job[k][n].tracked
  <2>1. job \in [Key -> [Attempt -> Job]] /\ job[k][n] \in Job
    BY Types
  <2>2. job'[k] = [job[k] EXCEPT ![n].state = "active"]
    BY <1>1, <2>1
  <2>3. job'[k][n] = [job[k][n] EXCEPT !.state = "active"]
    BY <2>1, <2>2
  <2>4. job'[k][n].state = "active" /\ job'[k][n].tracked = job[k][n].tracked
    BY <2>1, <2>3 DEF Job
  <2> QED
    BY <1>1, <2>4, SetStateType
<1>4. \A d \in Exec : exec[d].key \in Key /\ exec[d].n \in Attempt
  BY DEF TypeOK
<1>5. \A d \in Exec : exec[d].pc # "idle" /\ exec[d].by = "job" =>
        ~(exec[d].key = k /\ exec[d].n = n)
  BY <1>1 DEF QueueInv, WorkersHaveJobs
<1>6. WorkersHaveJobs'
  BY <1>1, <1>2, <1>3, <1>4, <1>5 DEF QueueInv, WorkersHaveJobs
<1>7. OneWorkerPerJob'
  BY <1>2, <1>5 DEF QueueInv, OneWorkerPerJob
<1>8. UntrackedIsBlamed'
  BY <1>1, <1>3 DEF QueueInv, UntrackedIsBlamed
<1>9. \A i \in Key, m \in Attempt : Pending(i, m) => Pending(i, m)'
  BY <1>1, <1>2, <1>3 DEF Pending
<1>10. \A i \in Key, m \in Attempt : Known(i, m)' => Known(i, m)
  BY <1>1, <1>3 DEF Known
<1>11. \A m \in Attempt : m \in m..MaxRetries
  BY WebhookAssumption DEF Attempt
<1>12. \A i \in Key : Enqueueing(i) => Enqueueing(i)'
  BY <1>1 DEF Enqueueing
<1>13. (ClimbGoesOn /\ RecordedIsSeenTo)'
  BY <1>1, <1>9, <1>10, <1>11, <1>12, StillSeenTo
<1> QED
  BY <1>6, <1>7, <1>8, <1>13 DEF QueueInv

\* A replay is not waited for: it is blamed.
LEMMA ReplayForgetsNothing ==
  ASSUME Inv, Inv', QueueInv, NEW e \in Exec, NEW k \in Key, ReplayDeadLetter(e, k)
  PROVE  QueueInv'
<1> USE DEF Inv
<1>1. /\ exec[e].pc = "idle" /\ cause' = [cause EXCEPT ![k] = @ \cup {"replay"}]
      /\ UNCHANGED <<row, job, disp, got, tried>>
  BY DEF ReplayDeadLetter, Blame
<1>2. /\ exec'[e].pc = "post" /\ exec'[e].key = k /\ exec'[e].by = "admin"
      /\ \A d \in Exec \ {e} : exec'[d] = exec[d]
  BY Types DEF ReplayDeadLetter
<1>3. cause'[k] # {} /\ \A i \in Key : cause[i] \subseteq cause'[i]
  BY <1>1, Types
<1>4. \A d \in Exec : exec[d].key \in Key /\ exec[d].n \in Attempt
  BY DEF TypeOK
<1>5. \A d \in Disp : disp[d].key \in Key
  BY DEF TypeOK
<1>6. WorkersHaveJobs'
  BY <1>1, <1>2, <1>3, <1>4 DEF QueueInv, WorkersHaveJobs
<1>7. OneWorkerPerJob'
  BY <1>2 DEF QueueInv, OneWorkerPerJob
<1>8. UntrackedIsBlamed'
  BY <1>1, <1>3, <1>5 DEF QueueInv, UntrackedIsBlamed
<1>9. \A i \in Key, m \in Attempt : Pending(i, m) => Pending(i, m)'
  BY <1>1, <1>2 DEF Pending
<1>10. \A i \in Key, m \in Attempt : Known(i, m)' => Known(i, m)
  BY <1>1 DEF Known
<1>11. \A m \in Attempt : m \in m..MaxRetries
  BY WebhookAssumption DEF Attempt
<1>12. \A i \in Key : Enqueueing(i) => Enqueueing(i)'
  BY <1>1 DEF Enqueueing
<1>13. (ClimbGoesOn /\ RecordedIsSeenTo)'
  BY <1>1, <1>3, <1>9, <1>10, <1>11, <1>12, StillSeenTo
<1> QED
  BY <1>6, <1>7, <1>8, <1>13 DEF QueueInv

\* A worker or an admin that goes on without the queue.
LEMMA StepForgetsNothing ==
  ASSUME Inv, Inv', QueueInv, NEW e \in Exec,
         NEW next \in Posted \cup {"post"}, Step(e, next),
         exec[e].pc # "idle", next = "return" => Settled(exec[e].key),
         UNCHANGED <<job, disp, cause>>, got \subseteq got',
         \A k \in Key : tried[k] \subseteq tried'[k],
         \A k \in Key, n \in Attempt :
           n \in tried'[k] =>
             n \in tried[k] \/ (k = exec[e].key /\ n = exec[e].n /\ next # "return"),
         \A k \in Key : row'[k].status # "none" => row[k].status # "none"
  PROVE  QueueInv'
<1> USE DEF Inv
<1>1. PICK k \in Key : k = exec[e].key
  BY Types DEF ExecRecord
<1>2. PICK n \in Attempt : n = exec[e].n
  BY Types DEF ExecRecord
<1>3. /\ exec'[e].pc = next /\ exec'[e].key = k /\ exec'[e].n = n
      /\ exec'[e].by = exec[e].by /\ exec'[e].tracked = exec[e].tracked
      /\ \A d \in Exec \ {e} : exec'[d] = exec[d]
  BY <1>1, <1>2, Types DEF Step, ExecRecord
<1>4. next # "idle"
  BY DEF Posted
<1>5. WorkersHaveJobs'
  BY <1>1, <1>2, <1>3 DEF QueueInv, WorkersHaveJobs
<1>6. OneWorkerPerJob'
  BY <1>1, <1>2, <1>3 DEF QueueInv, OneWorkerPerJob
<1>7. UntrackedIsBlamed'
  BY DEF QueueInv, UntrackedIsBlamed
<1>8. Settled(k) => Settled(k)'
  BY SettledStays
<1>9. next = "return" => Settled(k)'
  BY <1>1, <1>8
<1>10. \A m \in Attempt : m \in m..MaxRetries
  BY WebhookAssumption DEF Attempt
<1>11. \A i \in Key, m \in Attempt : Pending(i, m) => Pending(i, m)' \/ Settled(i)'
  BY <1>1, <1>2, <1>3, <1>4, <1>9 DEF Pending
<1>12. \A i \in Key, m \in Attempt :
         Known(i, m)' => Known(i, m) \/ Pending(i, m)' \/ Settled(i)'
  <2> SUFFICES ASSUME NEW i \in Key, NEW m \in Attempt, Known(i, m)', ~Known(i, m)
               PROVE  Pending(i, m)' \/ Settled(i)'
    OBVIOUS
  <2>1. i = k /\ m = n /\ next # "return"
    BY <1>1, <1>2 DEF Known
  <2>2. CASE exec[e].by = "job"
    BY <1>3, <1>4, <2>1, <2>2 DEF Pending
  <2>3. CASE exec[e].by # "job"
    <3>1. cause'[k] # {}
      BY <1>1, <2>3 DEF QueueInv, WorkersHaveJobs
    <3> QED
      BY <2>1, <3>1 DEF Settled
  <2> QED
    BY <2>2, <2>3
<1>13. \A i \in Key : Enqueueing(i) => Enqueueing(i)'
  BY DEF Enqueueing
<1>14. (ClimbGoesOn /\ RecordedIsSeenTo)'
  BY <1>10, <1>11, <1>12, <1>13, StillSeenTo
<1> QED
  BY <1>5, <1>6, <1>7, <1>14 DEF QueueInv

LEMMA WorkForgetsNothing ==
  ASSUME Inv, Inv', QueueInv, NEW e \in Exec,
         \/ ValidateUrl(e) /\ Step(e, "post") /\ UNCHANGED <<job, cause>>
         \/ PostEvent(e) \/ MarkSuccess(e) \/ RecordingFails(e) \/ MarkFailed(e)
         \/ MarkDeadLetter(e) \/ DisableWebhook(e) \/ ScheduleRetry(e)
  PROVE  QueueInv'
<1> USE DEF Inv
<1>1. PICK k \in Key, n \in Attempt : k = exec[e].key /\ n = exec[e].n
  BY Types DEF ExecRecord
<1>2. PICK next \in {"post", "markSuccess", "trigger", "handleFailure", "bury", "schedule",
                    "disable", "enqueue", "return"} :
        Step(e, next) /\ (next = "return" => DisableWebhook(e))
  <2>1. CASE PostEvent(e)
    BY <2>1 DEF PostEvent
  <2>2. CASE MarkFailed(e)
    BY <2>2 DEF MarkFailed
  <2>3. CASE Step(e, "post")
    BY <2>3
  <2> QED
    BY <2>1, <2>2, <2>3
    DEF MarkSuccess, RecordingFails, MarkDeadLetter, DisableWebhook, ScheduleRetry
<1>3. exec[e].pc # "idle" /\ next \in Posted \cup {"post"} /\ UNCHANGED <<job, disp, cause>>
  BY DEF ValidateUrl, PostEvent, MarkSuccess, RecordingFails, MarkFailed, MarkDeadLetter,
         DisableWebhook, ScheduleRetry, Posted
<1>4. next = "return" => Settled(k)
  <2> SUFFICES ASSUME DisableWebhook(e) PROVE tried[k] = Attempt
    BY <1>2 DEF Settled, Served
  <2>1. n = MaxRetries /\ n \in tried[k] /\ ClimbedTo(k, n)
    BY <1>1, AtRung DEF DisableWebhook, Posted
  <2>2. \A m \in Attempt : m \in tried[k]
    BY <2>1, WebhookAssumption DEF ClimbedTo, Attempt
  <2> QED
    BY <2>2, Types
<1>5. CASE PostEvent(e)
  <2>1. /\ got \subseteq got' /\ row' = row /\ next # "return"
        /\ \A i \in Key : tried[i] \subseteq tried'[i]
        /\ \A i \in Key, m \in Attempt :
             m \in tried'[i] => m \in tried[i] \/ (i = k /\ m = n)
    BY <1>1, <1>2, <1>5, Types DEF PostEvent, DisableWebhook
  <2> QED
    BY <1>1, <1>2, <1>3, <2>1, StepForgetsNothing
<1>6. CASE ~PostEvent(e)
  <2>1. UNCHANGED <<got, tried>>
    BY <1>6 DEF ValidateUrl, MarkSuccess, RecordingFails, MarkFailed, MarkDeadLetter,
                DisableWebhook, ScheduleRetry
  <2>2. row' = row \/ \E st \in Status, b \in BOOLEAN : SetRow(k, st, b)
    BY <1>1, <1>6 DEF ValidateUrl, MarkSuccess, RecordingFails, MarkFailed, MarkDeadLetter,
                      DisableWebhook, ScheduleRetry, Status
  <2>3. \A i \in Key : row'[i].status # "none" => row[i].status # "none"
    BY <2>2, SetRowType
  <2> QED
    BY <1>1, <1>2, <1>3, <1>4, <2>1, <2>3, StepForgetsNothing
<1> QED
  BY <1>5, <1>6

\* The next rung is added before the execution of this one returns.
LEMMA RetryForgetsNothing ==
  ASSUME Inv, Inv', QueueInv, NEW e \in Exec, EnqueueRetry(e)
  PROVE  QueueInv'
<1> USE DEF Inv
<1>1. PICK k \in Key, n \in Attempt : k = exec[e].key /\ n = exec[e].n
  BY Types DEF ExecRecord
<1>2. /\ exec[e].pc = "enqueue" /\ AddJob(k, n + 1, TRUE) /\ Step(e, "return")
      /\ UNCHANGED <<row, disp, got, tried, cause>>
  BY <1>1 DEF EnqueueRetry
<1>3. n + 1 \in Attempt
  <2>1. n < MaxRetries
    BY <1>1, <1>2, AtRung
  <2> QED
    BY <2>1, WebhookAssumption DEF Attempt
<1>4. PICK up \in Attempt : up = n + 1
  BY <1>3
<1>5. AddJob(k, up, TRUE)
  BY <1>2, <1>4
<1>6. /\ exec'[e].pc = "return" /\ exec'[e].key = k /\ exec'[e].n = n
      /\ exec'[e].by = exec[e].by /\ exec'[e].tracked = exec[e].tracked
      /\ \A d \in Exec \ {e} : exec'[d] = exec[d]
  BY <1>1, <1>2, Types DEF Step, ExecRecord
<1>7. (WorkersHaveJobs /\ OneWorkerPerJob /\ UntrackedIsBlamed)'
  <2>1. \A d \in Exec : exec'[d].pc # "idle" =>
          /\ exec[d].pc # "idle"
          /\ exec'[d].by = exec[d].by /\ exec'[d].key = exec[d].key
          /\ exec'[d].n = exec[d].n /\ exec'[d].tracked = exec[d].tracked
    BY <1>1, <1>2, <1>6
  <2> QED
    BY <1>2, <1>5, <2>1, AddingKeepsWorkers
<1>8. /\ \A i \in Key, m \in Attempt : job'[i][m] = job[i][m] \/ (i = k /\ m = up)
      /\ IF job[k][up].state # "none" THEN job'[k][up] = job[k][up]
         ELSE job'[k][up] = [state |-> "queued", tracked |-> TRUE, stalled |-> FALSE]
  BY <1>5, AddJobIs
<1>9. \A i \in Key, m \in Attempt :
        Pending(i, m) => Pending(i, m)' \/ (i = k /\ m = n)
  BY <1>1, <1>6, <1>8 DEF Pending
<1>10. Settled(k)' \/ \E i \in up..MaxRetries : Pending(k, i)'
  <2>1. CASE job[k][up].state = "none"
    BY <1>8, <2>1, WebhookAssumption DEF Pending, Attempt
  <2>2. CASE job[k][up].state # "none"
    <3>1. Settled(k) \/ \E i \in up..MaxRetries : Pending(k, i)
      BY <2>2 DEF QueueInv, ClimbGoesOn, Known
    <3>2. Settled(k) => Settled(k)'
      BY <1>2, SettledStays
    <3>3. \A i \in up..MaxRetries : i \in Attempt /\ i # n
      BY <1>4, WebhookAssumption DEF Attempt
    <3> QED
      BY <1>9, <3>1, <3>2, <3>3
  <2> QED
    BY <2>1, <2>2
<1>11. up..MaxRetries \subseteq n..MaxRetries
  BY <1>4, WebhookAssumption DEF Attempt
<1>12. \A m \in Attempt : m \in m..MaxRetries
  BY WebhookAssumption DEF Attempt
<1>13. \A i \in Key, m \in Attempt :
         Pending(i, m) => Settled(i)' \/ \E l \in m..MaxRetries : Pending(i, l)'
  BY <1>9, <1>10, <1>11, <1>12
<1>14. \A i \in Key, m \in Attempt : Known(i, m)' => Known(i, m) \/ Pending(i, m)'
  BY <1>2, <1>8 DEF Known, Pending
<1>15. \A i \in Key : Enqueueing(i) => Enqueueing(i)'
  BY <1>2 DEF Enqueueing
<1>16. (ClimbGoesOn /\ RecordedIsSeenTo)'
  BY <1>2, <1>12, <1>13, <1>14, <1>15, StillSeenTo
<1> QED
  BY <1>7, <1>16 DEF QueueInv

\* An execution ends: its event is served, blamed or has its next rung.
LEMMA FinishForgetsNothing ==
  ASSUME Inv, Inv', QueueInv, NEW e \in Exec,
         \/ RecordTrigger(e) \/ DropUntracked(e) \/ CompleteJob(e) \/ FailureHandlingFails(e)
         \/ ValidateUrl(e) /\ Finish(e, "failed") /\ Blame(exec[e].key, "url")
  PROVE  QueueInv'
<1> USE DEF Inv
<1>1. PICK k \in Key, n \in Attempt : k = exec[e].key /\ n = exec[e].n
  BY Types DEF ExecRecord
<1>2. PICK how \in {"done", "failed"} : Finish(e, how)
  BY DEF RecordTrigger, DropUntracked, CompleteJob, FailureHandlingFails
<1>3. exec[e].pc # "idle" /\ UNCHANGED <<row, disp, got, tried>>
  BY DEF RecordTrigger, DropUntracked, CompleteJob, FailureHandlingFails, ValidateUrl
<1>4. cause' = cause \/ \E c \in Cause : cause' = [cause EXCEPT ![k] = @ \cup {c}]
  BY <1>1 DEF RecordTrigger, DropUntracked, CompleteJob, FailureHandlingFails, Blame, Cause
<1>5. \A i \in Key : cause[i] \subseteq cause'[i]
  BY <1>4, Types
<1>6. Settled(k)' \/ exec[e].pc = "return"
  <2>1. CASE exec[e].pc = "trigger"
    <3>1. k \in got
      BY <1>1, <2>1, AtRung
    <3> QED
      BY <1>3, <3>1 DEF Settled, Served
  <2>2. CASE \E c \in Cause : Blame(k, c)
    <3>1. cause'[k] # {}
      BY <2>2, Types DEF Blame
    <3> QED
      BY <3>1 DEF Settled
  <2> QED
    BY <1>1, <2>1, <2>2
    DEF RecordTrigger, DropUntracked, CompleteJob, FailureHandlingFails, ValidateUrl, Cause
<1>7. exec'[e].pc = "idle" /\ \A d \in Exec \ {e} : exec'[d] = exec[d]
  BY <1>2, <1>3, Finishing
<1>8. /\ \A i \in Key, m \in Attempt :
           job'[i][m] = job[i][m] \/ (exec[e].by = "job" /\ i = k /\ m = n)
      /\ job'[k][n].tracked = job[k][n].tracked
      /\ job[k][n].state = "none" => exec[e].by # "job"
  <2>1. CASE exec[e].by = "job"
    <3>1. job[k][n].state = "active"
      BY <1>1, <1>3, <2>1 DEF QueueInv, WorkersHaveJobs
    <3>2. job' = [job EXCEPT ![k][n].state = how]
      BY <1>1, <1>2, <2>1 DEF Finish
    <3>3. job \in [Key -> [Attempt -> Job]] /\ job[k][n] \in Job
      BY Types
    <3>4. job'[k] = [job[k] EXCEPT ![n].state = how]
      BY <3>2, <3>3
    <3>5. job'[k][n] = [job[k][n] EXCEPT !.state = how]
      BY <3>3, <3>4
    <3>6. job'[k][n].tracked = job[k][n].tracked
      BY <3>3, <3>5 DEF Job
    <3> QED
      BY <2>1, <3>1, <3>2, <3>6, SetStateType
  <2>2. CASE exec[e].by # "job"
    BY <1>2, <2>2 DEF Finish
  <2> QED
    BY <2>1, <2>2
<1>9. \A d \in Exec : exec[d].key \in Key /\ exec[d].n \in Attempt
  BY DEF TypeOK
<1>10. \A d \in Exec \ {e} : exec[d].pc # "idle" /\ exec[d].by = "job" =>
         job'[exec[d].key][exec[d].n] = job[exec[d].key][exec[d].n]
  BY <1>1, <1>3, <1>8, <1>9 DEF QueueInv, OneWorkerPerJob
<1>11. WorkersHaveJobs'
  BY <1>5, <1>7, <1>9, <1>10 DEF QueueInv, WorkersHaveJobs
<1>12. OneWorkerPerJob'
  BY <1>7 DEF QueueInv, OneWorkerPerJob
<1>13. \A i \in Key, m \in Attempt :
         job'[i][m].state # "none" =>
           job[i][m].state # "none" /\ job'[i][m].tracked = job[i][m].tracked
  BY <1>8
<1>14. \A d \in Disp : disp[d].key \in Key
  BY DEF TypeOK
<1>15. UntrackedIsBlamed'
  BY <1>3, <1>5, <1>13, <1>14 DEF QueueInv, UntrackedIsBlamed
<1>16. \A i \in Key, m \in Attempt : Pending(i, m) => Pending(i, m)' \/ Settled(i)'
  <2> SUFFICES ASSUME NEW i \in Key, NEW m \in Attempt, Pending(i, m), ~Settled(i)'
               PROVE  Pending(i, m)'
    OBVIOUS
  <2>1. CASE job[i][m].state = "queued"
    <3>1. exec[e].by = "job" => job[k][n].state = "active"
      BY <1>1, <1>3 DEF QueueInv, WorkersHaveJobs
    <3>2. job'[i][m] = job[i][m]
      BY <1>8, <2>1, <3>1
    <3> QED
      BY <2>1, <3>2 DEF Pending
  <2>2. CASE job[i][m].state # "queued"
    <3>1. PICK d \in Exec : /\ exec[d].pc \notin {"idle", "return"} /\ exec[d].by = "job"
                            /\ exec[d].key = i /\ exec[d].n = m
      BY <2>2 DEF Pending
    <3>2. d # e
      BY <1>1, <1>6, <3>1
    <3> QED
      BY <1>7, <3>1, <3>2 DEF Pending
  <2> QED
    BY <2>1, <2>2
<1>17. \A m \in Attempt : m \in m..MaxRetries
  BY WebhookAssumption DEF Attempt
<1>18. \A i \in Key, m \in Attempt : Known(i, m)' => Known(i, m)
  BY <1>3, <1>13 DEF Known
<1>19. \A i \in Key : Enqueueing(i) => Enqueueing(i)'
  BY <1>3 DEF Enqueueing
<1>20. (ClimbGoesOn /\ RecordedIsSeenTo)'
  BY <1>3, <1>5, <1>16, <1>17, <1>18, <1>19, StillSeenTo
<1> QED
  BY <1>11, <1>12, <1>15, <1>20 DEF QueueInv

\* The jobs of dead workers are queued again, or noted as stalled twice.
LEMMA CrashForgetsNothing == ASSUME Inv, Inv', QueueInv, Crash PROVE QueueInv'
<1> USE DEF Inv
<1>1. UNCHANGED <<row, got, tried>>
  BY DEF Crash
<1>2. (\A e \in Exec : exec'[e].pc = "idle") /\ (\A d \in Disp : disp'[d].pc = "idle")
  BY DEF Crash, Resting, Silent
<1>3. \A i \in Key : cause[i] \subseteq cause'[i]
  BY DEF Crash
<1>4. \A i \in Key, m \in Attempt :
        /\ job'[i][m].tracked = job[i][m].tracked
        /\ job'[i][m].state # "none" => job[i][m].state # "none"
        /\ job[i][m].state = "queued" => job'[i][m].state = "queued"
        /\ job[i][m].state = "active" =>
             job'[i][m].state = IF job[i][m].stalled THEN "failed" ELSE "queued"
  <2> SUFFICES ASSUME NEW i \in Key, NEW m \in Attempt
               PROVE  /\ job'[i][m].tracked = job[i][m].tracked
                      /\ job'[i][m].state # "none" => job[i][m].state # "none"
                      /\ job[i][m].state = "queued" => job'[i][m].state = "queued"
                      /\ job[i][m].state = "active" =>
                           job'[i][m].state = IF job[i][m].stalled THEN "failed" ELSE "queued"
    OBVIOUS
  <2>1. job[i][m] \in Job
    BY Types
  <2>2. CASE job[i][m].state # "active"
    BY <2>2 DEF Crash
  <2>3. CASE job[i][m].state = "active"
    <3>1. job'[i][m] = [job[i][m] EXCEPT !.state = IF job[i][m].stalled THEN "failed"
                                                   ELSE "queued",
                                         !.stalled = TRUE]
      BY <2>3 DEF Crash
    <3> QED
      BY <2>1, <2>3, <3>1 DEF Job
  <2> QED
    BY <2>2, <2>3
<1>5. \A i \in Key : (\E m \in Attempt : job[i][m].state = "active" /\ job[i][m].stalled)
                       => cause'[i] # {}
  BY DEF Crash
<1>6. \A i \in Key : Enqueueing(i) => cause'[i] # {}
  BY DEF Crash, Enqueueing
<1>7. WorkersHaveJobs' /\ OneWorkerPerJob'
  BY <1>2 DEF WorkersHaveJobs, OneWorkerPerJob
<1>8. UntrackedIsBlamed'
  BY <1>2, <1>3, <1>4 DEF QueueInv, UntrackedIsBlamed
<1>9. \A i \in Key, m \in Attempt : Pending(i, m) => Pending(i, m)' \/ Settled(i)'
  <2> SUFFICES ASSUME NEW i \in Key, NEW m \in Attempt, Pending(i, m)
               PROVE  job'[i][m].state = "queued" \/ cause'[i] # {}
    BY DEF Pending, Settled
  <2>1. job[i][m].state \in {"queued", "active"}
    BY DEF Pending, QueueInv, WorkersHaveJobs
  <2> QED
    BY <1>4, <1>5, <2>1
<1>10. \A m \in Attempt : m \in m..MaxRetries
  BY WebhookAssumption DEF Attempt
<1>11. \A i \in Key, m \in Attempt : Known(i, m)' => Known(i, m)
  BY <1>1, <1>4 DEF Known
<1>12. \A i \in Key : Enqueueing(i) => Settled(i)'
  BY <1>6 DEF Settled
<1>13. (ClimbGoesOn /\ RecordedIsSeenTo)'
  BY <1>1, <1>3, <1>9, <1>10, <1>11, <1>12, StillSeenTo
<1> QED
  BY <1>7, <1>8, <1>13 DEF QueueInv

\* Only finished jobs are forgotten.
LEMMA TrimForgetsNothing ==
  ASSUME Inv, Inv', QueueInv, NEW k \in Key, NEW n \in Attempt, TrimJob(k, n) PROVE QueueInv'
<1> USE DEF Inv
<1>1. /\ job[k][n].state \in {"done", "failed"}
      /\ UNCHANGED <<row, exec, disp, got, tried, cause>>
  BY DEF TrimJob
<1>2. /\ \A i \in Key, m \in Attempt : job'[i][m] = job[i][m] \/ (i = k /\ m = n)
      /\ job'[k][n].state = "none"
  <2>1. job' = [job EXCEPT ![k] = [@ EXCEPT ![n] = NoJob]] /\ NoJob \in Job
    BY DEF TrimJob, NoJob, Job
  <2>2. job'[k] = [job[k] EXCEPT ![n] = NoJob]
    BY <2>1, Types
  <2>3. job'[k][n] = NoJob
    BY <2>2, Types
  <2> QED
    BY <2>1, <2>3, SetJobType DEF NoJob
<1>3. \A d \in Exec : exec[d].key \in Key /\ exec[d].n \in Attempt
  BY DEF TypeOK
<1>4. WorkersHaveJobs'
  BY <1>1, <1>2, <1>3 DEF QueueInv, WorkersHaveJobs
<1>5. OneWorkerPerJob'
  BY <1>1 DEF QueueInv, OneWorkerPerJob
<1>6. UntrackedIsBlamed'
  BY <1>1, <1>2 DEF QueueInv, UntrackedIsBlamed
<1>7. \A i \in Key, m \in Attempt : Pending(i, m) => Pending(i, m)'
  BY <1>1, <1>2 DEF Pending
<1>8. \A m \in Attempt : m \in m..MaxRetries
  BY WebhookAssumption DEF Attempt
<1>9. \A i \in Key, m \in Attempt : Known(i, m)' => Known(i, m)
  BY <1>1, <1>2 DEF Known
<1>10. \A i \in Key : Enqueueing(i) => Enqueueing(i)'
  BY <1>1 DEF Enqueueing
<1>11. (ClimbGoesOn /\ RecordedIsSeenTo)'
  BY <1>1, <1>7, <1>8, <1>9, <1>10, StillSeenTo
<1> QED
  BY <1>4, <1>5, <1>6, <1>11 DEF QueueInv

LEMMA InitQueueInv == Init => QueueInv
<1> SUFFICES ASSUME Init PROVE QueueInv
  OBVIOUS
<1>1. /\ \A e \in Exec : exec[e].pc = "idle"
      /\ \A d \in Disp : disp[d].pc = "idle"
      /\ \A k \in Key : tried[k] = {} /\ row[k].status = "none"
      /\ \A k \in Key, n \in Attempt : job[k][n].state = "none"
  BY DEF Init, Resting, Silent, NoJob
<1> QED
  BY <1>1 DEF QueueInv, WorkersHaveJobs, OneWorkerPerJob, UntrackedIsBlamed, ClimbGoesOn,
              RecordedIsSeenTo, Known

LEMMA NextQueueInv == Inv /\ Inv' /\ QueueInv /\ [Next]_vars => QueueInv'
<1> SUFFICES ASSUME Inv, Inv', QueueInv, [Next]_vars PROVE QueueInv'
  OBVIOUS
<1>1. CASE \E d \in Disp : Dispatch(d) \/ InsertFails(d) \/ EnqueueEventFails(d)
                           \/ (\E k \in Key : FindActive(d, k))
  BY <1>1, DispatchForgetsNothing, EnqueueForgetsNothing DEF Dispatch
<1>2. CASE \E e \in Exec : Execute(e) \/ RecordingFails(e) \/ FailureHandlingFails(e)
  <2>1. PICK e \in Exec : Execute(e) \/ RecordingFails(e) \/ FailureHandlingFails(e)
    BY <1>2
  <2>2. CASE ValidateUrl(e)
    BY <2>2, WorkForgetsNothing, FinishForgetsNothing DEF ValidateUrl
  <2> QED
    BY <2>1, <2>2, WorkForgetsNothing, RetryForgetsNothing, FinishForgetsNothing DEF Execute
<1>3. CASE \E e \in Exec, k \in Key : \/ ReplayDeadLetter(e, k)
                                     \/ \E n \in Attempt : TakeJob(e, k, n)
  BY <1>3, ReplayForgetsNothing, TakeJobForgetsNothing
<1>4. CASE Crash \/ (\E k \in Key, n \in Attempt : TrimJob(k, n))
           \/ (\E b \in BOOLEAN : SetActive(b)) \/ DeleteWebhook
  BY <1>4, CrashForgetsNothing, TrimForgetsNothing, OwnerForgetsNothing
<1>5. CASE UNCHANGED vars
  BY <1>5 DEF vars, QueueInv, WorkersHaveJobs, OneWorkerPerJob, UntrackedIsBlamed, ClimbGoesOn,
              RecordedIsSeenTo, Known, Pending, Settled, Served, Enqueueing
<1> QED
  BY <1>1, <1>2, <1>3, <1>4, <1>5 DEF Next

\* What is seen to is in the queue or in somebody's hands.
LEMMA SeenToIsBusy == Inv /\ QueueInv => OwedIsQueued
<1> SUFFICES ASSUME Inv, QueueInv, NEW k \in Key,
                    row[k].status \in {"pending", "failed"}, ~Served(k), cause[k] = {}
             PROVE  Busy(k)
  BY DEF OwedIsQueued
<1>1. CASE Enqueueing(k)
  BY <1>1 DEF Enqueueing, Busy
<1>2. CASE \E m \in Attempt : Pending(k, m)
  <2>1. PICK m \in Attempt : Pending(k, m)
    BY <1>2
  <2>2. job[k][m].state \in {"queued", "active"}
    BY <2>1 DEF Pending, QueueInv, WorkersHaveJobs
  <2>3. job[k][m].tracked
    BY <2>2 DEF QueueInv, UntrackedIsBlamed
  <2> QED
    BY <2>2, <2>3 DEF Busy
<1> QED
  BY <1>1, <1>2 DEF QueueInv, RecordedIsSeenTo, Settled

\* Jobs, workers and dispatchers lose no event that is owed: the inductive
\* invariant, for any events, workers, dispatchers, crashes and faults.
THEOREM QueueInvariant == Spec => []QueueInv
BY InitQueueInv, NextQueueInv, DeliveryInvariant, PTL DEF Spec

\* DeliveryInv: an event recorded as owed, not yet served, is queued or worked
\* on, unless one of the known causes has touched it (handleFailure, dispatch
\* and the two queues).
THEOREM DeliveryInvTheorem == Spec => []DeliveryInv
<1>1. Inv /\ QueueInv => DeliveryInv
  BY SeenToIsBusy DEF DeliveryInv, Inv
<1> QED
  BY <1>1, DeliveryInvariant, QueueInvariant, PTL

-----------------------------------------------------------------------------
(* The refinement of AtLeastOnce *)

\* What a row of a given status promises.
PromiseIn(status) ==
  CASE status = "none" -> "unknown"
    [] status \in {"pending", "failed"} -> "owed"
    [] status = "success" -> "delivered"
    [] status = "dead_letter" -> "dead"

Promise == [k \in Key |-> PromiseIn(row[k].status)]

LEMMA PromiseOf ==
  ASSUME TypeOK, NEW k \in Key
  PROVE  /\ row[k].status = "none" <=> Promise[k] = "unknown"
         /\ row[k].status \in {"pending", "failed"} <=> Promise[k] = "owed"
         /\ row[k].status = "success" <=> Promise[k] = "delivered"
         /\ row[k].status = "dead_letter" <=> Promise[k] = "dead"
<1>1. row[k].status \in {"none", "pending", "failed", "success", "dead_letter"}
  BY Types DEF RowRecord, Status
<1> QED
  BY <1>1 DEF Promise, PromiseIn

LEMMA NextPromiseOf ==
  ASSUME TypeOK', NEW k \in Key
  PROVE  /\ row'[k].status = "none" <=> Promise'[k] = "unknown"
         /\ row'[k].status \in {"pending", "failed"} <=> Promise'[k] = "owed"
         /\ row'[k].status = "success" <=> Promise'[k] = "delivered"
         /\ row'[k].status = "dead_letter" <=> Promise'[k] = "dead"
<1>1. row'[k].status \in {"none", "pending", "failed", "success", "dead_letter"}
  BY DEF TypeOK, Status
<1> QED
  BY <1>1 DEF Promise, PromiseIn

\* A step that changes the row of one event changes the promise of that event.
LEMMA Becoming ==
  ASSUME NEW k \in Key, \A i \in Key \ {k} : row'[i] = row[i]
  PROVE  Promise' = [Promise EXCEPT ![k] = Promise'[k]]
BY DEF Promise

\* SetRow by somebody whose status is allowed where the promise stands.
LEMMA SetRowRefines ==
  ASSUME Inv, TypeOK', NEW e \in Exec, got' = got,
         \/ MarkSuccess(e) \/ MarkFailed(e) \/ MarkDeadLetter(e) \/ ScheduleRetry(e)
  PROVE  [Delivery!Next]_<<Promise, got>>
<1> DEFINE k == exec[e].key
<1>1. k \in Key /\ TypeOK /\ exec[e].pc # "idle"
  BY Types DEF Inv, ExecRecord, MarkSuccess, MarkFailed, MarkDeadLetter, ScheduleRetry
<1>2. PICK st \in {"success", "failed", "dead_letter", "pending"}, b \in BOOLEAN :
        /\ SetRow(k, st, b)
        /\ st = "success" => k \in got
  BY <1>1, AtRung DEF MarkSuccess, MarkFailed, MarkDeadLetter, ScheduleRetry
<1>3. /\ \A i \in Key \ {k} : row'[i] = row[i]
      /\ row'[k].status = IF row[k].status = "none" THEN "none" ELSE st
  BY <1>1, <1>2, SetRowType DEF Status
<1>4. Promise' = [Promise EXCEPT ![k] = Promise'[k]]
  BY <1>1, <1>3, Becoming
<1>5. Promise[k] \in {"unknown", "owed", "delivered", "dead"}
  BY <1>1, PromiseOf, Types DEF RowRecord, Status
<1>6. Promise'[k] = CASE Promise[k] = "unknown" -> "unknown"
                      [] Promise[k] # "unknown" /\ st = "success" -> "delivered"
                      [] Promise[k] # "unknown" /\ st = "dead_letter" -> "dead"
                      [] Promise[k] # "unknown" /\ st \in {"failed", "pending"} -> "owed"
  BY <1>1, <1>2, <1>3, PromiseOf, NextPromiseOf
<1>7. CASE Promise'[k] = Promise[k]
  <2>1. Promise' = Promise
    BY <1>4, <1>7 DEF Promise
  <2> QED
    BY <2>1
<1>8. CASE Promise'[k] # Promise[k]
  <2>1. CASE Promise'[k] = "delivered"
    <3>1. k \in got /\ Promise[k] \in {"owed", "dead"}
      BY <1>2, <1>5, <1>6, <1>8, <2>1
    <3>2. Promise' = [Promise EXCEPT ![k] = "delivered"]
      BY <1>4, <2>1
    <3>3. k \in Key /\ got' = got
      BY <1>1
    <3> QED
      BY <3>1, <3>2, <3>3
      DEF Delivery!Next, Delivery!Deliver, Delivery!Become, Promise, PromiseIn
  <2>2. CASE Promise'[k] = "dead"
    BY <1>1, <1>4, <1>5, <1>6, <1>8, <2>2
    DEF Delivery!Next, Delivery!GiveUp, Delivery!Become, Promise, PromiseIn
  <2>3. CASE Promise'[k] = "owed"
    BY <1>1, <1>4, <1>5, <1>6, <1>8, <2>3
    DEF Delivery!Next, Delivery!Reopen, Delivery!Become, Promise, PromiseIn
  <2> QED
    BY <1>5, <1>6, <1>8, <2>1, <2>2, <2>3
<1> QED
  BY <1>7, <1>8

\* dispatch records an event nobody has recorded.
LEMMA InsertRefines ==
  ASSUME Inv, TypeOK', NEW d \in Disp, InsertEvent(d) \/ InsertFails(d)
  PROVE  [Delivery!Next]_<<Promise, got>>
<1> DEFINE k == disp[d].key
<1>1. k \in Key /\ TypeOK /\ got' = got
  BY Types DEF Inv, DispRecord, InsertEvent, InsertFails
<1>2. CASE row' = row
  BY <1>1, <1>2 DEF Promise
<1>3. CASE /\ row[k].status = "none"
           /\ row' = [row EXCEPT ![k] = [status |-> "pending", attempted |-> FALSE]]
  <2>1. (\A i \in Key \ {k} : row'[i] = row[i]) /\ row'[k].status = "pending"
    BY <1>1, <1>3, Types
  <2>2. Promise[k] = "unknown" /\ Promise'[k] = "owed"
    BY <1>1, <1>3, <2>1, PromiseOf, NextPromiseOf
  <2>3. Promise' = [Promise EXCEPT ![k] = "owed"]
    BY <1>1, <2>1, <2>2, Becoming
  <2> QED
    BY <1>1, <2>2, <2>3 DEF Delivery!Next, Delivery!Accept, Delivery!Become, Promise, PromiseIn
<1> QED
  BY <1>2, <1>3 DEF InsertEvent, InsertFails, CanInsert

LEMMA StepRefines == Inv /\ Inv' /\ [Next]_vars => [Delivery!Next]_<<Promise, got>>
<1> SUFFICES ASSUME Inv, Inv', [Next]_vars PROVE [Delivery!Next]_<<Promise, got>>
  OBVIOUS
<1> USE DEF Inv
<1>1. CASE \E d \in Disp : InsertEvent(d) \/ InsertFails(d)
  BY <1>1, InsertRefines
<1>2. CASE \E e \in Exec : \/ MarkSuccess(e) \/ MarkFailed(e) \/ MarkDeadLetter(e)
                           \/ ScheduleRetry(e)
  BY <1>2, SetRowRefines DEF MarkSuccess, MarkFailed, MarkDeadLetter, ScheduleRetry
<1>3. CASE \E e \in Exec : PostEvent(e)
  <2>1. PICK e \in Exec : PostEvent(e)
    BY <1>3
  <2>2. exec[e].key \in Key /\ Promise' = Promise
    BY <2>1, Types DEF PostEvent, ExecRecord, Promise
  <2>3. got' = got \/ got' = got \cup {exec[e].key}
    BY <2>1 DEF PostEvent
  <2> QED
    BY <2>2, <2>3 DEF Delivery!Next, Delivery!Reach, Promise, PromiseIn
<1>4. CASE DeleteWebhook
  <2>1. Promise' = [k \in Key |-> "unknown"] /\ got' = got
    BY <1>4 DEF DeleteWebhook, Promise, PromiseIn
  <2> QED
    BY <2>1 DEF Delivery!Next, Delivery!Forget, Promise, PromiseIn
<1>5. CASE row' = row /\ got' = got
  BY <1>5 DEF Promise
<1>6. CASE \E d \in Disp : \/ SelectEvent(d) \/ InsertRefused(d) \/ EnqueueEvent(d)
                           \/ EnqueueEventFails(d) \/ \E k \in Key : FindActive(d, k)
  BY <1>5, <1>6 DEF SelectEvent, InsertRefused, EnqueueEvent, EnqueueEventFails, FindActive
<1>7. CASE \E e \in Exec : \/ ValidateUrl(e) \/ RecordTrigger(e) \/ DropUntracked(e)
                           \/ DisableWebhook(e) \/ EnqueueRetry(e) \/ CompleteJob(e)
                           \/ RecordingFails(e) \/ FailureHandlingFails(e)
                           \/ \E k \in Key : \/ ReplayDeadLetter(e, k)
                                             \/ \E n \in Attempt : TakeJob(e, k, n)
  BY <1>5, <1>7 DEF ValidateUrl, RecordTrigger, DropUntracked, DisableWebhook, EnqueueRetry,
     CompleteJob, RecordingFails, FailureHandlingFails, ReplayDeadLetter, TakeJob
<1>8. CASE Crash \/ (\E k \in Key, n \in Attempt : TrimJob(k, n))
           \/ (\E b \in BOOLEAN : SetActive(b)) \/ UNCHANGED vars
  BY <1>5, <1>8 DEF Crash, TrimJob, SetActive, vars
<1> QED
  BY <1>1, <1>2, <1>3, <1>4, <1>6, <1>7, <1>8 DEF Next, Dispatch, Execute

\* Rows and receiver implement at-least-once delivery: an event recorded as
\* delivered (markSuccess) was received, whatever crashes, races and replays do.
THEOREM DeliveryRefinement == Spec => ImplementsAtLeastOnce
<1>1. Init => Delivery!Init
  BY DEF Init, Delivery!Init
<1>2. Inv /\ Inv' /\ [Next]_vars => [Delivery!Next]_<<Promise, got>>
  BY StepRefines
<1> QED
  BY <1>1, <1>2, DeliveryInvariant, PTL
  DEF Spec, ImplementsAtLeastOnce, Delivery!Spec, Promise, PromiseIn
=============================================================================
