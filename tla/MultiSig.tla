------------------------------ MODULE MultiSig -------------------------------
(***************************************************************************)
(* One payment that needs several signers (MultiSigService): the request,  *)
(* the signers' concurrent calls, submission to Horizon once enough have   *)
(* signed, the administrator's manual submission and the expiry job.       *)
(* A call holds the row as it was when it was loaded: a Sequelize instance *)
(* writes the fields it is told to write, whatever the row says by then.   *)
(***************************************************************************)
EXTENDS Naturals, FiniteSets

CONSTANTS
  Signer,    \* authorized_signers
  Required,  \* required_signatures
  Call,      \* concurrent requests
  Faults     \* how many faults may happen: crash, failed query, no answer

ASSUME MultiSigAssumption ==
  /\ IsFiniteSet(Signer)
  /\ Required \in 2..Cardinality(Signer)
  /\ Faults \in Nat

VARIABLES
  pay,      \* the row: status, collected_signatures_count, whether it has expiry_job_id
  sigs,     \* the signers with a row in multi_sig_signatures
  job,      \* the delayed job expire-<id>
  call,     \* the requests
  expirer,  \* the expiry worker: "idle", or the status it has read
  ledger,   \* payments made, and whether another transaction took the sequence number
  time,     \* 0: the envelope is valid, 1: its 300 s are over, 2: so are the 24 h
  mishap,   \* what has gone wrong so far
  faults

vars == <<pay, sigs, job, call, expirer, ledger, time, mishap, faults>>

Status == {"none", "pending", "ready", "submitted", "expired", "failed"}
Mishap == {"miscounted", "overrun", "refused", "crash", "db", "unanswered"}

Resting == [pc |-> "idle", signer |-> CHOOSE s \in Signer : TRUE, count |-> 0, hasJob |-> FALSE]

Init ==
  /\ pay     = [status |-> "none", count |-> 0, hasJob |-> FALSE]
  /\ sigs    = {}
  /\ job     = "none"
  /\ call    = [c \in Call |-> Resting]
  /\ expirer = "idle"
  /\ ledger  = [paid |-> 0, taken |-> FALSE]
  /\ time    = 0
  /\ mishap  = {}
  /\ faults  = Faults

Fault(f) ==
  /\ faults > 0
  /\ faults' = faults - 1
  /\ mishap' = mishap \cup {f}

At(c, pc) == call[c].pc = pc
GoTo(c, pc) == call' = [call EXCEPT ![c].pc = pc]
Return(c) == call' = [call EXCEPT ![c] = Resting]
Write(field, value) == pay' = [pay EXCEPT ![field] = value]

-----------------------------------------------------------------------------
(* createPaymentRequest *)

CreateRow(c) ==
  /\ At(c, "idle")
  /\ pay.status = "none"
  /\ Write("status", "pending")
  /\ GoTo(c, "schedule")
  /\ UNCHANGED <<sigs, job, expirer, ledger, time, mishap, faults>>

ScheduleExpiry(c) ==
  /\ At(c, "schedule")
  /\ job' = "waiting"
  /\ GoTo(c, "saveJob")
  /\ UNCHANGED <<pay, sigs, expirer, ledger, time, mishap, faults>>

SaveJobId(c) ==
  /\ At(c, "saveJob")
  /\ Write("hasJob", TRUE)
  /\ Return(c)
  /\ UNCHANGED <<sigs, job, expirer, ledger, time, mishap, faults>>

-----------------------------------------------------------------------------
(* submitSignature *)

IsAcceptingSignatures == pay.status = "pending" /\ time < 2

LoadToSign(c, s) ==
  /\ At(c, "idle")
  /\ IsAcceptingSignatures
  /\ call' = [call EXCEPT ![c] = [pc |-> "check", signer |-> s,
                                  count |-> pay.count, hasJob |-> pay.hasJob]]
  /\ UNCHANGED <<pay, sigs, job, expirer, ledger, time, mishap, faults>>

\* findOne, and the envelope is verified.
CheckDuplicate(c) ==
  /\ At(c, "check")
  /\ IF call[c].signer \in sigs THEN Return(c) ELSE GoTo(c, "create")
  /\ UNCHANGED <<pay, sigs, job, expirer, ledger, time, mishap, faults>>

\* The unique index refuses a second row of the signer: create throws.
CreateSignature(c) ==
  /\ At(c, "create")
  /\ IF call[c].signer \in sigs
     THEN Return(c) /\ UNCHANGED sigs
     ELSE GoTo(c, "count") /\ sigs' = sigs \cup {call[c].signer}
  /\ UNCHANGED <<pay, job, expirer, ledger, time, mishap, faults>>

\* The count written is the one loaded, plus one.
NewCount(c) == call[c].count + 1

\* Mutant: more than the threshold is needed.
SaveCountAbove(c) ==
  /\ At(c, "count")
  /\ Write("count", NewCount(c))
  /\ mishap' = mishap \cup {m \in {"miscounted"} : pay.count # call[c].count}
  /\ IF NewCount(c) > Required THEN GoTo(c, "ready") ELSE Return(c)
  /\ UNCHANGED <<sigs, job, expirer, ledger, time, faults>>

SaveCount(c) ==
  /\ At(c, "count")
  /\ Write("count", NewCount(c))
  /\ mishap' = mishap \cup {m \in {"miscounted"} : pay.count # call[c].count}
  /\ IF NewCount(c) >= Required THEN GoTo(c, "ready") ELSE Return(c)
  /\ UNCHANGED <<sigs, job, expirer, ledger, time, faults>>

MarkReady(c) ==
  /\ At(c, "ready")
  /\ Write("status", "ready")
  /\ GoTo(c, "assemble")
  /\ UNCHANGED <<sigs, job, expirer, ledger, time, mishap, faults>>

\* Mutant: only a payment submitted before is refused.
LoadToSubmitAny(c) ==
  /\ At(c, "idle")
  /\ pay.status \notin {"none", "submitted"}
  /\ call' = [call EXCEPT ![c].pc = "assemble", ![c].hasJob = pay.hasJob]
  /\ UNCHANGED <<pay, sigs, job, expirer, ledger, time, mishap, faults>>

\* submitToNetwork
LoadToSubmit(c) ==
  /\ At(c, "idle")
  /\ pay.status = "ready"
  /\ call' = [call EXCEPT ![c].pc = "assemble", ![c].hasJob = pay.hasJob]
  /\ UNCHANGED <<pay, sigs, job, expirer, ledger, time, mishap, faults>>

-----------------------------------------------------------------------------
(* _assembleAndSubmit *)

\* The stored signatures are merged and the signed envelope is saved.
Assemble(c) ==
  /\ At(c, "assemble")
  /\ GoTo(c, "submit")
  /\ UNCHANGED <<pay, sigs, job, expirer, ledger, time, mishap, faults>>

CanPay == ledger.paid = 0 /\ ~ledger.taken /\ time = 0
PayOnce == ledger' = [ledger EXCEPT !.paid = 1]

\* Horizon answers a transaction that is already on the ledger with its result.
HorizonAccepts(c) ==
  /\ At(c, "submit")
  /\ \/ CanPay /\ PayOnce
     \/ ledger.paid > 0 /\ UNCHANGED ledger
  /\ GoTo(c, "submitted")
  /\ UNCHANGED <<pay, sigs, job, expirer, time, mishap, faults>>

\* Bad signatures, sequence number or time bound, or no funds.
HorizonRefuses(c) ==
  /\ At(c, "submit")
  /\ ledger.paid = 0
  /\ mishap' = mishap \cup {"refused"}
  /\ GoTo(c, "failed")
  /\ UNCHANGED <<pay, sigs, job, expirer, ledger, time, faults>>

\* A timeout: the transaction may be on the ledger all the same.
HorizonUnanswered(c) ==
  /\ At(c, "submit")
  /\ Fault("unanswered")
  /\ (CanPay /\ PayOnce) \/ UNCHANGED ledger
  /\ GoTo(c, "failed")
  /\ UNCHANGED <<pay, sigs, job, expirer, time>>

MarkFailed(c) ==
  /\ At(c, "failed")
  /\ Write("status", "failed")
  /\ Return(c)
  /\ UNCHANGED <<sigs, job, expirer, ledger, time, mishap, faults>>

MarkSubmitted(c) ==
  /\ At(c, "submitted")
  /\ Write("status", "submitted")
  /\ GoTo(c, "cancel")
  /\ UNCHANGED <<sigs, job, expirer, ledger, time, mishap, faults>>

\* A job that runs is locked and stays.
CancelExpiry(c) ==
  /\ At(c, "cancel")
  /\ job' = IF call[c].hasJob /\ job = "waiting" THEN "removed" ELSE job
  /\ Return(c)
  /\ UNCHANGED <<pay, sigs, expirer, ledger, time, mishap, faults>>

-----------------------------------------------------------------------------
(* expirePayment, by the worker of the queue multisig-expiry *)

\* Mutant: the status is not looked at.
LoadToExpireAny ==
  /\ job = "waiting" /\ time = 2
  /\ job' = "active" /\ expirer' = pay.status
  /\ UNCHANGED <<pay, sigs, call, ledger, time, mishap, faults>>

LoadToExpire ==
  /\ job = "waiting" /\ time = 2
  /\ IF pay.status = "pending"
     THEN job' = "active" /\ expirer' = pay.status
     ELSE job' = "done" /\ UNCHANGED expirer
  /\ UNCHANGED <<pay, sigs, call, ledger, time, mishap, faults>>

MarkExpired ==
  /\ expirer # "idle"
  /\ Write("status", "expired")
  /\ mishap' = mishap \cup {m \in {"overrun"} : pay.status # expirer}
  /\ job' = "done" /\ expirer' = "idle"
  /\ UNCHANGED <<sigs, call, ledger, time, faults>>

-----------------------------------------------------------------------------
(* Faults and the outside *)

Writing == {"schedule", "saveJob", "check", "create", "count", "ready",
            "assemble", "failed", "submitted"}

\* A query or queue call throws and so does the request.
QueryFails(c) ==
  /\ call[c].pc \in Writing
  /\ Fault("db")
  /\ Return(c)
  /\ UNCHANGED <<pay, sigs, job, expirer, ledger, time>>

\* The job of the dead worker stalls and is run again.
Crash ==
  /\ Fault("crash")
  /\ call' = [c \in Call |-> Resting]
  /\ expirer' = "idle"
  /\ job' = IF job = "active" THEN "waiting" ELSE job
  /\ ledger' \in {ledger} \cup
       {[ledger EXCEPT !.paid = 1] : c \in {d \in Call : At(d, "submit") /\ CanPay}}
  /\ UNCHANGED <<pay, sigs, time>>

TimePasses ==
  /\ time < 2
  /\ time' = time + 1
  /\ UNCHANGED <<pay, sigs, job, call, expirer, ledger, mishap, faults>>

\* Another transaction of the source account, such as a second request built
\* while this one was open, takes the sequence number.
SequenceTaken ==
  /\ ledger.paid = 0 /\ ~ledger.taken
  /\ ledger' = [ledger EXCEPT !.taken = TRUE]
  /\ UNCHANGED <<pay, sigs, job, call, expirer, time, mishap, faults>>

-----------------------------------------------------------------------------
Proceed(c) ==
  \/ ScheduleExpiry(c) \/ SaveJobId(c)
  \/ CheckDuplicate(c) \/ CreateSignature(c) \/ SaveCount(c) \/ MarkReady(c)
  \/ Assemble(c) \/ HorizonAccepts(c) \/ HorizonRefuses(c)
  \/ MarkFailed(c) \/ MarkSubmitted(c) \/ CancelExpiry(c)

Next ==
  \/ \E c \in Call : \/ CreateRow(c) \/ LoadToSubmit(c) \/ Proceed(c)
                     \/ HorizonUnanswered(c) \/ QueryFails(c)
                     \/ \E s \in Signer : LoadToSign(c, s)
  \/ LoadToExpire \/ MarkExpired
  \/ Crash \/ TimePasses \/ SequenceTaken

Spec == Init /\ [][Next]_vars

\* Requests run on and the worker takes the job when it is due.
Fairness ==
  /\ \A c \in Call : WF_vars(Proceed(c))
  /\ WF_vars(LoadToExpire) /\ WF_vars(MarkExpired)

FairSpec == Spec /\ Fairness

-----------------------------------------------------------------------------
\* Every variable has its type.
TypeOK ==
  /\ pay \in [status : Status, count : 0..Cardinality(Signer), hasJob : BOOLEAN]
  /\ sigs \subseteq Signer
  /\ job \in {"none", "waiting", "active", "done", "removed"}
  /\ call \in [Call -> [pc : Writing \cup {"idle", "submit", "cancel"}, signer : Signer,
                        count : 0..Cardinality(Signer), hasJob : BOOLEAN]]
  /\ expirer \in Status \cup {"idle"}
  /\ ledger \in [paid : 0..1, taken : BOOLEAN]
  /\ time \in 0..2
  /\ mishap \subseteq Mishap
  /\ faults \in 0..Faults

Quiet == expirer = "idle" /\ \A c \in Call : At(c, "idle")

\* When nothing is in progress a payment the ledger made is recorded as
\* submitted, whichever of several submissions came last, unless a call was cut
\* short, an answer was lost, one of several submissions was refused, or the
\* expiry job wrote over a newer status.
PaidIsRecorded ==
  Quiet /\ ledger.paid = 1 /\ mishap \subseteq {"miscounted"} => pay.status = "submitted"

\* A payment recorded as submitted was made, in every case.
SubmittedIsPaid == pay.status = "submitted" => ledger.paid = 1

\* What the row says of the ledger.
RecordInv == TypeOK /\ PaidIsRecorded /\ SubmittedIsPaid

\* Once enough signers have signed the payment is taken out of "pending",
\* unless a signer's count was overwritten or a call was cut short.
QuorumIsNoticed ==
  Cardinality(sigs) >= Required ~> pay.status # "pending" \/ mishap \ {"refused"} # {}

\* However the calls interleave, the ledger pays only with Required signatures.
Quorum == INSTANCE QuorumPay WITH
  Signer <- Signer, Required <- Required, signed <- sigs, paid <- ledger.paid

ImplementsQuorumPay == Quorum!Spec

\* "auto-submit when the threshold is reached" (submitSignature): with enough
\* signatures and nothing in progress the payment does not stay pending.
ThresholdIsSubmitted ==
  Quiet /\ Cardinality(sigs) >= Required => pay.status # "pending"
=============================================================================
