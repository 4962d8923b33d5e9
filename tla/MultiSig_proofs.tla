--------------------------- MODULE MultiSig_proofs ---------------------------
(***************************************************************************)
(* Theorems about MultiSig for any signers, threshold, requests and        *)
(* faults.                                                                 *)
(*                                                                         *)
(* The argument: a count, in the row or loaded by a request, never exceeds *)
(* the number of signatures kept, so whoever gets past the threshold has   *)
(* seen a quorum; and a payment the ledger made keeps a request on its way *)
(* to record it until the row says so, or until a mishap is on record.     *)
(***************************************************************************)
EXTENDS MultiSig, FiniteSetTheorems, TLAPS

\* Lost updates make a count too small, never too large.
CountBound ==
  /\ pay.count <= Cardinality(sigs)
  /\ \A c \in Call :
       /\ call[c].pc \in {"check", "create"} => call[c].count <= Cardinality(sigs)
       /\ call[c].pc = "count" => NewCount(c) <= Cardinality(sigs)

\* A payment is "ready", or on its way to Horizon, only with a quorum.
QuorumKept ==
  pay.status = "ready" \/ (\E c \in Call : call[c].pc \in {"ready", "assemble", "submit"})
    => Cardinality(sigs) >= Required

\* "submitted" is written after Horizon has accepted.
SubmissionPaid ==
  /\ SubmittedIsPaid
  /\ \A c \in Call : At(c, "submitted") => ledger.paid = 1

\* Until the row is ready nothing has been submitted.
NothingEarly ==
  pay.status \in {"none", "pending"} =>
    /\ ledger.paid = 0
    /\ \A c \in Call :
         call[c].pc \notin {"assemble", "submit", "submitted", "failed", "cancel"}

\* "failed" is written after a refusal or without an answer only.
FailureIsBlamed ==
  \A c \in Call : At(c, "failed") => mishap \cap {"refused", "unanswered"} # {}

\* A payment made is recorded or about to be.
PaidIsUnderWay ==
  ledger.paid = 1 /\ mishap \subseteq {"miscounted"} =>
    \/ pay.status = "submitted"
    \/ \E c \in Call : call[c].pc \in {"ready", "assemble", "submit", "submitted"}

Inv ==
  /\ TypeOK /\ CountBound /\ QuorumKept /\ SubmissionPaid /\ NothingEarly
  /\ FailureIsBlamed /\ PaidIsUnderWay
  /\ expirer \in {"idle", "pending"}

-----------------------------------------------------------------------------
(* Facts about the data *)

CallRecord ==
  [pc : Writing \cup {"idle", "submit", "cancel"}, signer : Signer,
   count : 0..Cardinality(Signer), hasJob : BOOLEAN]

PayRecord == [status : Status, count : 0..Cardinality(Signer), hasJob : BOOLEAN]

LEMMA SignerSize == Cardinality(Signer) \in Nat /\ Required \in Nat /\ Signer # {}
<1>1. Cardinality(Signer) \in Nat /\ (Cardinality(Signer) = 0 <=> Signer = {})
  BY MultiSigAssumption, FS_CardinalityType, FS_EmptySet
<1> QED
  BY <1>1, MultiSigAssumption

LEMMA RestingType == Resting \in CallRecord /\ Resting.pc = "idle"
<1>1. (CHOOSE s \in Signer : TRUE) \in Signer
  BY SignerSize
<1>2. 0 \in 0..Cardinality(Signer)
  BY SignerSize
<1> QED
  BY <1>1, <1>2 DEF Resting, CallRecord

LEMMA SigsSize ==
  ASSUME TypeOK
  PROVE  IsFiniteSet(sigs) /\ Cardinality(sigs) \in 0..Cardinality(Signer)
<1>1. IsFiniteSet(sigs) /\ Cardinality(sigs) <= Cardinality(Signer)
  BY MultiSigAssumption, FS_Subset DEF TypeOK
<1>2. Cardinality(sigs) \in Nat
  BY <1>1, FS_CardinalityType
<1> QED
  BY <1>1, <1>2, SignerSize

\* What writing one field leaves of the row.
LEMMA WriteStatus ==
  ASSUME TypeOK, NEW s \in Status, Write("status", s)
  PROVE  /\ pay' \in PayRecord
         /\ pay'.status = s /\ pay'.count = pay.count
BY DEF TypeOK, Write, PayRecord

LEMMA WriteCount ==
  ASSUME TypeOK, NEW n \in 0..Cardinality(Signer), Write("count", n)
  PROVE  /\ pay' \in PayRecord
         /\ pay'.status = pay.status /\ pay'.count = n
BY DEF TypeOK, Write, PayRecord

LEMMA WriteJob ==
  ASSUME TypeOK, Write("hasJob", TRUE)
  PROVE  /\ pay' \in PayRecord
         /\ pay'.status = pay.status /\ pay'.count = pay.count
BY DEF TypeOK, Write, PayRecord

\* What moving one request leaves of the requests.
LEMMA Moving ==
  ASSUME TypeOK, NEW c \in Call,
         NEW pc \in Writing \cup {"idle", "submit", "cancel"}, GoTo(c, pc)
  PROVE  /\ call' \in [Call -> CallRecord]
         /\ call'[c].pc = pc /\ call'[c].count = call[c].count
         /\ \A d \in Call \ {c} : call'[d] = call[d]
BY DEF TypeOK, GoTo, CallRecord

LEMMA Returning ==
  ASSUME TypeOK, NEW c \in Call, Return(c)
  PROVE  /\ call' \in [Call -> CallRecord]
         /\ call'[c].pc = "idle"
         /\ \A d \in Call \ {c} : call'[d] = call[d]
BY RestingType DEF TypeOK, Return, CallRecord

\* Types of the variables that few actions change.
LEMMA TypesBut ==
  ASSUME TypeOK,
         pay' \in PayRecord,
         call' \in [Call -> CallRecord],
         sigs' \subseteq Signer,
         job' \in {"none", "waiting", "active", "done", "removed"},
         expirer' \in Status \cup {"idle"},
         ledger' \in [paid : 0..1, taken : BOOLEAN],
         time' \in 0..2, mishap' \subseteq Mishap, faults' \in 0..Faults
  PROVE  TypeOK'
BY DEF TypeOK, CallRecord, PayRecord

\* What the ledger is after a submission that may have been applied.
LEMMA Paying ==
  ASSUME TypeOK, (CanPay /\ PayOnce) \/ UNCHANGED ledger
  PROVE  /\ ledger' \in [paid : 0..1, taken : BOOLEAN]
         /\ ledger.paid = 1 => ledger'.paid = 1
         /\ PayOnce => ledger'.paid = 1
BY DEF TypeOK, PayOnce

\* A fault is spent and put on record.
LEMMA FaultRecorded ==
  ASSUME TypeOK, NEW f \in Mishap, Fault(f)
  PROVE  mishap' \subseteq Mishap /\ f \in mishap' /\ faults' \in 0..Faults
<1>1. faults \in Int /\ 0 <= faults /\ faults <= Faults /\ Faults \in Int
  BY MultiSigAssumption DEF TypeOK
<1>2. faults' \in 0..Faults
  BY <1>1 DEF Fault
<1> QED
  BY <1>2 DEF Fault, TypeOK

-----------------------------------------------------------------------------
(* The inductive invariant, one step of a request at a time *)

LEMMA ScheduleExpiryKeeps ==
  ASSUME Inv, NEW c \in Call, ScheduleExpiry(c)
  PROVE  Inv'
<1>1. /\ call' \in [Call -> CallRecord]
      /\ call'[c].pc = "saveJob" /\ call'[c].count = call[c].count
      /\ \A d \in Call \ {c} : call'[d] = call[d]
  BY Moving DEF Inv, ScheduleExpiry, Writing
<1>2. pay' = pay
  BY DEF ScheduleExpiry
<1>3. TypeOK'
  BY <1>1, <1>2, TypesBut DEF Inv, TypeOK, PayRecord, ScheduleExpiry, Mishap
<1> QED
  BY <1>1, <1>2, <1>3, SigsSize DEF Inv, ScheduleExpiry, NewCount, CountBound, QuorumKept,
         SubmissionPaid, SubmittedIsPaid, NothingEarly, FailureIsBlamed, PaidIsUnderWay, At

LEMMA MarkReadyKeeps ==
  ASSUME Inv, NEW c \in Call, MarkReady(c)
  PROVE  Inv'
<1>1. /\ call' \in [Call -> CallRecord]
      /\ call'[c].pc = "assemble" /\ call'[c].count = call[c].count
      /\ \A d \in Call \ {c} : call'[d] = call[d]
  BY Moving DEF Inv, MarkReady, Writing
<1>2. /\ pay' \in PayRecord
      /\ pay'.status = "ready" /\ pay'.count = pay.count
  BY WriteStatus DEF Inv, MarkReady, Status
<1>3. TypeOK'
  BY <1>1, <1>2, TypesBut DEF Inv, TypeOK, PayRecord, MarkReady, Mishap
<1> QED
  BY <1>1, <1>2, <1>3, SigsSize DEF Inv, MarkReady, NewCount, CountBound, QuorumKept,
         SubmissionPaid, SubmittedIsPaid, NothingEarly, FailureIsBlamed, PaidIsUnderWay, At

LEMMA MarkFailedKeeps ==
  ASSUME Inv, NEW c \in Call, MarkFailed(c)
  PROVE  Inv'
<1>1. /\ call' \in [Call -> CallRecord]
      /\ call'[c].pc = "idle"
      /\ \A d \in Call \ {c} : call'[d] = call[d]
  BY Returning DEF Inv, MarkFailed
<1>2. /\ pay' \in PayRecord
      /\ pay'.status = "failed" /\ pay'.count = pay.count
  BY WriteStatus DEF Inv, MarkFailed, Status
<1>3. TypeOK'
  BY <1>1, <1>2, TypesBut DEF Inv, TypeOK, PayRecord, MarkFailed, Mishap
<1> QED
  BY <1>1, <1>2, <1>3, SigsSize DEF Inv, MarkFailed, NewCount, CountBound, QuorumKept,
         SubmissionPaid, SubmittedIsPaid, NothingEarly, FailureIsBlamed, PaidIsUnderWay, At

LEMMA MarkSubmittedKeeps ==
  ASSUME Inv, NEW c \in Call, MarkSubmitted(c)
  PROVE  Inv'
<1>1. /\ call' \in [Call -> CallRecord]
      /\ call'[c].pc = "cancel" /\ call'[c].count = call[c].count
      /\ \A d \in Call \ {c} : call'[d] = call[d]
  BY Moving DEF Inv, MarkSubmitted, Writing
<1>2. /\ pay' \in PayRecord
      /\ pay'.status = "submitted" /\ pay'.count = pay.count
  BY WriteStatus DEF Inv, MarkSubmitted, Status
<1>3. TypeOK'
  BY <1>1, <1>2, TypesBut DEF Inv, TypeOK, PayRecord, MarkSubmitted, Mishap
<1> QED
  BY <1>1, <1>2, <1>3, SigsSize DEF Inv, MarkSubmitted, NewCount, CountBound, QuorumKept,
         SubmissionPaid, SubmittedIsPaid, NothingEarly, FailureIsBlamed, PaidIsUnderWay, At

LEMMA AssembleKeeps ==
  ASSUME Inv, NEW c \in Call, Assemble(c)
  PROVE  Inv'
<1>1. /\ call' \in [Call -> CallRecord]
      /\ call'[c].pc = "submit" /\ call'[c].count = call[c].count
      /\ \A d \in Call \ {c} : call'[d] = call[d]
  BY Moving DEF Inv, Assemble, Writing
<1>2. pay' = pay
  BY DEF Assemble
<1>3. TypeOK'
  BY <1>1, <1>2, TypesBut DEF Inv, TypeOK, PayRecord, Assemble, Mishap
<1> QED
  BY <1>1, <1>2, <1>3, SigsSize DEF Inv, Assemble, NewCount, CountBound, QuorumKept,
         SubmissionPaid, SubmittedIsPaid, NothingEarly, FailureIsBlamed, PaidIsUnderWay, At

LEMMA CancelExpiryKeeps ==
  ASSUME Inv, NEW c \in Call, CancelExpiry(c)
  PROVE  Inv'
<1>1. /\ call' \in [Call -> CallRecord]
      /\ call'[c].pc = "idle"
      /\ \A d \in Call \ {c} : call'[d] = call[d]
  BY Returning DEF Inv, CancelExpiry
<1>2. pay' = pay
  BY DEF CancelExpiry
<1>3. TypeOK'
  BY <1>1, <1>2, TypesBut DEF Inv, TypeOK, PayRecord, CancelExpiry, Mishap
<1> QED
  BY <1>1, <1>2, <1>3, SigsSize DEF Inv, CancelExpiry, NewCount, CountBound, QuorumKept,
         SubmissionPaid, SubmittedIsPaid, NothingEarly, FailureIsBlamed, PaidIsUnderWay, At

LEMMA HorizonRefusesKeeps ==
  ASSUME Inv, NEW c \in Call, HorizonRefuses(c)
  PROVE  Inv'
<1>1. /\ call' \in [Call -> CallRecord]
      /\ call'[c].pc = "failed" /\ call'[c].count = call[c].count
      /\ \A d \in Call \ {c} : call'[d] = call[d]
  BY Moving DEF Inv, HorizonRefuses, Writing
<1>2. pay' = pay
  BY DEF HorizonRefuses
<1>3. TypeOK'
  BY <1>1, <1>2, TypesBut DEF Inv, TypeOK, PayRecord, HorizonRefuses, Mishap
<1> QED
  BY <1>1, <1>2, <1>3, SigsSize DEF Inv, HorizonRefuses, NewCount, CountBound, QuorumKept,
         SubmissionPaid, SubmittedIsPaid, NothingEarly, FailureIsBlamed, PaidIsUnderWay, At

LEMMA HorizonUnansweredKeeps ==
  ASSUME Inv, NEW c \in Call, HorizonUnanswered(c)
  PROVE  Inv'
<1>1. /\ call' \in [Call -> CallRecord]
      /\ call'[c].pc = "failed" /\ call'[c].count = call[c].count
      /\ \A d \in Call \ {c} : call'[d] = call[d]
  BY Moving DEF Inv, HorizonUnanswered, Writing
<1>2. /\ ledger' \in [paid : 0..1, taken : BOOLEAN]
      /\ ledger.paid = 1 => ledger'.paid = 1
  BY Paying DEF Inv, HorizonUnanswered
<1>3. mishap' \subseteq Mishap /\ "unanswered" \in mishap' /\ faults' \in 0..Faults
  BY FaultRecorded DEF Inv, HorizonUnanswered, Mishap
<1>4. TypeOK'
  BY <1>1, <1>2, <1>3, TypesBut DEF Inv, TypeOK, PayRecord, HorizonUnanswered
<1>5. pay.status \notin {"none", "pending"}
  BY DEF Inv, NothingEarly, HorizonUnanswered, At
<1> QED
  BY <1>1, <1>2, <1>3, <1>4, <1>5 DEF Inv, HorizonUnanswered, NewCount, CountBound, QuorumKept,
         SubmissionPaid, SubmittedIsPaid, NothingEarly, FailureIsBlamed, PaidIsUnderWay, At

LEMMA HorizonAcceptsKeeps ==
  ASSUME Inv, NEW c \in Call, HorizonAccepts(c)
  PROVE  Inv'
<1>1. /\ call' \in [Call -> CallRecord]
      /\ call'[c].pc = "submitted" /\ call'[c].count = call[c].count
      /\ \A d \in Call \ {c} : call'[d] = call[d]
  BY Moving DEF Inv, HorizonAccepts, Writing
<1>2. ledger' \in [paid : 0..1, taken : BOOLEAN] /\ ledger'.paid = 1
  <2>1. CASE CanPay /\ PayOnce
    BY <2>1, Paying DEF Inv
  <2>2. CASE ledger.paid > 0 /\ UNCHANGED ledger
    BY <2>2 DEF Inv, TypeOK
  <2> QED
    BY <2>1, <2>2 DEF HorizonAccepts
<1>3. TypeOK'
  BY <1>1, <1>2, TypesBut DEF Inv, TypeOK, PayRecord, HorizonAccepts
<1>4. pay.status \notin {"none", "pending"}
  BY DEF Inv, NothingEarly, HorizonAccepts, At
<1> QED
  BY <1>1, <1>2, <1>3, <1>4 DEF Inv, HorizonAccepts, NewCount, CountBound, QuorumKept,
         SubmissionPaid, SubmittedIsPaid, NothingEarly, FailureIsBlamed, PaidIsUnderWay, At

LEMMA QueryFailsKeeps ==
  ASSUME Inv, NEW c \in Call, QueryFails(c)
  PROVE  Inv'
<1>1. /\ call' \in [Call -> CallRecord]
      /\ call'[c].pc = "idle"
      /\ \A d \in Call \ {c} : call'[d] = call[d]
  BY Returning DEF Inv, QueryFails
<1>2. /\ mishap' \subseteq Mishap /\ "db" \in mishap' /\ mishap \subseteq mishap'
      /\ faults' \in 0..Faults
  BY FaultRecorded DEF Inv, QueryFails, Mishap, Fault
<1>3. TypeOK'
  BY <1>1, <1>2, TypesBut DEF Inv, TypeOK, PayRecord, QueryFails
<1> QED
  BY <1>1, <1>2, <1>3 DEF Inv, QueryFails, NewCount, CountBound, QuorumKept, SubmissionPaid,
         SubmittedIsPaid, NothingEarly, FailureIsBlamed, PaidIsUnderWay, At

\* A new row: nothing has happened to the payment yet.
LEMMA CreateRowKeeps ==
  ASSUME Inv, NEW c \in Call, CreateRow(c)
  PROVE  Inv'
<1>1. /\ call' \in [Call -> CallRecord]
      /\ call'[c].pc = "schedule"
      /\ \A d \in Call \ {c} : call'[d] = call[d]
  BY Moving DEF Inv, CreateRow, Writing
<1>2. /\ pay' \in PayRecord
      /\ pay'.status = "pending" /\ pay'.count = pay.count
  BY WriteStatus DEF Inv, CreateRow, Status
<1>3. TypeOK'
  BY <1>1, <1>2, TypesBut DEF Inv, TypeOK, PayRecord, CreateRow
<1> QED
  BY <1>1, <1>2, <1>3 DEF Inv, CreateRow, NewCount, CountBound, QuorumKept, SubmissionPaid,
         SubmittedIsPaid, NothingEarly, FailureIsBlamed, PaidIsUnderWay, At

LEMMA SaveJobIdKeeps ==
  ASSUME Inv, NEW c \in Call, SaveJobId(c)
  PROVE  Inv'
<1>1. /\ call' \in [Call -> CallRecord]
      /\ call'[c].pc = "idle"
      /\ \A d \in Call \ {c} : call'[d] = call[d]
  BY Returning DEF Inv, SaveJobId
<1>2. /\ pay' \in PayRecord
      /\ pay'.status = pay.status /\ pay'.count = pay.count
  BY WriteJob DEF Inv, SaveJobId
<1>3. TypeOK'
  BY <1>1, <1>2, TypesBut DEF Inv, TypeOK, PayRecord, SaveJobId
<1> QED
  BY <1>1, <1>2, <1>3 DEF Inv, SaveJobId, NewCount, CountBound, QuorumKept, SubmissionPaid,
         SubmittedIsPaid, NothingEarly, FailureIsBlamed, PaidIsUnderWay, At

\* The loaded count is the row's, which CountBound bounds.
LEMMA LoadToSignKeeps ==
  ASSUME Inv, NEW c \in Call, NEW s \in Signer, LoadToSign(c, s)
  PROVE  Inv'
<1>1. /\ call' \in [Call -> CallRecord]
      /\ call'[c].pc = "check" /\ call'[c].count = pay.count
      /\ \A d \in Call \ {c} : call'[d] = call[d]
  BY DEF Inv, TypeOK, LoadToSign, CallRecord, Writing
<1>2. TypeOK'
  BY <1>1, TypesBut DEF Inv, TypeOK, PayRecord, LoadToSign
<1> QED
  BY <1>1, <1>2 DEF Inv, LoadToSign, NewCount, CountBound, QuorumKept, SubmissionPaid,
         SubmittedIsPaid, NothingEarly, FailureIsBlamed, PaidIsUnderWay, At

LEMMA CheckDuplicateKeeps ==
  ASSUME Inv, NEW c \in Call, CheckDuplicate(c)
  PROVE  Inv'
<1>1. /\ call' \in [Call -> CallRecord]
      /\ \/ call'[c].pc = "idle"
         \/ call[c].pc = "check" /\ call'[c].pc = "create" /\ call'[c].count = call[c].count
      /\ \A d \in Call \ {c} : call'[d] = call[d]
  BY Moving, Returning DEF Inv, CheckDuplicate, Writing, At
<1>2. TypeOK'
  BY <1>1, TypesBut DEF Inv, TypeOK, PayRecord, CheckDuplicate
<1> QED
  BY <1>1, <1>2 DEF Inv, CheckDuplicate, NewCount, CountBound, QuorumKept, SubmissionPaid,
         SubmittedIsPaid, NothingEarly, FailureIsBlamed, PaidIsUnderWay, At

\* Only a signer who had none gets a signature: there is one more.
LEMMA CreateSignatureKeeps ==
  ASSUME Inv, NEW c \in Call, CreateSignature(c)
  PROVE  Inv'
<1>1. CASE call[c].signer \in sigs
  <2>1. /\ call' \in [Call -> CallRecord]
        /\ call'[c].pc = "idle"
        /\ \A d \in Call \ {c} : call'[d] = call[d]
    BY <1>1, Returning DEF Inv, CreateSignature
  <2>2. sigs' = sigs
    BY <1>1 DEF CreateSignature
  <2>3. TypeOK'
    BY <2>1, <2>2, TypesBut DEF Inv, TypeOK, PayRecord, CreateSignature
  <2> QED
    BY <2>1, <2>2, <2>3 DEF Inv, CreateSignature, NewCount, CountBound, QuorumKept,
           SubmissionPaid, SubmittedIsPaid, NothingEarly, FailureIsBlamed, PaidIsUnderWay, At
<1>2. CASE call[c].signer \notin sigs
  <2>1. /\ call' \in [Call -> CallRecord]
        /\ call'[c].pc = "count" /\ call'[c].count = call[c].count
        /\ \A d \in Call \ {c} : call'[d] = call[d]
    BY <1>2, Moving DEF Inv, CreateSignature, Writing
  <2>2. sigs' = sigs \cup {call[c].signer} /\ sigs' \subseteq Signer
    BY <1>2 DEF Inv, CreateSignature, TypeOK
  <2>3. TypeOK'
    BY <2>1, <2>2, TypesBut DEF Inv, TypeOK, PayRecord, CreateSignature
  <2>4. Cardinality(sigs) \in Nat /\ Cardinality(sigs') = Cardinality(sigs) + 1
    BY <1>2, <2>2, SigsSize, SignerSize, FS_AddElement DEF Inv
  <2>5. pay.count \in Nat /\ \A d \in Call : call[d].count \in Nat
    BY SignerSize DEF Inv, TypeOK
  <2>6. CountBound'
    BY <2>1, <2>4, <2>5 DEF Inv, CreateSignature, CountBound, NewCount, At
  <2>7. QuorumKept'
    BY <2>1, <2>4, SignerSize DEF Inv, CreateSignature, QuorumKept
  <2> QED
    BY <2>1, <2>3, <2>6, <2>7
    DEF Inv, CreateSignature, SubmissionPaid, SubmittedIsPaid, NothingEarly,
        FailureIsBlamed, PaidIsUnderWay, At
<1> QED
  BY <1>1, <1>2

\* The request goes on to "ready" only if the count it writes is a quorum.
LEMMA SaveCountKeeps ==
  ASSUME Inv, NEW c \in Call, SaveCount(c)
  PROVE  Inv'
<1>1. /\ Cardinality(sigs) \in 0..Cardinality(Signer)
      /\ NewCount(c) <= Cardinality(sigs) /\ NewCount(c) \in 0..Cardinality(Signer)
  BY SigsSize, SignerSize DEF Inv, SaveCount, At, CountBound, NewCount, TypeOK
<1>2. /\ pay' \in PayRecord
      /\ pay'.status = pay.status /\ pay'.count = NewCount(c)
  BY <1>1, WriteCount DEF Inv, SaveCount
<1>3. /\ call' \in [Call -> CallRecord]
      /\ \/ call'[c].pc = "idle"
         \/ call'[c].pc = "ready" /\ NewCount(c) >= Required
      /\ \A d \in Call \ {c} : call'[d] = call[d]
  BY Moving, Returning DEF Inv, SaveCount, Writing
<1>4. /\ mishap \subseteq mishap' /\ mishap' \ {"miscounted"} \subseteq mishap
      /\ mishap' \subseteq Mishap
  BY DEF Inv, TypeOK, SaveCount, Mishap
<1>5. TypeOK'
  BY <1>2, <1>3, <1>4, TypesBut DEF Inv, TypeOK, PayRecord, SaveCount
<1>6. CountBound'
  BY <1>1, <1>2, <1>3 DEF Inv, SaveCount, CountBound, NewCount
<1>7. QuorumKept'
  BY <1>1, <1>2, <1>3, SignerSize DEF Inv, SaveCount, QuorumKept
<1>8. SubmissionPaid' /\ NothingEarly' /\ FailureIsBlamed'
  BY <1>2, <1>3, <1>4 DEF Inv, SaveCount, SubmissionPaid, SubmittedIsPaid, NothingEarly,
                          FailureIsBlamed, At
<1>9. PaidIsUnderWay'
  BY <1>2, <1>3, <1>4 DEF Inv, SaveCount, PaidIsUnderWay, At
<1> QED
  BY <1>5, <1>6, <1>7, <1>8, <1>9 DEF Inv, SaveCount

LEMMA LoadToSubmitKeeps ==
  ASSUME Inv, NEW c \in Call, LoadToSubmit(c)
  PROVE  Inv'
<1>1. /\ call' \in [Call -> CallRecord]
      /\ call'[c].pc = "assemble"
      /\ \A d \in Call \ {c} : call'[d] = call[d]
  BY DEF Inv, TypeOK, LoadToSubmit, CallRecord, Writing
<1>2. TypeOK'
  BY <1>1, TypesBut DEF Inv, TypeOK, PayRecord, LoadToSubmit
<1> QED
  BY <1>1, <1>2 DEF Inv, LoadToSubmit, NewCount, CountBound, QuorumKept, SubmissionPaid,
         SubmittedIsPaid, NothingEarly, FailureIsBlamed, PaidIsUnderWay, At

-----------------------------------------------------------------------------
(* The worker, crashes, time and the outside *)

LEMMA LoadToExpireKeeps == ASSUME Inv, LoadToExpire PROVE Inv'
<1>1. TypeOK'
  BY DEF Inv, TypeOK, LoadToExpire, Status
<1> QED
  BY <1>1 DEF Inv, LoadToExpire, NewCount, CountBound, QuorumKept, SubmissionPaid,
         SubmittedIsPaid, NothingEarly, FailureIsBlamed, PaidIsUnderWay, At

\* The worker has read "pending": if the row is still so, nothing is paid, and
\* if not, the overrun is on record.
LEMMA MarkExpiredKeeps == ASSUME Inv, MarkExpired PROVE Inv'
<1>1. /\ pay' \in PayRecord
      /\ pay'.status = "expired" /\ pay'.count = pay.count
  BY WriteStatus DEF Inv, MarkExpired, Status
<1>2. /\ mishap \subseteq mishap' /\ mishap' \subseteq Mishap
      /\ pay.status # "pending" => "overrun" \in mishap'
  BY DEF Inv, TypeOK, MarkExpired, Mishap
<1>3. TypeOK'
  BY <1>1, <1>2, TypesBut DEF Inv, TypeOK, PayRecord, MarkExpired, CallRecord
<1> QED
  BY <1>1, <1>2, <1>3 DEF Inv, MarkExpired, NewCount, CountBound, QuorumKept, SubmissionPaid,
         SubmittedIsPaid, NothingEarly, FailureIsBlamed, PaidIsUnderWay, At

LEMMA CrashKeeps == ASSUME Inv, Crash PROVE Inv'
<1>1. call' \in [Call -> CallRecord] /\ \A d \in Call : call'[d].pc = "idle"
  BY RestingType DEF Crash
<1>2. mishap' \subseteq Mishap /\ "crash" \in mishap' /\ faults' \in 0..Faults
  BY FaultRecorded DEF Inv, Crash, Mishap
<1>3. /\ ledger' \in [paid : 0..1, taken : BOOLEAN]
      /\ \/ ledger' = ledger
         \/ ledger'.paid = 1 /\ \E d \in Call : At(d, "submit")
  <2>1. CASE ledger' = ledger
    BY <2>1 DEF Inv, TypeOK
  <2>2. CASE \E d \in Call : At(d, "submit") /\ CanPay /\ PayOnce
    BY <2>2, Paying DEF Inv
  <2> QED
    BY <2>1, <2>2 DEF Crash, PayOnce
<1>4. TypeOK'
  BY <1>1, <1>2, <1>3, TypesBut DEF Inv, TypeOK, PayRecord, Crash
<1> QED
  BY <1>1, <1>2, <1>3, <1>4 DEF Inv, Crash, NewCount, CountBound, QuorumKept, SubmissionPaid,
         SubmittedIsPaid, NothingEarly, FailureIsBlamed, PaidIsUnderWay, At

LEMMA TimePassesKeeps == ASSUME Inv, TimePasses PROVE Inv'
<1>1. TypeOK'
  BY DEF Inv, TypeOK, TimePasses
<1> QED
  BY <1>1 DEF Inv, TimePasses, NewCount, CountBound, QuorumKept, SubmissionPaid,
         SubmittedIsPaid, NothingEarly, FailureIsBlamed, PaidIsUnderWay, At

LEMMA SequenceTakenKeeps == ASSUME Inv, SequenceTaken PROVE Inv'
<1>1. TypeOK' /\ ledger'.paid = ledger.paid
  BY DEF Inv, TypeOK, SequenceTaken
<1> QED
  BY <1>1 DEF Inv, SequenceTaken, NewCount, CountBound, QuorumKept, SubmissionPaid,
         SubmittedIsPaid, NothingEarly, FailureIsBlamed, PaidIsUnderWay, At

-----------------------------------------------------------------------------
(* The invariant of the specification *)

LEMMA InitInv == Init => Inv
<1> SUFFICES ASSUME Init PROVE Inv
  OBVIOUS
<1>1. Cardinality({}) = 0
  BY FS_EmptySet
<1>2. TypeOK
  BY SignerSize, RestingType, MultiSigAssumption DEF Init, TypeOK, Status, Mishap, CallRecord
<1>3. \A c \in Call : call[c].pc = "idle"
  BY RestingType DEF Init
<1> QED
  BY <1>1, <1>2, <1>3 DEF Init, Inv, NewCount, CountBound, QuorumKept, SubmissionPaid,
         SubmittedIsPaid, NothingEarly, FailureIsBlamed, PaidIsUnderWay, At

LEMMA NextInv == Inv /\ [Next]_vars => Inv'
<1> SUFFICES ASSUME Inv, [Next]_vars PROVE Inv'
  OBVIOUS
<1>1. CASE \E c \in Call : Proceed(c)
  BY <1>1, ScheduleExpiryKeeps, SaveJobIdKeeps, CheckDuplicateKeeps, CreateSignatureKeeps,
     SaveCountKeeps, MarkReadyKeeps, AssembleKeeps, HorizonAcceptsKeeps, HorizonRefusesKeeps,
     MarkFailedKeeps, MarkSubmittedKeeps, CancelExpiryKeeps
  DEF Proceed
<1>2. CASE \E c \in Call : \/ CreateRow(c) \/ LoadToSubmit(c)
                          \/ HorizonUnanswered(c) \/ QueryFails(c)
                          \/ \E s \in Signer : LoadToSign(c, s)
  BY <1>2, CreateRowKeeps, LoadToSubmitKeeps, HorizonUnansweredKeeps, QueryFailsKeeps,
     LoadToSignKeeps
<1>3. CASE LoadToExpire \/ MarkExpired \/ Crash \/ TimePasses \/ SequenceTaken
  BY <1>3, LoadToExpireKeeps, MarkExpiredKeeps, CrashKeeps, TimePassesKeeps, SequenceTakenKeeps
<1>4. CASE UNCHANGED vars
  BY <1>4 DEF vars, Inv, TypeOK, NewCount, CountBound, QuorumKept, SubmissionPaid,
         SubmittedIsPaid, NothingEarly, FailureIsBlamed, PaidIsUnderWay, At
<1> QED
  BY <1>1, <1>2, <1>3, <1>4 DEF Next

\* The inductive invariant of MultiSigService's requests, worker and faults.
THEOREM MultiSigInvariant == Spec => []Inv
BY InitInv, NextInv, PTL DEF Spec

\* What the row of a payment says of the ledger (submitSignature, submitToNetwork
\* and expirePayment), for any signers and requests: "submitted" only if paid, and
\* when all is quiet a payment made is recorded, unless something went wrong.
THEOREM RecordTheorem == Spec => []RecordInv
<1>1. Inv => RecordInv
  BY DEF Inv, RecordInv, PaidIsRecorded, PaidIsUnderWay, SubmissionPaid, Quiet, At
<1> QED
  BY <1>1, MultiSigInvariant, PTL

-----------------------------------------------------------------------------
(* The refinement of QuorumPay *)

\* A payment goes out with a quorum of signatures and as the first one.
LEMMA PaysWithQuorum ==
  ASSUME Inv, NEW c \in Call, At(c, "submit"), CanPay, PayOnce, UNCHANGED sigs
  PROVE  Quorum!Pay
<1>1. ledger.paid = 0 /\ ledger'.paid = 1 /\ sigs' = sigs
  BY Paying DEF Inv, CanPay
<1>2. Cardinality(sigs) >= Required
  BY DEF Inv, QuorumKept, At
<1>3. Quorum!Cardinality(sigs) = Cardinality(sigs)
  BY DEF Quorum!Cardinality, Cardinality
<1> QED
  BY <1>1, <1>2, <1>3 DEF Quorum!Pay

LEMMA StepRefines == Inv /\ [Next]_vars => [Quorum!Next]_<<sigs, ledger.paid>>
<1> SUFFICES ASSUME Inv, [Next]_vars PROVE [Quorum!Next]_<<sigs, ledger.paid>>
  OBVIOUS
<1>1. ASSUME NEW c \in Call, CreateSignature(c)
      PROVE  [Quorum!Next]_<<sigs, ledger.paid>>
  <2>1. call[c].signer \in Signer
    BY DEF Inv, TypeOK
  <2> QED
    BY <1>1, <2>1 DEF CreateSignature, Quorum!Next, Quorum!Sign
<1>2. ASSUME NEW c \in Call, HorizonAccepts(c) \/ HorizonUnanswered(c)
      PROVE  [Quorum!Next]_<<sigs, ledger.paid>>
  BY <1>2, PaysWithQuorum DEF HorizonAccepts, HorizonUnanswered, Quorum!Next
<1>3. CASE Crash
  <2>1. CASE ledger' = ledger
    BY <1>3, <2>1 DEF Crash
  <2>2. CASE \E c \in Call : At(c, "submit") /\ CanPay /\ PayOnce
    BY <1>3, <2>2, PaysWithQuorum DEF Crash, Quorum!Next
  <2> QED
    BY <1>3, <2>1, <2>2 DEF Crash, PayOnce
<1>4. CASE SequenceTaken
  BY <1>4 DEF SequenceTaken, Inv, TypeOK
<1>5. CASE \/ \E c \in Call : \/ ScheduleExpiry(c) \/ SaveJobId(c) \/ CheckDuplicate(c)
                              \/ SaveCount(c) \/ MarkReady(c) \/ Assemble(c)
                              \/ HorizonRefuses(c) \/ MarkFailed(c) \/ MarkSubmitted(c)
                              \/ CancelExpiry(c) \/ CreateRow(c) \/ LoadToSubmit(c)
                              \/ QueryFails(c) \/ \E s \in Signer : LoadToSign(c, s)
           \/ LoadToExpire \/ MarkExpired \/ TimePasses \/ UNCHANGED vars
  BY <1>5 DEF ScheduleExpiry, SaveJobId, CheckDuplicate, SaveCount, MarkReady, Assemble,
     HorizonRefuses, MarkFailed, MarkSubmitted, CancelExpiry, CreateRow, LoadToSubmit,
     QueryFails, LoadToSign, LoadToExpire, MarkExpired, TimePasses, vars
<1> QED
  BY <1>1, <1>2, <1>3, <1>4, <1>5 DEF Next, Proceed

\* However signers, submissions, the worker and crashes interleave, the ledger pays
\* a request at most once and only with Required signatures (_assembleAndSubmit).
THEOREM QuorumRefinement == Spec => ImplementsQuorumPay
<1>1. Init => Quorum!Init
  BY DEF Init, Quorum!Init
<1> QED
  BY <1>1, StepRefines, MultiSigInvariant, PTL DEF Spec, ImplementsQuorumPay, Quorum!Spec
=============================================================================
