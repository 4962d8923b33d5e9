------------------------------ MODULE Disputes ------------------------------
(***************************************************************************)
(* Disputes about transactions: controllers/disputeController.js,          *)
(* controllers/disputeAdminController.js and models/Dispute.js.            *)
(*                                                                         *)
(* Every handler reads the dispute, checks the status it read against      *)
(* VALID_TRANSITIONS and later updates the row whatever its status is by   *)
(* then; resolving it as upheld pays the transaction's amount back to the  *)
(* wallet in a statement of its own between the check and the update.      *)
(* There is no database transaction and no unique index.                   *)
(*                                                                         *)
(* Wallet.credit increments a column "balance" that                        *)
(* migrations/009_create_wallets_table.js does not create: with the schema *)
(* of the repository, hasBalance is FALSE and the credit throws.  TRUE is  *)
(* the schema the handler and its tests suppose.                           *)
(*                                                                         *)
(* Comments, assignments, notifications, the audit log and the mails,      *)
(* which only follow the update, are left out.                             *)
(***************************************************************************)
EXTENDS Naturals, FiniteSets

CONSTANTS
  Txn,         \* transactions
  Walleted,    \* those whose owner has a row in wallets
  Schemas,     \* the schemas considered: may the wallet's column be missing?
  DisputeId,   \* bound: rows of the table disputes
  Request,     \* bound: requests at once
  MaxRequests, \* bound: requests in all
  MaxFaults,   \* bound: failed statements and crashes
  None

ASSUME BoundsAssumption == MaxRequests \in Nat /\ MaxFaults \in Nat
ASSUME WalletAssumption == Walleted \subseteq Txn /\ Schemas \subseteq BOOLEAN
ASSUME NoneAssumption   == None \notin Txn \cup DisputeId

VARIABLES
  hasBalance, \* wallets has the column that Wallet.credit increments; never changes
  txn,      \* txn[d]: disputes.transaction_id, None before the row exists
  status,   \* status[d]: disputes.status
  outcome,  \* outcome[d]: disputes.outcome
  refunds,  \* refunds[d]: credits of the owner's wallet because of d
  rs,       \* the requests; history: free, no dispute was active when it asked
  excuse,   \* history: excuse[d]: steps that acted on an outdated view of d,
            \* and credits whose update was lost
  twins,    \* history: twins[t]: disputes inserted beside one that became active
            \* after the check
  asked, faults

vars == <<hasBalance, txn, status, outcome, refunds, rs, excuse, twins, asked, faults>>

Status  == {"open", "under_review", "escalated", "resolved", "closed"}
Outcome == {"upheld", "rejected", "none"}

\* What a request makes of the outcome: "none" clears it, "kept" leaves it.
Verdict == Outcome \cup {"kept"}

Idle == [pc |-> "idle", on |-> None, read |-> "open", to |-> "open", verdict |-> "kept",
         free |-> FALSE]

\* VALID_TRANSITIONS
Transitions == {<<"open", "under_review">>, <<"open", "closed">>,
                <<"under_review", "escalated">>, <<"under_review", "resolved">>,
                <<"under_review", "closed">>,
                <<"escalated", "under_review">>, <<"escalated", "resolved">>,
                <<"escalated", "closed">>, <<"resolved", "closed">>}

\* Mutant: a resolved dispute may be taken up again.
IsValidOrAgain(from, to) == <<from, to>> \in Transitions \cup {<<"resolved", "under_review">>}

\* Mutant: closed is not terminal.
IsValidOrReopen(from, to) == <<from, to>> \in Transitions \cup {<<"closed", "under_review">>}

IsValidTransition(from, to) == <<from, to>> \in Transitions

Rows    == {d \in DisputeId : txn[d] # None}
Of(t)   == {d \in Rows : txn[d] = t}

\* Mutant: escalated disputes are forgotten.
ActiveUnescalated(t) == {d \in Of(t) : status[d] \in {"open", "under_review"}}

\* Dispute.findByTransaction
Active(t) == {d \in Of(t) : status[d] \in {"open", "under_review", "escalated"}}

\* The same, for the properties.
ActiveNow(t) == {d \in Of(t) : status[d] \in {"open", "under_review", "escalated"}}

Init ==
  /\ hasBalance \in Schemas
  /\ txn     = [d \in DisputeId |-> None]
  /\ status  = [d \in DisputeId |-> "open"]
  /\ outcome = [d \in DisputeId |-> "none"]
  /\ refunds = [d \in DisputeId |-> 0]
  /\ rs      = [r \in Request |-> Idle]
  /\ excuse  = [d \in DisputeId |-> 0]
  /\ twins   = [t \in Txn |-> 0]
  /\ asked   = 0
  /\ faults  = 0

At(r, pc) == rs[r].pc = pc
Arrive(r) == At(r, "idle") /\ asked < MaxRequests /\ asked' = asked + 1
Done(r)   == rs' = [rs EXCEPT ![r] = Idle]
Excused(d, yes) == excuse' = [excuse EXCEPT ![d] = IF yes THEN @ + 1 ELSE @]

-----------------------------------------------------------------------------
(* createDispute *)

\* No active dispute of t is found.
AskCreate(r, t) ==
  /\ Arrive(r) /\ Active(t) = {}
  /\ rs' = [rs EXCEPT ![r] = [Idle EXCEPT !.pc = "insert", !.on = t, !.free = ActiveNow(t) = {}]]
  /\ UNCHANGED <<hasBalance, txn, status, outcome, refunds, excuse, twins, faults>>

Insert(r) ==
  /\ At(r, "insert")
  /\ \E d \in DisputeId \ Rows :
       /\ txn' = [txn EXCEPT ![d] = rs[r].on]
       /\ status' = [status EXCEPT ![d] = "open"]
  /\ twins' = [twins EXCEPT ![rs[r].on] = IF rs[r].free /\ ActiveNow(rs[r].on) # {} THEN @ + 1 ELSE @]
  /\ Done(r)
  /\ UNCHANGED <<hasBalance, outcome, refunds, excuse, asked, faults>>

-----------------------------------------------------------------------------
(* updateDispute, updateDisputeStatus, escalateDispute *)

\* The row is read and the transition allowed.  Only the admin's updateDispute
\* says something of the outcome, and only when it resolves.
Ask(r, d, to, verdict) ==
  /\ Arrive(r) /\ d \in Rows
  /\ IsValidTransition(status[d], to)
  /\ verdict # "kept" => to = "resolved"
  /\ rs' = [rs EXCEPT ![r] =
       [pc |-> IF verdict = "upheld" /\ txn[d] \in Walleted THEN "credit" ELSE "update",
        on |-> d, read |-> status[d], to |-> to, verdict |-> verdict,
        free |-> FALSE]]
  /\ UNCHANGED <<hasBalance, txn, status, outcome, refunds, excuse, twins, faults>>

\* What r read of d is no longer so, or another request has paid for d and
\* not yet said so in the row.
Outdated(r) ==
  LET d == rs[r].on IN
    \/ status[d] # rs[r].read
    \/ \E q \in Request \ {r} : At(q, "update") /\ rs[q].on = d /\ rs[q].verdict = "upheld"

\* Wallet.credit
Credit(r) ==
  /\ At(r, "credit") /\ hasBalance
  /\ refunds' = [refunds EXCEPT ![rs[r].on] = @ + 1]
  /\ rs' = [rs EXCEPT ![r].pc = "update"]
  /\ Excused(rs[r].on, Outdated(r))
  /\ UNCHANGED <<hasBalance, txn, status, outcome, twins, asked, faults>>

\* The column does not exist: the statement throws and the handler answers 500.
CreditThrows(r) ==
  /\ At(r, "credit") /\ ~hasBalance
  /\ Done(r)
  /\ UNCHANGED <<hasBalance, txn, status, outcome, refunds, excuse, twins, asked, faults>>

\* Dispute.update, resolve, close or escalate: WHERE id, no status.
Update(r) ==
  LET d == rs[r].on IN
    /\ At(r, "update")
    /\ status' = [status EXCEPT ![d] = rs[r].to]
    /\ outcome' = [outcome EXCEPT ![d] = IF rs[r].verdict = "kept" THEN @ ELSE rs[r].verdict]
    /\ Excused(d, status[d] # rs[r].read)
    /\ Done(r)
    /\ UNCHANGED <<hasBalance, txn, refunds, twins, asked, faults>>

\* A statement fails or the process dies: 500 or no answer, nothing undone.
Fail(r) ==
  /\ ~At(r, "idle") /\ faults < MaxFaults
  /\ faults' = faults + 1
  /\ IF At(r, "update") /\ rs[r].verdict = "upheld"
     THEN Excused(rs[r].on, TRUE) ELSE UNCHANGED excuse
  /\ Done(r)
  /\ UNCHANGED <<hasBalance, txn, status, outcome, refunds, twins, asked>>

Next == \E r \in Request :
  \/ \E t \in Txn : AskCreate(r, t)
  \/ \E d \in DisputeId, to \in Status, v \in Verdict : Ask(r, d, to, v)
  \/ Insert(r) \/ Credit(r) \/ CreditThrows(r) \/ Update(r) \/ Fail(r)

Spec == Init /\ [][Next]_vars

-----------------------------------------------------------------------------
(* Properties *)

\* Every variable has its type.
TypeOK ==
  /\ hasBalance \in Schemas
  /\ txn \in [DisputeId -> Txn \cup {None}]
  /\ status \in [DisputeId -> Status]
  /\ outcome \in [DisputeId -> Outcome]
  /\ refunds \in [DisputeId -> Nat]
  /\ rs \in [Request -> [pc : {"idle", "insert", "credit", "update"},
                         on : DisputeId \cup Txn \cup {None}, read : Status,
                         to : Status, verdict : Verdict, free : BOOLEAN]]
  /\ excuse \in [DisputeId -> Nat]
  /\ twins \in [Txn -> Nat]
  /\ asked \in 0..MaxRequests
  /\ faults \in 0..MaxFaults

\* A dispute pays back once; every further refund takes a request that acted on
\* an outdated view of it, or a refund whose update was lost (updateDispute).
RefundedOnce == \A d \in DisputeId : refunds[d] <= 1 + excuse[d]

\* A row says "upheld" only if its refund was paid to the owner's wallet, and a
\* refund that the row does not show is still being recorded, was lost, or was
\* written over (updateDispute).
RefundIsRecorded == \A d \in DisputeId :
  /\ outcome[d] = "upheld" => refunds[d] > 0 \/ txn[d] \notin Walleted
  /\ refunds[d] > 0 => \/ outcome[d] = "upheld" \/ excuse[d] > 0
                       \/ \E r \in Request : At(r, "update") /\ rs[r].on = d

\* What the rows say of the refunds.
RefundInv == TypeOK /\ RefundedOnce /\ RefundIsRecorded

\* At most one active dispute per transaction, but for those inserted while the
\* check for one was outdated and those revived by an outdated update
\* (findByTransaction "to prevent duplicates").
OneActiveDispute == \A t \in Txn :
  Cardinality(ActiveNow(t)) <=
    1 + twins[t] + Cardinality({d \in Of(t) : excuse[d] > 0})

\* Closed is final unless the request that changes the row had read it before.
ClosedIsFinal ==
  [][\A d \in Rows : status[d] = "closed" /\ status'[d] # "closed" => excuse'[d] > excuse[d]]_vars

\* An upheld verdict that no fault meets refunds the wallet
\* (tests/disputeAdmin.test.js:181).
UpheldIsRefunded ==
  [][\A r \in Request :
       At(r, "credit") /\ rs'[r].pc # "credit" /\ faults' = faults => refunds' # refunds]_vars

=============================================================================
