--------------------------- MODULE Disputes_proofs ---------------------------
(***************************************************************************)
(* Theorems about Disputes for any transactions, dispute rows, requests    *)
(* and faults.                                                             *)
(*                                                                         *)
(* The argument: once a dispute has been refunded more often than excused, *)
(* its row says "resolved" or "closed", or the request that paid is still  *)
(* to say so.  Whoever checked the row before that has an outdated view,   *)
(* and whoever checks it after finds no transition to "resolved".  And     *)
(* nobody with a fresh view revives a dispute, so active ones are inserted *)
(* beside others or touched by an outdated update.                         *)
(***************************************************************************)
EXTENDS Disputes, FiniteSetTheorems, TLAPS

\* A request past its check is about a row, by an allowed transition.
RequestsAreChecked ==
  \A r \in Request :
    /\ rs[r].pc = "insert" => rs[r].on \in Txn
    /\ rs[r].pc \in {"credit", "update"} =>
         /\ rs[r].on \in Rows
         /\ IsValidTransition(rs[r].read, rs[r].to)
         /\ rs[r].verdict # "kept" => rs[r].to = "resolved"
    /\ rs[r].pc = "credit" => rs[r].verdict = "upheld"

\* A dispute that does not exist yet has no refund and no outcome.
UnbornAreBlank ==
  \A d \in DisputeId \ Rows : refunds[d] = 0 /\ outcome[d] = "none"

\* Request r has paid for d, or need not pay, and is about to write "upheld".
Upholding(r, d) == At(r, "update") /\ rs[r].on = d /\ rs[r].verdict = "upheld"

\* A refund that is not excused shows in the row, or is about to.
RefundShows ==
  \A d \in DisputeId : refunds[d] > excuse[d] =>
    \/ status[d] \in {"resolved", "closed"} /\ (outcome[d] = "upheld" \/ excuse[d] > 0)
    \/ \E r \in Request : Upholding(r, d)

\* "upheld" is written only after the credit, or where there is no wallet.
UpheldIsPaid ==
  /\ \A d \in DisputeId : outcome[d] = "upheld" => refunds[d] > 0 \/ txn[d] \notin Walleted
  /\ \A d \in DisputeId, r \in Request :
       Upholding(r, d) => refunds[d] > 0 \/ txn[d] \notin Walleted

Inv ==
  /\ TypeOK /\ RequestsAreChecked /\ UnbornAreBlank
  /\ RefundedOnce /\ RefundShows /\ UpheldIsPaid

RequestRecord ==
  [pc : {"idle", "insert", "credit", "update"}, on : DisputeId \cup Txn \cup {None},
   read : Status, to : Status, verdict : Verdict, free : BOOLEAN]

-----------------------------------------------------------------------------
(* Facts about the data *)

LEMMA IdleType == Idle \in RequestRecord /\ Idle.pc = "idle"
BY DEF Idle, RequestRecord, Status, Verdict, Outcome

LEMMA FromWhere ==
  ASSUME NEW from, NEW to, IsValidTransition(from, to)
  PROVE  /\ from # "closed"
         /\ to = "resolved" => from \in {"under_review", "escalated"}
         /\ from = "resolved" => to = "closed"
         /\ from \in Status /\ to \in Status
BY DEF IsValidTransition, Transitions, Status

\* A request that ends leaves the others as they are.
LEMMA Ending ==
  ASSUME TypeOK, NEW r \in Request, Done(r)
  PROVE  /\ rs' \in [Request -> RequestRecord]
         /\ rs'[r].pc = "idle"
         /\ \A q \in Request \ {r} : rs'[q] = rs[q]
BY IdleType DEF TypeOK, Done, RequestRecord

LEMMA Excusing ==
  ASSUME TypeOK, NEW d \in DisputeId, NEW yes \in BOOLEAN, Excused(d, yes)
  PROVE  /\ excuse' \in [DisputeId -> Nat]
         /\ excuse'[d] = IF yes THEN excuse[d] + 1 ELSE excuse[d]
         /\ \A e \in DisputeId \ {d} : excuse'[e] = excuse[e]
BY DEF TypeOK, Excused

LEMMA Arriving ==
  ASSUME TypeOK, NEW r \in Request, Arrive(r)
  PROVE  asked' \in 0..MaxRequests
BY BoundsAssumption DEF TypeOK, Arrive

-----------------------------------------------------------------------------
(* The inductive invariant, step by step *)

LEMMA AskCreateKeeps ==
  ASSUME Inv, NEW r \in Request, NEW t \in Txn, AskCreate(r, t)
  PROVE  Inv'
<1>1. /\ rs' \in [Request -> RequestRecord]
      /\ rs'[r].pc = "insert" /\ rs'[r].on = t
      /\ \A q \in Request \ {r} : rs'[q] = rs[q]
  <2>1. [Idle EXCEPT !.pc = "insert", !.on = t, !.free = ActiveNow(t) = {}] \in RequestRecord
    BY IdleType DEF RequestRecord
  <2> QED
    BY <2>1, IdleType DEF Inv, TypeOK, AskCreate, RequestRecord
<1>2. At(r, "idle") /\ asked' \in 0..MaxRequests
  BY Arriving DEF Inv, AskCreate, Arrive
<1>3. TypeOK'
  BY <1>1, <1>2 DEF Inv, TypeOK, AskCreate, RequestRecord
<1>4. RequestsAreChecked'
  BY <1>1 DEF Inv, AskCreate, RequestsAreChecked, Rows
<1>5. RefundShows' /\ UpheldIsPaid'
  BY <1>1, <1>2 DEF Inv, AskCreate, RefundShows, UpheldIsPaid, Upholding, At
<1> QED
  BY <1>3, <1>4, <1>5 DEF Inv, AskCreate, UnbornAreBlank, Rows, RefundedOnce

\* A new row is blank and stays so.
LEMMA InsertKeeps ==
  ASSUME Inv, NEW r \in Request, Insert(r)
  PROVE  Inv'
<1> PICK d \in DisputeId \ Rows : /\ txn' = [txn EXCEPT ![d] = rs[r].on]
                                  /\ status' = [status EXCEPT ![d] = "open"]
  BY DEF Insert
<1>1. /\ rs' \in [Request -> RequestRecord]
      /\ rs'[r].pc = "idle"
      /\ \A q \in Request \ {r} : rs'[q] = rs[q]
  BY Ending DEF Inv, Insert
<1>2. rs[r].on \in Txn /\ rs[r].on # None
  BY NoneAssumption DEF Inv, Insert, At, RequestsAreChecked
<1>3. /\ txn' \in [DisputeId -> Txn \cup {None}] /\ txn'[d] = rs[r].on
      /\ \A e \in DisputeId \ {d} : txn'[e] = txn[e] /\ status'[e] = status[e]
      /\ status' \in [DisputeId -> Status]
  BY <1>2 DEF Inv, TypeOK, Status
<1>4. twins' \in [Txn -> Nat]
  BY <1>2 DEF Inv, TypeOK, Insert
<1>5. TypeOK'
  BY <1>1, <1>3, <1>4 DEF Inv, TypeOK, Insert, RequestRecord
<1>6. Rows' = Rows \cup {d}
  BY <1>2, <1>3 DEF Rows
<1>7. RequestsAreChecked'
  BY <1>1, <1>6 DEF Inv, RequestsAreChecked
<1>8. refunds[d] = 0 /\ outcome[d] = "none" /\ excuse[d] \in Nat
  BY DEF Inv, UnbornAreBlank, TypeOK
<1>9. UnbornAreBlank' /\ RefundedOnce'
  BY <1>6, <1>8 DEF Inv, UnbornAreBlank, RefundedOnce, Insert
<1>10. \A q \in Request, e \in DisputeId : Upholding(q, e)' => Upholding(q, e) /\ e # d
  BY <1>1 DEF Inv, RequestsAreChecked, Upholding, At
<1>11. \A q \in Request, e \in DisputeId : Upholding(q, e) => Upholding(q, e)'
  BY <1>1 DEF Insert, Upholding, At
<1>12. RefundShows'
  BY <1>3, <1>8, <1>11 DEF Inv, RefundShows, Insert
<1>13. UpheldIsPaid'
  BY <1>3, <1>8, <1>10 DEF Inv, UpheldIsPaid, Insert
<1> QED
  BY <1>5, <1>7, <1>9, <1>12, <1>13 DEF Inv

LEMMA AskKeeps ==
  ASSUME Inv, NEW r \in Request, NEW d \in DisputeId, NEW to \in Status,
         NEW v \in Verdict, Ask(r, d, to, v)
  PROVE  Inv'
<1>1. /\ rs' \in [Request -> RequestRecord]
      /\ rs'[r].pc = IF v = "upheld" /\ txn[d] \in Walleted THEN "credit" ELSE "update"
      /\ rs'[r].on = d /\ rs'[r].read = status[d] /\ rs'[r].to = to /\ rs'[r].verdict = v
      /\ \A q \in Request \ {r} : rs'[q] = rs[q]
  BY DEF Inv, TypeOK, Ask, RequestRecord
<1>2. At(r, "idle") /\ asked' \in 0..MaxRequests
  BY Arriving DEF Inv, Ask, Arrive
<1>3. TypeOK'
  BY <1>1, <1>2 DEF Inv, TypeOK, Ask, RequestRecord
<1>4. RequestsAreChecked'
  BY <1>1 DEF Inv, Ask, RequestsAreChecked, Rows, IsValidTransition
<1>5. RefundShows' /\ UpheldIsPaid'
  BY <1>1, <1>2 DEF Inv, Ask, RefundShows, UpheldIsPaid, Upholding, At
<1> QED
  BY <1>3, <1>4, <1>5 DEF Inv, Ask, UnbornAreBlank, Rows, RefundedOnce

\* A credit that is not excused finds the row unresolved and nobody upholding:
\* there was no refund without an excuse before.
LEMMA CreditKeeps ==
  ASSUME Inv, NEW r \in Request, Credit(r)
  PROVE  Inv'
<1> DEFINE d == rs[r].on
<1>1. d \in Rows /\ d \in DisputeId /\ rs[r].verdict = "upheld" /\ rs[r].to = "resolved"
      /\ IsValidTransition(rs[r].read, rs[r].to)
  BY DEF Inv, Credit, At, RequestsAreChecked, Rows
<1>2. /\ rs' \in [Request -> RequestRecord]
      /\ rs'[r].pc = "update" /\ rs'[r].on = d /\ rs'[r].verdict = "upheld"
      /\ rs'[r].read = rs[r].read /\ rs'[r].to = rs[r].to
      /\ \A q \in Request \ {r} : rs'[q] = rs[q]
  BY <1>1 DEF Inv, TypeOK, Credit, RequestRecord
<1>3. /\ refunds' \in [DisputeId -> Nat] /\ refunds'[d] = refunds[d] + 1
      /\ \A e \in DisputeId \ {d} : refunds'[e] = refunds[e]
  BY <1>1 DEF Inv, TypeOK, Credit
<1>4. /\ excuse' \in [DisputeId -> Nat]
      /\ excuse'[d] = IF Outdated(r) THEN excuse[d] + 1 ELSE excuse[d]
      /\ \A e \in DisputeId \ {d} : excuse'[e] = excuse[e]
  <2>1. Outdated(r) \in BOOLEAN
    BY DEF Outdated
  <2> QED
    BY <1>1, <2>1, Excusing DEF Inv, Credit
<1>5. TypeOK'
  BY <1>2, <1>3, <1>4 DEF Inv, TypeOK, Credit, RequestRecord
<1>6. RequestsAreChecked'
  BY <1>1, <1>2 DEF Inv, Credit, RequestsAreChecked, Rows, IsValidTransition
<1>7. UnbornAreBlank'
  BY <1>1, <1>3 DEF Inv, Credit, UnbornAreBlank, Rows
<1>8. ~Outdated(r) => refunds[d] <= excuse[d]
  <2> SUFFICES ASSUME ~Outdated(r), refunds[d] > excuse[d] PROVE FALSE
    BY <1>1 DEF Inv, TypeOK
  <2>1. status[d] \in {"under_review", "escalated"}
    BY <1>1, FromWhere DEF Outdated
  <2>2. \A q \in Request : ~Upholding(q, d)
    BY DEF Outdated, Upholding, Credit, At
  <2> QED
    BY <1>1, <2>1, <2>2 DEF Inv, RefundShows
<1>9. RefundedOnce'
  BY <1>1, <1>3, <1>4, <1>8 DEF Inv, TypeOK, RefundedOnce
<1>10. \A q \in Request, e \in DisputeId :
         Upholding(q, e)' <=> Upholding(q, e) \/ (q = r /\ e = d)
  BY <1>2 DEF Upholding, At
<1>11. RefundShows'
  BY <1>1, <1>3, <1>4, <1>10 DEF Inv, TypeOK, Credit, RefundShows
<1>12. UpheldIsPaid'
  BY <1>1, <1>3, <1>10 DEF Inv, TypeOK, Credit, UpheldIsPaid
<1> QED
  BY <1>5, <1>6, <1>7, <1>9, <1>11, <1>12 DEF Inv

LEMMA CreditThrowsKeeps ==
  ASSUME Inv, NEW r \in Request, CreditThrows(r)
  PROVE  Inv'
<1>1. /\ rs' \in [Request -> RequestRecord]
      /\ rs'[r].pc = "idle"
      /\ \A q \in Request \ {r} : rs'[q] = rs[q]
  BY Ending DEF Inv, CreditThrows
<1>2. TypeOK'
  BY <1>1 DEF Inv, TypeOK, CreditThrows, RequestRecord
<1>3. RequestsAreChecked'
  BY <1>1 DEF Inv, CreditThrows, RequestsAreChecked, Rows
<1>4. RefundShows' /\ UpheldIsPaid'
  BY <1>1 DEF Inv, CreditThrows, RefundShows, UpheldIsPaid, Upholding, At
<1> QED
  BY <1>2, <1>3, <1>4 DEF Inv, CreditThrows, UnbornAreBlank, Rows, RefundedOnce

\* An update that is not excused leaves "resolved" only for "closed", and the
\* one that upholds writes what RefundShows asks for.
LEMMA UpdateKeeps ==
  ASSUME Inv, NEW r \in Request, Update(r)
  PROVE  Inv'
<1> DEFINE d == rs[r].on
<1>1. /\ d \in Rows /\ d \in DisputeId /\ IsValidTransition(rs[r].read, rs[r].to)
      /\ rs[r].verdict # "kept" => rs[r].to = "resolved"
      /\ rs[r].verdict \in Verdict
  BY DEF Inv, Update, At, RequestsAreChecked, Rows, TypeOK
<1>2. /\ rs' \in [Request -> RequestRecord]
      /\ rs'[r].pc = "idle"
      /\ \A q \in Request \ {r} : rs'[q] = rs[q]
  BY Ending DEF Inv, Update
<1>3. /\ status' \in [DisputeId -> Status] /\ status'[d] = rs[r].to
      /\ \A e \in DisputeId \ {d} : status'[e] = status[e]
  BY <1>1, FromWhere DEF Inv, TypeOK, Update
<1>4. /\ outcome' \in [DisputeId -> Outcome]
      /\ outcome'[d] = IF rs[r].verdict = "kept" THEN outcome[d] ELSE rs[r].verdict
      /\ \A e \in DisputeId \ {d} : outcome'[e] = outcome[e]
  BY <1>1 DEF Inv, TypeOK, Update, Verdict
<1>5. /\ excuse' \in [DisputeId -> Nat]
      /\ excuse'[d] = IF status[d] # rs[r].read THEN excuse[d] + 1 ELSE excuse[d]
      /\ \A e \in DisputeId \ {d} : excuse'[e] = excuse[e]
  BY <1>1, Excusing DEF Inv, Update
<1>6. TypeOK'
  BY <1>2, <1>3, <1>4, <1>5 DEF Inv, TypeOK, Update, RequestRecord
<1>7. RequestsAreChecked'
  BY <1>2 DEF Inv, Update, RequestsAreChecked, Rows
<1>8. UnbornAreBlank'
  BY <1>1, <1>4 DEF Inv, Update, UnbornAreBlank, Rows
<1>9. RefundedOnce'
  BY <1>1, <1>5 DEF Inv, TypeOK, Update, RefundedOnce
<1>10. \A q \in Request, e \in DisputeId : Upholding(q, e)' <=> Upholding(q, e) /\ q # r
  BY <1>2 DEF Upholding, At
<1>11. RefundShows'
  <2> SUFFICES ASSUME NEW e \in DisputeId, (refunds[e] > excuse[e])'
               PROVE  (\/ status[e] \in {"resolved", "closed"}
                          /\ (outcome[e] = "upheld" \/ excuse[e] > 0)
                       \/ \E q \in Request : Upholding(q, e))'
    BY DEF RefundShows
  <2>1. refunds[e] > excuse[e]
    BY <1>5 DEF Inv, TypeOK, Update
  <2>2. CASE e # d
    BY <1>3, <1>4, <1>5, <1>10, <2>1, <2>2 DEF Inv, RefundShows, Upholding
  <2>3. CASE e = d /\ status[d] # rs[r].read
    BY <1>1, <1>5, <2>1, <2>3 DEF Inv, TypeOK, Update, RefundedOnce
  <2>4. CASE e = d /\ status[d] = rs[r].read /\ rs[r].verdict = "upheld"
    BY <1>1, <1>3, <1>4, <2>4
  <2>5. CASE e = d /\ status[d] = rs[r].read /\ rs[r].verdict # "upheld"
    <3>1. CASE \E q \in Request : Upholding(q, d)
      BY <1>10, <2>5, <3>1 DEF Upholding
    <3>2. CASE status[d] \in {"resolved", "closed"} /\ (outcome[d] = "upheld" \/ excuse[d] > 0)
      <4>1. rs[r].to = "closed"
        BY <1>1, <2>5, <3>2, FromWhere
      <4>2. outcome'[d] = outcome[d] /\ excuse'[d] = excuse[d]
        BY <1>1, <1>4, <1>5, <2>5, <4>1
      <4> QED
        BY <1>3, <2>5, <3>2, <4>1, <4>2
    <3> QED
      BY <2>1, <2>5, <3>1, <3>2 DEF Inv, RefundShows
  <2> QED
    BY <2>2, <2>3, <2>4, <2>5
<1>12. UpheldIsPaid'
  <2>1. \A e \in DisputeId : outcome'[e] = "upheld" => refunds[e] > 0 \/ txn[e] \notin Walleted
    BY <1>1, <1>4 DEF Inv, UpheldIsPaid, Upholding, Update
  <2> QED
    BY <1>10, <2>1 DEF Inv, UpheldIsPaid, Update
<1> QED
  BY <1>6, <1>7, <1>8, <1>9, <1>11, <1>12 DEF Inv

\* A refund whose update is lost is excused.
LEMMA FailKeeps ==
  ASSUME Inv, NEW r \in Request, Fail(r)
  PROVE  Inv'
<1> DEFINE d == rs[r].on
           Lost == At(r, "update") /\ rs[r].verdict = "upheld"
<1>1. Lost => d \in DisputeId
  BY DEF Inv, At, RequestsAreChecked, Rows
<1>2. /\ rs' \in [Request -> RequestRecord]
      /\ rs'[r].pc = "idle"
      /\ \A q \in Request \ {r} : rs'[q] = rs[q]
  BY Ending DEF Inv, Fail
<1>3. /\ excuse' \in [DisputeId -> Nat]
      /\ Lost => excuse'[d] = excuse[d] + 1
      /\ \A e \in DisputeId : excuse'[e] = excuse[e] \/ (Lost /\ e = d)
  <2>1. CASE Lost
    <3>1. Excused(d, TRUE)
      BY <2>1 DEF Fail
    <3>2. /\ excuse' \in [DisputeId -> Nat] /\ excuse'[d] = excuse[d] + 1
          /\ \A e \in DisputeId \ {d} : excuse'[e] = excuse[e]
      BY <1>1, <2>1, <3>1, Excusing DEF Inv
    <3>3. \A e \in DisputeId : excuse[e] \in Nat
      BY DEF Inv, TypeOK
    <3> QED
      BY <1>1, <2>1, <3>2, <3>3
  <2>2. CASE ~Lost
    <3>1. excuse' = excuse
      BY <2>2 DEF Fail
    <3>2. excuse \in [DisputeId -> Nat]
      BY DEF Inv, TypeOK
    <3> QED
      BY <2>2, <3>1, <3>2
  <2> QED
    BY <2>1, <2>2
<1>4. faults' \in 0..MaxFaults
  BY BoundsAssumption DEF Inv, TypeOK, Fail
<1>5. TypeOK'
  BY <1>2, <1>3, <1>4 DEF Inv, TypeOK, Fail, RequestRecord
<1>6. RequestsAreChecked'
  BY <1>2 DEF Inv, Fail, RequestsAreChecked, Rows
<1>7. UnbornAreBlank' /\ RefundedOnce'
  <2>1. \A e \in DisputeId : refunds[e] <= 1 + excuse'[e]
    BY <1>1, <1>3 DEF Inv, TypeOK, RefundedOnce
  <2> QED
    BY <2>1 DEF Inv, Fail, UnbornAreBlank, Rows, RefundedOnce
<1>8. \A q \in Request, e \in DisputeId : Upholding(q, e)' <=> Upholding(q, e) /\ q # r
  BY <1>2 DEF Upholding, At
<1>9. RefundShows'
  <2> SUFFICES ASSUME NEW e \in DisputeId, (refunds[e] > excuse[e])'
               PROVE  (\/ status[e] \in {"resolved", "closed"}
                          /\ (outcome[e] = "upheld" \/ excuse[e] > 0)
                       \/ \E q \in Request : Upholding(q, e))'
    BY DEF RefundShows
  <2>1. CASE Lost /\ e = d
    BY <1>1, <1>3, <2>1 DEF Inv, TypeOK, Fail, RefundedOnce
  <2>2. CASE ~(Lost /\ e = d)
    <3>1. excuse'[e] = excuse[e] /\ refunds[e] > excuse[e]
      BY <1>3, <2>2 DEF Fail
    <3>2. CASE \E q \in Request : Upholding(q, e)
      BY <1>8, <2>2, <3>2 DEF Upholding
    <3>3. CASE status[e] \in {"resolved", "closed"} /\ (outcome[e] = "upheld" \/ excuse[e] > 0)
      BY <3>1, <3>3 DEF Fail
    <3> QED
      BY <3>1, <3>2, <3>3 DEF Inv, RefundShows
  <2> QED
    BY <2>1, <2>2
<1>10. UpheldIsPaid'
  BY <1>8 DEF Inv, UpheldIsPaid, Fail
<1> QED
  BY <1>5, <1>6, <1>7, <1>9, <1>10 DEF Inv

-----------------------------------------------------------------------------
(* The invariant of the specification *)

LEMMA InitInv == Init => Inv
<1> SUFFICES ASSUME Init PROVE Inv
  OBVIOUS
<1>1. TypeOK
  BY IdleType, BoundsAssumption, WalletAssumption
  DEF Init, TypeOK, Status, Outcome, RequestRecord
<1> QED
  BY <1>1, IdleType DEF Init, Inv, RequestsAreChecked, UnbornAreBlank, RefundedOnce,
     RefundShows, UpheldIsPaid, Upholding, At

LEMMA NextInv == Inv /\ [Next]_vars => Inv'
<1> SUFFICES ASSUME Inv, [Next]_vars PROVE Inv'
  OBVIOUS
<1>1. CASE Next
  BY <1>1, AskCreateKeeps, InsertKeeps, AskKeeps, CreditKeeps, CreditThrowsKeeps, UpdateKeeps,
     FailKeeps DEF Next
<1>2. CASE UNCHANGED vars
  BY <1>2 DEF vars, Inv, TypeOK, RequestsAreChecked, UnbornAreBlank, RefundedOnce, RefundShows,
     UpheldIsPaid, Upholding, At, Rows
<1> QED
  BY <1>1, <1>2

\* The inductive invariant of the handlers of disputeController and
\* disputeAdminController.
THEOREM DisputeInvariant == Spec => []Inv
BY InitInv, NextInv, PTL DEF Spec

\* Refunds beyond the first take an excuse, and rows and refunds agree but for
\* it (updateDispute), for any disputes and requests.
THEOREM RefundTheorem == Spec => []RefundInv
<1>1. Inv => RefundInv
  BY DEF Inv, RefundInv, RefundIsRecorded, RefundShows, UpheldIsPaid, Upholding, TypeOK
<1> QED
  BY <1>1, DisputeInvariant, PTL

\* No step takes a dispute out of "closed" unless its request had read the row
\* before it was closed (Dispute.update).
THEOREM ClosedTheorem == Spec => ClosedIsFinal
<1> DEFINE Final == \A d \in Rows : status[d] = "closed" /\ status'[d] # "closed"
                                      => excuse'[d] > excuse[d]
<1>1. Inv /\ [Next]_vars => [Final]_vars
  <2> SUFFICES ASSUME Inv, Next, NEW d \in Rows, status[d] = "closed", status'[d] # "closed"
               PROVE  excuse'[d] > excuse[d]
    OBVIOUS
  <2>1. ~(UNCHANGED status)
    OBVIOUS
  <2>2. d \in DisputeId
    BY DEF Rows
  <2>3. ASSUME NEW r \in Request, Insert(r) PROVE FALSE
    BY <2>2, <2>3 DEF Insert, Inv, TypeOK
  <2>4. ASSUME NEW r \in Request, Update(r) PROVE excuse'[d] > excuse[d]
    <3>1. rs[r].on = d /\ IsValidTransition(rs[r].read, rs[r].to)
      BY <2>2, <2>4 DEF Update, Inv, TypeOK, RequestsAreChecked, At
    <3>2. status[d] # rs[r].read
      BY <3>1, FromWhere
    <3> QED
      BY <2>2, <2>4, <3>1, <3>2 DEF Update, Excused, Inv, TypeOK
  <2> QED
    BY <2>1, <2>3, <2>4 DEF Next, AskCreate, Ask, Credit, CreditThrows, Fail
<1> QED
  BY <1>1, DisputeInvariant, PTL DEF Spec, ClosedIsFinal
-----------------------------------------------------------------------------
(* Active disputes *)

\* Active disputes of t about which nothing outdated was done.
Unexcused(t) ==
  {d \in DisputeId : /\ txn[d] = t /\ excuse[d] = 0
                     /\ status[d] \in {"open", "under_review", "escalated"}}

\* A request that is about to insert has found no active dispute.
InsertsWereFree == \A r \in Request : At(r, "insert") => rs[r].free

RowsAreFinite == IsFiniteSet(Rows)

UnbornAreUnexcused == \A d \in DisputeId \ Rows : excuse[d] = 0

\* Every unexcused active dispute beyond the first was inserted beside another.
FewUnexcused == \A t \in Txn : Cardinality(Unexcused(t)) <= 1 + twins[t]

ActiveInv == InsertsWereFree /\ RowsAreFinite /\ UnbornAreUnexcused /\ FewUnexcused

LEMMA UnexcusedAreFinite ==
  ASSUME RowsAreFinite, NEW t \in Txn
  PROVE  /\ Unexcused(t) \subseteq ActiveNow(t) /\ ActiveNow(t) \subseteq Rows
         /\ IsFiniteSet(Unexcused(t)) /\ IsFiniteSet(ActiveNow(t))
         /\ Cardinality(Unexcused(t)) \in Nat
<1>1. Unexcused(t) \subseteq ActiveNow(t) /\ ActiveNow(t) \subseteq Rows
  BY NoneAssumption DEF Unexcused, ActiveNow, Of, Rows
<1> QED
  BY <1>1, FS_Subset, FS_CardinalityType DEF RowsAreFinite

\* A step that inserts nothing makes no unexcused dispute active.
LEMMA NoneRevived ==
  ASSUME Inv, ActiveInv, NEW r \in Request,
         UNCHANGED <<txn, twins>>,
         \A q \in Request : At(q, "insert")' => rs'[q].free \/ rs'[q] = rs[q],
         \A d \in DisputeId : excuse'[d] \in Nat /\ excuse'[d] >= excuse[d],
         \A d \in DisputeId : excuse'[d] = excuse[d] \/ d \in Rows,
         \A d \in DisputeId :
           /\ excuse'[d] = 0
           /\ status'[d] \in {"open", "under_review", "escalated"}
           => status[d] \in {"open", "under_review", "escalated"}
  PROVE  ActiveInv'
<1>1. InsertsWereFree'
  BY DEF ActiveInv, InsertsWereFree, At
<1>2. RowsAreFinite' /\ UnbornAreUnexcused'
  BY DEF ActiveInv, RowsAreFinite, UnbornAreUnexcused, Rows
<1>3. ASSUME NEW t \in Txn PROVE Cardinality(Unexcused(t)') <= 1 + twins[t]
  <2>1. Unexcused(t)' \subseteq Unexcused(t)
    BY DEF Unexcused, Inv, TypeOK
  <2>2. IsFiniteSet(Unexcused(t)) /\ Cardinality(Unexcused(t)) \in Nat
    BY UnexcusedAreFinite DEF ActiveInv
  <2>3. Cardinality(Unexcused(t)') <= Cardinality(Unexcused(t))
        /\ Cardinality(Unexcused(t)') \in Nat
    BY <2>1, <2>2, FS_Subset, FS_CardinalityType
  <2> QED
    BY <2>2, <2>3 DEF ActiveInv, FewUnexcused, Inv, TypeOK
<1> QED
  BY <1>1, <1>2, <1>3 DEF ActiveInv, FewUnexcused

\* The new dispute is the first active one, or a twin.
LEMMA InsertKeepsFew ==
  ASSUME Inv, Inv', ActiveInv, NEW r \in Request, Insert(r)
  PROVE  ActiveInv'
<1> PICK d \in DisputeId \ Rows : /\ txn' = [txn EXCEPT ![d] = rs[r].on]
                                  /\ status' = [status EXCEPT ![d] = "open"]
  BY DEF Insert
<1>1. PICK t \in Txn : t = rs[r].on
  BY DEF Inv, RequestsAreChecked, Insert, At
<1>2. rs[r].free /\ excuse' = excuse /\ t # None
  BY <1>1, NoneAssumption DEF ActiveInv, InsertsWereFree, Insert
<1>3. /\ rs'[r].pc = "idle"
      /\ \A q \in Request \ {r} : rs'[q] = rs[q]
  BY Ending DEF Inv, Insert
<1>4. /\ txn'[d] = t /\ status'[d] = "open" /\ excuse[d] = 0
      /\ \A e \in DisputeId \ {d} : txn'[e] = txn[e] /\ status'[e] = status[e]
  BY <1>1 DEF Inv, TypeOK, ActiveInv, UnbornAreUnexcused
<1>5. Rows' = Rows \cup {d}
  BY <1>2, <1>4 DEF Rows
<1>6. InsertsWereFree'
  BY <1>3 DEF ActiveInv, InsertsWereFree, At
<1>7. RowsAreFinite' /\ UnbornAreUnexcused'
  BY <1>2, <1>5, FS_AddElement DEF ActiveInv, RowsAreFinite, UnbornAreUnexcused
<1>8. /\ twins'[t] = IF ActiveNow(t) # {} THEN twins[t] + 1 ELSE twins[t]
      /\ \A u \in Txn \ {t} : twins'[u] = twins[u]
      /\ \A u \in Txn : twins[u] \in Nat
  BY <1>1, <1>2 DEF Insert, Inv, TypeOK
<1>9. ASSUME NEW u \in Txn PROVE Cardinality(Unexcused(u)') <= 1 + twins'[u]
  <2>1. IsFiniteSet(Unexcused(u)) /\ Cardinality(Unexcused(u)) \in Nat
        /\ Unexcused(u) \subseteq ActiveNow(u)
        /\ Cardinality(Unexcused(u)) <= 1 + twins[u]
    BY UnexcusedAreFinite DEF ActiveInv, FewUnexcused
  <2>2. CASE u = t
    <3>1. d \notin Unexcused(t) /\ Unexcused(t)' = Unexcused(t) \cup {d}
      BY <1>2, <1>4 DEF Unexcused, Rows
    <3>2. Cardinality(Unexcused(t)') = Cardinality(Unexcused(t)) + 1
      BY <2>1, <2>2, <3>1, FS_AddElement
    <3>3. ActiveNow(t) = {} => Cardinality(Unexcused(t)) = 0
      BY <2>1, <2>2, FS_EmptySet
    <3> QED
      BY <1>8, <2>1, <2>2, <3>2, <3>3
  <2>3. CASE u # t
    <3>1. txn[d] = None /\ u # None
      BY NoneAssumption DEF Rows
    <3>2. Unexcused(u)' = Unexcused(u)
      BY <1>2, <1>4, <2>3, <3>1 DEF Unexcused
    <3> QED
      BY <1>8, <2>1, <2>3, <3>2
  <2> QED
    BY <2>2, <2>3
<1> QED
  BY <1>6, <1>7, <1>9 DEF ActiveInv, FewUnexcused

LEMMA InitActiveInv == Init => ActiveInv
<1> SUFFICES ASSUME Init PROVE ActiveInv
  OBVIOUS
<1>1. Rows = {} /\ InsertsWereFree /\ UnbornAreUnexcused
  BY DEF Init, Rows, InsertsWereFree, UnbornAreUnexcused, At, Idle
<1>2. ASSUME NEW t \in Txn PROVE Unexcused(t) = {} /\ twins[t] = 0
  BY NoneAssumption DEF Init, Unexcused
<1> QED
  BY <1>1, <1>2, FS_EmptySet DEF ActiveInv, RowsAreFinite, FewUnexcused

LEMMA NextActiveInv == Inv /\ Inv' /\ ActiveInv /\ [Next]_vars => ActiveInv'
<1> SUFFICES ASSUME Inv, Inv', ActiveInv, [Next]_vars PROVE ActiveInv'
  OBVIOUS
<1>1. ASSUME NEW r \in Request, NEW t \in Txn, AskCreate(r, t) PROVE ActiveInv'
  <2>1. \A q \in Request : q # r => rs'[q] = rs[q]
    BY <1>1 DEF AskCreate, Inv, TypeOK
  <2>2. rs'[r].free
    BY <1>1 DEF AskCreate, Active, ActiveNow, Idle, Inv, TypeOK
  <2>3. UNCHANGED <<txn, twins, status, excuse>> /\ \A d \in DisputeId : excuse[d] \in Nat
    BY <1>1 DEF AskCreate, Inv, TypeOK
  <2>4. \A q \in Request : rs'[q].free \/ rs'[q] = rs[q]
    BY <2>1, <2>2
  <2> QED
    BY <2>3, <2>4, NoneRevived
<1>2. ASSUME NEW r \in Request, Insert(r) PROVE ActiveInv'
  BY <1>2, InsertKeepsFew
<1>3. ASSUME NEW r \in Request, Update(r) PROVE ActiveInv'
  <2>1. PICK d \in Rows : d = rs[r].on /\ IsValidTransition(rs[r].read, rs[r].to)
    BY <1>3 DEF Update, At, Inv, RequestsAreChecked
  <2>2. d \in DisputeId
    BY DEF Rows
  <2>3. \A q \in Request : rs'[q] = rs[q] \/ rs'[q].pc = "idle"
    BY <1>3, Ending DEF Update, Inv
  <2>4. /\ excuse'[d] = IF status[d] # rs[r].read THEN excuse[d] + 1 ELSE excuse[d]
        /\ \A e \in DisputeId \ {d} : excuse'[e] = excuse[e] /\ status'[e] = status[e]
        /\ status'[d] = rs[r].to
    BY <1>3, <2>1, <2>2, Excusing DEF Update, Inv, TypeOK
  <2>5. \A e \in DisputeId : excuse[e] \in Nat
    BY DEF Inv, TypeOK
  <2>6. rs[r].to \in {"open", "under_review", "escalated"}
          => rs[r].read \in {"open", "under_review", "escalated"}
    BY <2>1 DEF IsValidTransition, Transitions
  <2>7. excuse'[d] = 0 => status[d] = rs[r].read
    BY <2>2, <2>4, <2>5
  <2>8. \A e \in DisputeId : excuse'[e] \in Nat /\ excuse'[e] >= excuse[e]
    BY <2>4, <2>5
  <2>9. UNCHANGED <<txn, twins>>
    BY <1>3 DEF Update
  <2> QED
    BY <2>1, <2>2, <2>3, <2>4, <2>6, <2>7, <2>8, <2>9, NoneRevived DEF At
<1>4. ASSUME NEW r \in Request, Credit(r) \/ Fail(r) PROVE ActiveInv'
  <2>1. \A q \in Request : rs'[q] = rs[q] \/ rs'[q].pc # "insert"
    <3>1. CASE Credit(r)
      BY <3>1 DEF Credit, Inv, TypeOK
    <3>2. CASE Fail(r)
      BY <3>2, Ending DEF Fail, Inv
    <3> QED
      BY <1>4, <3>1, <3>2
  <2>2. excuse' = excuse \/ \E b \in BOOLEAN : rs[r].on \in Rows /\ Excused(rs[r].on, b)
    <3>1. At(r, "credit") \/ At(r, "update") => rs[r].on \in Rows
      BY DEF Inv, RequestsAreChecked, At
    <3>2. Outdated(r) \in BOOLEAN
      BY DEF Outdated
    <3> QED
      BY <1>4, <3>1, <3>2 DEF Credit, Fail
  <2>3. \A d \in DisputeId : /\ excuse'[d] \in Nat /\ excuse'[d] >= excuse[d]
                             /\ excuse'[d] = excuse[d] \/ d \in Rows
    BY <2>2, Excusing DEF Inv, TypeOK, Rows
  <2>4. UNCHANGED <<txn, twins, status>>
    BY <1>4 DEF Credit, Fail
  <2> QED
    BY <2>1, <2>3, <2>4, NoneRevived DEF At
<1>5. ASSUME NEW r \in Request, CreditThrows(r) PROVE ActiveInv'
  <2>1. \A q \in Request : rs'[q] = rs[q] \/ rs'[q].pc = "idle"
    BY <1>5, Ending DEF CreditThrows, Inv
  <2> QED
    BY <1>5, <2>1, NoneRevived DEF CreditThrows, At, Inv, TypeOK
<1>6. ASSUME NEW r \in Request, NEW d \in DisputeId, NEW to \in Status, NEW v \in Verdict,
             Ask(r, d, to, v)
      PROVE  ActiveInv'
  <2>1. \A q \in Request : rs'[q] = rs[q] \/ rs'[q].pc # "insert"
    BY <1>6 DEF Ask, Inv, TypeOK
  <2> QED
    BY <1>6, <2>1, NoneRevived DEF Ask, At, Inv, TypeOK
<1>7. CASE UNCHANGED vars
  BY <1>7 DEF vars, ActiveInv, InsertsWereFree, At, RowsAreFinite, Rows, UnbornAreUnexcused,
              FewUnexcused, Unexcused
<1> QED
  BY <1>1, <1>2, <1>3, <1>4, <1>5, <1>6, <1>7 DEF Next

LEMMA FewAreActive == Inv /\ ActiveInv => OneActiveDispute
<1> SUFFICES ASSUME Inv, ActiveInv, NEW t \in Txn
             PROVE  Cardinality(ActiveNow(t)) <=
                      1 + twins[t] + Cardinality({d \in Of(t) : excuse[d] > 0})
  BY DEF OneActiveDispute
<1> DEFINE E == {d \in Of(t) : excuse[d] > 0}
<1>1. IsFiniteSet(Unexcused(t)) /\ Cardinality(Unexcused(t)) \in Nat
      /\ IsFiniteSet(ActiveNow(t))
  BY UnexcusedAreFinite DEF ActiveInv
<1>2. IsFiniteSet(E) /\ Cardinality(E) \in Nat
  <2>1. E \subseteq Rows
    BY DEF Of
  <2> QED
    BY <2>1, FS_Subset, FS_CardinalityType DEF ActiveInv, RowsAreFinite
<1>3. ActiveNow(t) \subseteq Unexcused(t) \cup E
  BY DEF ActiveNow, Unexcused, Of, Rows, Inv, TypeOK
<1>4. /\ IsFiniteSet(Unexcused(t) \cup E)
      /\ Cardinality(Unexcused(t) \cup E) <= Cardinality(Unexcused(t)) + Cardinality(E)
  <2>1. /\ IsFiniteSet(Unexcused(t) \cup E)
        /\ Cardinality(Unexcused(t) \cup E)
             = Cardinality(Unexcused(t)) + Cardinality(E) - Cardinality(Unexcused(t) \cap E)
    BY <1>1, <1>2, FS_Union
  <2>2. Cardinality(Unexcused(t) \cap E) \in Nat
    BY <1>1, FS_Intersection, FS_CardinalityType
  <2> QED
    BY <1>1, <1>2, <2>1, <2>2
<1>5. /\ Cardinality(ActiveNow(t)) <= Cardinality(Unexcused(t) \cup E)
      /\ Cardinality(ActiveNow(t)) \in Nat /\ Cardinality(Unexcused(t) \cup E) \in Nat
  BY <1>1, <1>3, <1>4, FS_Subset, FS_CardinalityType
<1>6. Cardinality(Unexcused(t)) <= 1 + twins[t] /\ twins[t] \in Nat
  BY DEF ActiveInv, FewUnexcused, Inv, TypeOK
<1> QED
  BY <1>1, <1>2, <1>4, <1>5, <1>6

\* OneActiveDispute: duplicates beside an active dispute come only from checks
\* and updates that were outdated (findByTransaction, Dispute.update), for any
\* transactions, disputes and requests.
THEOREM OneActiveTheorem == Spec => []OneActiveDispute
<1>1. Spec => []ActiveInv
  BY InitActiveInv, NextActiveInv, DisputeInvariant, PTL DEF Spec
<1> QED
  BY <1>1, FewAreActive, DisputeInvariant, PTL

=============================================================================
