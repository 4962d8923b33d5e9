-------------------------- MODULE BatchPayment_proofs --------------------------
(***************************************************************************)
(* Theorems about batch payments behind the idempotency gate, for any      *)
(* batches, requests, attempts and faults.                                 *)
(*                                                                         *)
(* The argument: until Redis fails, a lock runs out or the process dies,   *)
(* at most one request is in the handler, about to write the record or the *)
(* owner of an answer that stays, and the record tells whether there is    *)
(* one.  A row has at most one run at work on it; only a task that goes on *)
(* after its batch failed touches a row from outside, and the row has met  *)
(* a fault by then.  Payments with the same content exclude each other by  *)
(* the row that processPayment holds, or by the one it leaves behind.      *)
(***************************************************************************)
EXTENDS BatchPayment, FiniteSetTheorems, TLAPS

(* The gate *)

\* A request that has no answer has left nothing behind.
UnansweredIsBlank ==
  \A r \in Req : req[r] # "answered" =>
    source[r] = 0 /\ reply[r] = None /\ writing[r] = None

\* A pending update of the record belongs to an answer of its handler.
WritersAnswered ==
  \A r \in Req :
    /\ source[r] = r => reply[r] \in {"2xx", "4xx", "5xx"}
    /\ writing[r] # None => source[r] = r /\ (writing[r] = "delete" <=> reply[r] = "5xx")

\* The handler of r gave an answer that is kept.
Owns(r) == source[r] = r /\ reply[r] # "5xx"

\* Cached answers come from such requests, as the record does.
CachedIsOwned ==
  /\ \A r \in Req : source[r] \in Req \ {r} => Owns(source[r])
  /\ record.status = "completed" => Owns(record.by)

\* In the handler, or about to update the record.
Active(r) == req[r] = "handler" \/ writing[r] # None

\* What the gate is for.
OneAtATime ==
  lost \subseteq {"released"} =>
    /\ \A r, q \in Req : (Active(r) \/ Owns(r)) /\ (Active(q) \/ Owns(q)) => r = q
    /\ \A r \in Req : Active(r) => record = InProgress
    /\ \A r \in Req : Owns(r) => record # NoRecord

\* An answer that is not kept releases the key.
ReleaseIsPending ==
  lost = {} => \A r \in Req : source[r] = r /\ reply[r] = "5xx" => writing[r] = "delete"

GateInv ==
  /\ UnansweredIsBlank /\ WritersAnswered /\ CachedIsOwned
  /\ OneAtATime /\ ReleaseIsPending

-----------------------------------------------------------------------------
(* The runs of a row *)

Live == {"prepare", "submit", "commit", "record", "items", "written", "fail", "refused"}
Ended == {"completed", "partial_failed"}

\* Who is at work: the active job's last attempt, or the request itself.
RunIsOwned(x) ==
  LET r == x[1] IN
  /\ run[x] # "idle" => /\ batch[r].status # "none"
                        /\ IF queued THEN x[2] <= job[r].tries ELSE x[2] = 1
  /\ run[x] \in Live => IF queued THEN job[r].st = "active" /\ x[2] = job[r].tries
                                  ELSE req[r] = "handler"
  /\ run[x] \in {"submit", "commit", "record"} => atomic
  /\ run[x] = "items" => ~atomic
  /\ run[x] \in {"submit", "commit", "record", "items"} => batch[r].status = "processing"
  /\ run[x] = "written" => batch[r].status \in Over

\* The request has answered that its job is queued.
JobIsAccepted(r) ==
  /\ job[r].st # "none" => queued /\ source[r] = r /\ reply[r] = "2xx" /\ batch[r].status # "none"
  /\ job[r].st = "none" => job[r].tries = 0
  /\ queued /\ job[r].tries = 0 => batch[r].status \in {"none", "pending"}

\* Why a row that ended may be worked on again.
Explained(r) == cause[r] \cap {"crash", "reread"} # {}

\* An ended row has no attempt to come, and its run has yet to return at most.  A
\* failed one may have an attempt of its job that is not the first.
EndedIsQuiet ==
  /\ \A r \in Req : batch[r].status \in Ended /\ queued =>
       job[r].st = "done" \/ Explained(r) \/ \E x \in Run : x[1] = r /\ run[x] = "written"
  /\ \A x \in Run : run[x] \in Live \ {"written"} /\ batch[x[1]].status \in Over =>
       \/ run[x] = "fail" /\ "reread" \in cause[x[1]]
       \/ queued /\ job[x[1]].tries > 1 /\ (batch[x[1]].status = "failed" \/ Explained(x[1]))

RunInv ==
  /\ \A x \in Run : RunIsOwned(x)
  /\ \A r \in Req : JobIsAccepted(r)
  /\ EndedIsQuiet

-----------------------------------------------------------------------------
(* The tasks of a run *)

TaskInv ==
  \A x \in Run, i \in Item :
    /\ atomic \/ run[x] \in {"idle", "prepare"} => item[x][i] = "idle"
    /\ run[x] = "items" => item[x][i] # "idle"
    /\ item[x][i] \in InFlight => run[x] = "items" \/ "db" \in cause[x[1]]

WorkInv == TypeOK /\ GateInv /\ RunInv /\ TaskInv

-----------------------------------------------------------------------------
(* The payments of a batch that pays item by item *)

Paying(x, i) == item[x][i] \in {"paying", "posting"}

\* The row that processPayment holds, and the one it leaves, keep others out.
PaymentsExclude ==
  \A x \in Run, i \in Item : Paying(x, i) =>
    /\ Content[i] \notin posted
    /\ \A y \in Run, j \in Item : Paying(y, j) /\ Content[j] = Content[i] => y = x /\ j = i

\* A task past its payment has paid, or found the payment.
TasksHavePaid ==
  /\ \A x \in Run, i \in Item :
       /\ item[x][i] = "posting" => paid[x[1]][i] > 0
       /\ item[x][i] \in {"noting", "completed"} => Content[i] \in posted
  /\ \A i \in Item : Content[i] \in posted => Paid(i)

\* No payment of some item by item batch lost its answer or its row.
Answered == \A r \in Req : cause[r] \cap {"unposted", "unanswered", "crash"} = {}

\* Then each payment is known, and the only one with its content.
PaymentsKnown ==
  ~atomic /\ Answered =>
    \A r \in Req, i \in Item : paid[r][i] > 0 =>
      /\ paid[r][i] = 1
      /\ Content[i] \in posted \/ \E x \in Run : x[1] = r /\ item[x][i] = "posting"
      /\ \A q \in Req, j \in Item : paid[q][j] > 0 /\ Content[j] = Content[i] => q = r /\ j = i

\* The items whose payment was made for row r.
Mine(r) == {i \in Item : paid[r][i] > 0}
Known(x) == {i \in Item : item[x][i] \in {"posting", "noting", "completed"}}

\* Without faults the payments of a row are those of the one run that got to pay.
MineIsKnown(r) ==
  ~atomic /\ cause[r] = {} =>
    \/ Mine(r) = {}
    \/ \E x \in Run : x[1] = r /\ run[x] = "items" /\ Mine(r) \subseteq Known(x)
    \/ batch[r].status \in Ended /\ Cardinality(Mine(r)) <= batch[r].good

-----------------------------------------------------------------------------
(* The payment of an atomic batch *)

PastSubmit(r) == \E x \in Run : x[1] = r /\ run[x] \in {"commit", "record"}

AtomicIsWhole(r) ==
  atomic =>
    /\ PastSubmit(r) => \A i \in Item : paid[r][i] > 0
    /\ cause[r] = {} =>
         \/ \A i \in Item : paid[r][i] = 0
         \/ /\ \A i \in Item : paid[r][i] = 1
            /\ PastSubmit(r) \/ batch[r].status = "completed"

\* An atomic batch completed in its request is answered so.
CompletedIsAnswered(r) ==
  atomic /\ ~queued /\ batch[r].status = "completed" /\ cause[r] = {} =>
    \/ source[r] = r /\ reply[r] = "2xx"
    \/ \E x \in Run : x[1] = r /\ run[x] = "written"

\* What row r says, case by case.
Done == {i \in Item : Paid(i)}
RowTrue(r) ==
  /\ batch[r].status = "completed" =>
       Done = Item /\ (batch[r].good = Cardinality(Item) \/ "db" \in cause[r])
  /\ batch[r].status = "failed" => Mine(r) = {} \/ cause[r] # {}
  /\ batch[r].status = "partial_failed" =>
       /\ Done # {}
       /\ batch[r].good \in 1..Cardinality(Done) \/ "db" \in cause[r]
       /\ batch[r].good + batch[r].bad = Cardinality(Item) \/ "db" \in cause[r]
       /\ cause[r] = {} => Cardinality(Mine(r)) <= batch[r].good

MoneyInv ==
  /\ PaymentsExclude /\ TasksHavePaid /\ PaymentsKnown
  /\ \A r \in Req : MineIsKnown(r) /\ AtomicIsWhole(r) /\ CompletedIsAnswered(r) /\ RowTrue(r)

Inv == WorkInv /\ MoneyInv

-----------------------------------------------------------------------------
(* Facts about the data *)

LEMMA RunParts ==
  ASSUME NEW x \in Run
  PROVE  x[1] \in Req /\ x[2] \in 1..Attempts /\ x = <<x[1], x[2]>>
BY DEF Run

LEMMA ReqFacts == 0 \notin Req /\ Req \subseteq Nat
BY GateAssumption DEF Req

Records == {NoRecord, InProgress} \cup {Completed(r) : r \in Req}
Replies == {None, "2xx", "4xx", "5xx", "conflict", "cached"}
Places == {"new", "get", "lock", "handler", "answered", "dead"}

LEMMA RecordFacts ==
  /\ NoRecord \in Records /\ InProgress \in Records /\ NoRecord # InProgress
  /\ NoRecord.status = "none" /\ InProgress.status = "in-progress"
  /\ \A r \in Req : /\ Completed(r) \in Records /\ Completed(r).status = "completed"
                    /\ Completed(r).by = r
                    /\ Completed(r) # NoRecord /\ Completed(r) # InProgress
  /\ \A c \in Records : \/ c = NoRecord \/ c = InProgress
                        \/ c.status = "completed" /\ c.by \in Req /\ c = Completed(c.by)
<1>1. NoRecord # InProgress /\ NoRecord.status = "none" /\ InProgress.status = "in-progress"
  BY DEF NoRecord, InProgress
<1>2. \A r \in Req : /\ Completed(r).status = "completed" /\ Completed(r).by = r
  BY DEF Completed
<1>3. \A r \in Req : Completed(r) # NoRecord /\ Completed(r) # InProgress
  BY <1>1, <1>2
<1>4. \A c \in Records : \/ c = NoRecord \/ c = InProgress
                         \/ c.status = "completed" /\ c.by \in Req /\ c = Completed(c.by)
  BY <1>2 DEF Records
<1>5. /\ NoRecord \in Records /\ InProgress \in Records
      /\ \A r \in Req : Completed(r) \in Records
  BY DEF Records
<1> QED
  BY <1>1, <1>2, <1>3, <1>4, <1>5

GateTypes ==
  /\ record \in Records /\ req \in [Req -> Places] /\ reply \in [Req -> Replies]
  /\ source \in [Req -> Req \cup {0}] /\ writing \in [Req -> {None, "save", "delete"}]
  /\ lost \subseteq {"redis", "expired", "released", "aged", "crash"} /\ faults \in 0..Faults

LEMMA GateTypesAre == (GateTypeOK <=> GateTypes) /\ (GateTypeOK' <=> GateTypes')
BY DEF GateTypeOK, GateTypes, Records, Replies, Places

\* A fault is one of those left.
LEMMA FaultType ==
  ASSUME faults \in 0..Faults, Fault
  PROVE  faults' \in 0..Faults
BY GateAssumption DEF Fault

-----------------------------------------------------------------------------
(* The gate keeps its invariant *)

\* What a step of the gate leaves to the runs of the handler.
HandlersStay ==
  /\ \A r \in Req : req[r] = "handler" => req'[r] = "handler"
  /\ \A r \in Req : req[r] = "answered" => /\ req'[r] = "answered"
                                           /\ source'[r] = source[r] /\ reply'[r] = reply[r]

LEMMA SendKeeps ==
  ASSUME GateTypes, GateInv, NEW r \in Req, Send(r)
  PROVE  GateTypes' /\ GateInv' /\ HandlersStay
<1>1. GateTypes'
  BY DEF GateTypes, Send, Moved, Places
<1>2. HandlersStay
  BY DEF GateTypes, HandlersStay, Send, Moved
<1>3. GateInv'
  BY DEF GateTypes, GateInv, UnansweredIsBlank, WritersAnswered, CachedIsOwned, Owns, Active,
         OneAtATime, ReleaseIsPending, Send, Moved
<1> QED
  BY <1>1, <1>2, <1>3

\* An answer of the gate itself.
LEMMA TurnedKeeps ==
  ASSUME GateTypes, GateInv, NEW r \in Req, req[r] \in {"get", "lock"},
         NEW kind \in {"conflict", "cached"}, NEW from \in Req \cup {0},
         Turned(r, kind, from), UNCHANGED <<record, writing, lost, faults>>,
         from # 0 => Owns(from)
  PROVE  GateTypes' /\ GateInv' /\ HandlersStay
<1>1. GateTypes'
  BY DEF GateTypes, Turned, Moved, Places, Replies
<1>2. HandlersStay
  BY DEF GateTypes, HandlersStay, Turned, Moved
<1>3. source[r] = 0 /\ from # r /\ writing[r] = None
  BY ReqFacts DEF GateInv, UnansweredIsBlank, Owns
<1>4. \A q \in Req : /\ Owns(q)' <=> Owns(q)
                     /\ Active(q)' <=> Active(q)
                     /\ q # r => source'[q] = source[q] /\ reply'[q] = reply[q] /\ req'[q] = req[q]
  BY <1>3, ReqFacts DEF GateTypes, Turned, Moved, Owns, Active
<1>5. source'[r] = from /\ reply'[r] = kind /\ req'[r] = "answered"
  BY DEF GateTypes, Turned, Moved
<1>6. UnansweredIsBlank' /\ WritersAnswered'
  BY <1>3, <1>4, <1>5 DEF GateInv, UnansweredIsBlank, WritersAnswered, GateTypes
<1>7. CachedIsOwned'
  <2>1. record.status = "completed" => record.by \in Req
    BY RecordFacts DEF GateTypes
  <2>2. \A q, p \in Req : source'[q] = p /\ p # q => Owns(p)
    BY <1>4, <1>5, ReqFacts DEF GateInv, CachedIsOwned
  <2>3. \A q, p \in Req : source'[q] = p /\ p # q => Owns(p)'
    BY <1>4, <2>2
  <2> QED
    BY <1>4, <2>1, <2>3 DEF GateInv, CachedIsOwned
<1>8. OneAtATime' /\ ReleaseIsPending'
  BY <1>3, <1>4, <1>5 DEF GateInv, OneAtATime, ReleaseIsPending, GateTypes
<1> QED
  BY <1>1, <1>2, <1>6, <1>7, <1>8 DEF GateInv

LEMMA PassOn ==
  ASSUME GateTypes, GateInv, NEW r \in Req, req[r] \in {"get", "lock"}, NEW pc \in {"lock", "handler"},
         Moved(r, pc), UNCHANGED <<reply, source, writing>>, faults' \in 0..Faults,
         record' \in Records,
         \/ lost' = lost \cup {"redis"} /\ record' = record
         \/ pc = "lock" /\ record' = record /\ lost' = lost
         \/ pc = "handler" /\ record = NoRecord /\ record' = InProgress /\ lost' = lost
  PROVE  GateTypes' /\ GateInv' /\ HandlersStay
<1>1. GateTypes'
  BY DEF GateTypes, Moved, Places
<1>2. HandlersStay
  BY DEF GateTypes, HandlersStay, Moved
<1>3. /\ \A q \in Req : Owns(q)' <=> Owns(q)
      /\ \A q \in Req : Active(q)' <=> Active(q) \/ (q = r /\ pc = "handler")
  BY DEF GateTypes, GateInv, UnansweredIsBlank, Owns, Active, Moved
<1>4. UnansweredIsBlank' /\ WritersAnswered' /\ ReleaseIsPending'
  BY DEF GateTypes, GateInv, UnansweredIsBlank, WritersAnswered, ReleaseIsPending, Moved
<1>5. CachedIsOwned'
  BY <1>3, RecordFacts DEF GateTypes, GateInv, CachedIsOwned
<1>6. OneAtATime'
  <2>1. CASE lost' = lost /\ pc = "handler"
    BY <1>3, <2>1, RecordFacts DEF GateInv, OneAtATime
  <2>2. CASE lost' = lost /\ pc = "lock"
    BY <1>3, <2>2 DEF GateInv, OneAtATime
  <2> QED
    BY <2>1, <2>2 DEF OneAtATime
<1> QED
  BY <1>1, <1>2, <1>4, <1>5, <1>6 DEF GateInv

LEMMA GetRecordKeeps ==
  ASSUME GateTypes, GateInv, NEW r \in Req, GetRecord(r)
  PROVE  GateTypes' /\ GateInv' /\ HandlersStay
<1>1. CASE record = NoRecord
  <2>1. /\ req[r] \in {"get", "lock"} /\ Moved(r, "lock")
        /\ UNCHANGED <<reply, source, writing, record, lost, faults>>
    BY <1>1, RecordFacts DEF GetRecord
  <2>2. record' \in Records /\ faults' \in 0..Faults /\ record' = record /\ lost' = lost
    BY <2>1 DEF GateTypes
  <2> QED
    BY <2>1, <2>2, PassOn
<1>2. CASE record = InProgress
  BY <1>2, TurnedKeeps, RecordFacts DEF GetRecord
<1>3. CASE record # NoRecord /\ record # InProgress
  <2>1. record.by \in Req /\ Owns(record.by)
    BY <1>3, RecordFacts DEF GateTypes, GateInv, CachedIsOwned
  <2>2. Turned(r, "cached", record.by)
    BY <1>3 DEF GetRecord
  <2> QED
    BY <2>1, <2>2, TurnedKeeps DEF GetRecord
<1> QED
  BY <1>1, <1>2, <1>3

LEMMA SetLockKeeps ==
  ASSUME GateTypes, GateInv, NEW r \in Req, SetLock(r)
  PROVE  GateTypes' /\ GateInv' /\ HandlersStay
<1>1. CASE record = NoRecord
  BY <1>1, PassOn, RecordFacts DEF SetLock, GateTypes
<1>2. CASE record # NoRecord
  BY <1>2, TurnedKeeps DEF SetLock
<1> QED
  BY <1>1, <1>2

LEMMA LookupFailsKeeps ==
  ASSUME GateTypes, GateInv, NEW r \in Req, GetRecordFails(r) \/ SetLockFails(r)
  PROVE  GateTypes' /\ GateInv' /\ HandlersStay
<1>1. faults' \in 0..Faults
  BY FaultType DEF GetRecordFails, SetLockFails, GateTypes
<1>2. PICK pc \in {"lock", "handler"} : Moved(r, pc)
  BY DEF GetRecordFails, SetLockFails
<1>3. /\ UNCHANGED <<record, reply, source, writing>> /\ lost' = lost \cup {"redis"}
      /\ req[r] \in {"get", "lock"}
  BY DEF GetRecordFails, SetLockFails
<1> QED
  BY <1>1, <1>2, <1>3, PassOn DEF GateTypes

LEMMA WriteRecordKeeps ==
  ASSUME GateTypes, GateInv, NEW r \in Req, WriteRecord(r) \/ WriteRecordFails(r)
  PROVE  GateTypes' /\ GateInv' /\ HandlersStay
<1>1. UNCHANGED <<req, reply, source>> /\ writing' = [writing EXCEPT ![r] = None]
      /\ writing[r] # None /\ faults' \in 0..Faults
  BY FaultType DEF WriteRecord, WriteRecordFails, GateTypes
<1>2. /\ source[r] = r /\ req[r] = "answered"
      /\ writing[r] = "save" => Owns(r)
      /\ writing[r] \in {"save", "delete"}
  BY <1>1, GateAssumption DEF GateTypes, GateInv, WritersAnswered, Owns, UnansweredIsBlank
<1>3. \/ writing[r] = "save" /\ record' = Completed(r) /\ lost' = lost
      \/ writing[r] = "delete" /\ record' = NoRecord /\ lost' = lost \cup {"released"}
      \/ record' = record /\ lost' = lost \cup {"redis"}
  BY <1>2 DEF WriteRecord, WriteRecordFails
<1>4. GateTypes' /\ HandlersStay
  <2>1. record' \in Records
    BY <1>3, RecordFacts DEF GateTypes
  <2>2. lost' \subseteq {"redis", "expired", "released", "aged", "crash"}
    BY <1>3 DEF GateTypes
  <2> QED
    BY <1>1, <2>1, <2>2 DEF GateTypes, HandlersStay
<1>5. \A q \in Req : /\ Owns(q)' <=> Owns(q)
                     /\ Active(q)' <=> Active(q) /\ q # r
                     /\ Active(r)
  BY <1>1, <1>2 DEF Owns, Active, GateTypes
<1>6. UnansweredIsBlank' /\ WritersAnswered'
  BY <1>1 DEF GateTypes, GateInv, UnansweredIsBlank, WritersAnswered
<1>7. CachedIsOwned'
  <2>1. record'.status = "completed" => Owns(record'.by)
    BY <1>2, <1>3, RecordFacts DEF GateInv, CachedIsOwned
  <2>2. record'.status = "completed" => record'.by \in Req
    BY <1>4, RecordFacts DEF GateTypes
  <2> QED
    BY <1>1, <1>5, <2>1, <2>2 DEF GateTypes, GateInv, CachedIsOwned, Owns
<1>8. OneAtATime'
  <2>1. CASE "redis" \in lost'
    BY <2>1 DEF OneAtATime
  <2>2. CASE writing[r] = "save" /\ record' = Completed(r) /\ lost' = lost
    BY <1>2, <1>5, <2>2, RecordFacts DEF GateInv, OneAtATime
  <2>3. CASE writing[r] = "delete" /\ record' = NoRecord /\ lost' = lost \cup {"released"}
    <3>1. lost' \subseteq {"released"} => lost \subseteq {"released"}
      BY <2>3
    <3>2. ~Owns(r)
      BY <1>1, <2>3 DEF GateInv, WritersAnswered, Owns
    <3>3. lost \subseteq {"released"} => \A q \in Req : q # r => ~Active(q) /\ ~Owns(q)
      BY <1>5 DEF GateInv, OneAtATime
    <3> QED
      BY <1>5, <3>1, <3>2, <3>3 DEF OneAtATime
  <2> QED
    BY <1>3, <2>1, <2>2, <2>3
<1>9. ReleaseIsPending'
  <2>1. CASE lost' # {}
    BY <2>1 DEF ReleaseIsPending
  <2>2. CASE writing[r] = "save" /\ lost' = lost
    BY <1>1, <1>2, <2>2 DEF GateTypes, GateInv, ReleaseIsPending, Owns
  <2> QED
    BY <1>3, <2>1, <2>2
<1> QED
  BY <1>4, <1>6, <1>7, <1>8, <1>9 DEF GateInv

LEMMA LockExpiresKeeps ==
  ASSUME GateTypes, GateInv, LockExpires
  PROVE  GateTypes' /\ GateInv' /\ HandlersStay
<1>1. faults' \in 0..Faults
  BY FaultType DEF LockExpires, GateTypes
<1>2. GateTypes' /\ HandlersStay
  BY <1>1, RecordFacts DEF LockExpires, GateTypes, HandlersStay
<1>3. GateInv'
  BY RecordFacts DEF LockExpires, GateTypes, GateInv, UnansweredIsBlank, WritersAnswered,
     CachedIsOwned, Owns, OneAtATime, ReleaseIsPending
<1> QED
  BY <1>2, <1>3

LEMMA AnswerExpiresKeeps ==
  ASSUME GateTypes, GateInv, AnswerExpires
  PROVE  GateTypes' /\ GateInv' /\ HandlersStay
<1>1. faults' \in 0..Faults
  BY FaultType DEF AnswerExpires, GateTypes
<1>2. GateTypes' /\ HandlersStay
  BY <1>1, RecordFacts DEF AnswerExpires, GateTypes, HandlersStay
<1>3. GateInv'
  BY RecordFacts DEF AnswerExpires, GateTypes, GateInv, UnansweredIsBlank, WritersAnswered,
     CachedIsOwned, Owns, OneAtATime, ReleaseIsPending
<1> QED
  BY <1>2, <1>3

LEMMA GateCrashKeeps ==
  ASSUME GateTypes, GateInv, GateCrash
  PROVE  /\ GateTypes' /\ GateInv'
         /\ \A r \in Req : req'[r] # "handler"
         /\ UNCHANGED <<source, reply>>
<1>1. faults' \in 0..Faults
  BY FaultType DEF GateCrash, GateTypes
<1>2. GateTypes'
  BY <1>1 DEF GateCrash, GateTypes, Places
<1>3. GateInv'
  BY DEF GateCrash, GateTypes, GateInv, UnansweredIsBlank, WritersAnswered,
     CachedIsOwned, Owns, OneAtATime, ReleaseIsPending
<1> QED
  BY <1>2, <1>3 DEF GateCrash, GateTypes

\* The handler answers.
LEMMA RespondKeeps ==
  ASSUME GateTypes, GateInv, NEW r \in Req, req[r] = "handler",
         NEW kind \in {"2xx", "4xx", "5xx"}, Respond(r, kind),
         UNCHANGED <<record, lost>>, faults' \in 0..Faults
  PROVE  /\ GateTypes' /\ GateInv'
         /\ req'[r] = "answered" /\ source'[r] = r /\ reply'[r] = kind
         /\ \A q \in Req \ {r} : req'[q] = req[q] /\ source'[q] = source[q] /\ reply'[q] = reply[q]
<1>1. GateTypes'
  BY DEF GateTypes, Respond, Moved, Places, Replies
<1>2. /\ req'[r] = "answered" /\ source'[r] = r /\ reply'[r] = kind
      /\ writing'[r] = IF kind = "5xx" THEN "delete" ELSE "save"
      /\ \A q \in Req \ {r} : req'[q] = req[q] /\ source'[q] = source[q] /\ reply'[q] = reply[q]
                              /\ writing'[q] = writing[q]
  BY DEF GateTypes, Respond, Moved
<1>3. source[r] = 0
  BY DEF GateInv, UnansweredIsBlank
<1>4. /\ \A q \in Req \ {r} : (Owns(q)' <=> Owns(q)) /\ (Active(q)' <=> Active(q))
      /\ Active(r) /\ Active(r)' /\ ~Owns(r)
  BY <1>2, <1>3, ReqFacts, GateAssumption DEF Owns, Active
<1>5. UnansweredIsBlank' /\ WritersAnswered' /\ ReleaseIsPending'
  BY <1>2, GateAssumption
  DEF GateTypes, GateInv, UnansweredIsBlank, WritersAnswered, ReleaseIsPending
<1>6. CachedIsOwned'
  BY <1>2, <1>3, <1>4, RecordFacts DEF GateTypes, GateInv, CachedIsOwned
<1>7. OneAtATime'
  BY <1>4, RecordFacts DEF GateInv, OneAtATime
<1> QED
  BY <1>1, <1>2, <1>5, <1>6, <1>7 DEF GateInv

\* A step of the processing that does not answer.
LEMMA GateKept ==
  ASSUME GateTypes, GateInv, UNCHANGED GateRest, faults' \in 0..Faults
  PROVE  GateTypes' /\ GateInv' /\ HandlersStay
<1>1. UNCHANGED <<record, req, reply, source, writing, lost>>
  BY DEF GateRest
<1>2. GateTypes' /\ HandlersStay
  BY <1>1 DEF GateTypes, HandlersStay
<1> QED
  BY <1>1, <1>2 DEF GateInv, UnansweredIsBlank, WritersAnswered, CachedIsOwned, Owns, Active,
     OneAtATime, ReleaseIsPending

-----------------------------------------------------------------------------
(* Counting the items *)

LEMMA SizeMonotone ==
  ASSUME NEW S, NEW T, IsFiniteSet(T), S \subseteq T
  PROVE  IsFiniteSet(S) /\ Cardinality(S) \in Nat /\ Cardinality(S) <= Cardinality(T)
BY FS_Subset, FS_CardinalityType

LEMMA SizeDisjoint ==
  ASSUME NEW S, NEW T, IsFiniteSet(S), IsFiniteSet(T), S \cap T = {}
  PROVE  Cardinality(S \cup T) = Cardinality(S) + Cardinality(T)
<1>1. Cardinality(S \cup T) = Cardinality(S) + Cardinality(T) - Cardinality(S \cap T)
  BY FS_Union
<1>2. Cardinality(S \cap T) = 0
  BY FS_EmptySet
<1>3. Cardinality(S) \in Nat /\ Cardinality(T) \in Nat
  BY FS_CardinalityType
<1> QED
  BY <1>1, <1>2, <1>3

LEMMA ItemFacts == IsFiniteSet(Item) /\ Cardinality(Item) \in Nat \ {0} /\ Item # {}
BY BatchAssumption, FS_CardinalityType, FS_EmptySet

LEMMA SetSize ==
  ASSUME NEW S, S \subseteq Item
  PROVE  IsFiniteSet(S) /\ Cardinality(S) \in 0..Cardinality(Item)
BY ItemFacts, SizeMonotone

\* The tasks that have ended, and those that are still to.
LEMMA Tally ==
  ASSUME NEW x \in Run
  PROVE  /\ Cardinality(Good(x)) \in 0..Cardinality(Item)
         /\ Cardinality(Bad(x)) \in 0..Cardinality(Item)
         /\ Cardinality(Good(x)) + Cardinality(Bad(x)) <= Cardinality(Item)
         /\ \A i \in Item : item[x][i] \notin {"completed", "failed"} =>
              /\ Cardinality(Good(x)) + Cardinality(Bad(x)) + 1 <= Cardinality(Item)
              /\ Cardinality(Good(x)) + 1 <= Cardinality(Item)
         /\ (\A i \in Item : item[x][i] \in {"completed", "failed"}) =>
              Cardinality(Good(x)) + Cardinality(Bad(x)) = Cardinality(Item)
<1>1. /\ Good(x) \subseteq Item /\ Bad(x) \subseteq Item /\ Good(x) \cap Bad(x) = {}
      /\ Good(x) \cup Bad(x) \subseteq Item
  BY DEF Good, Bad
<1>2. /\ Cardinality(Good(x)) \in 0..Cardinality(Item)
      /\ Cardinality(Bad(x)) \in 0..Cardinality(Item)
      /\ Cardinality(Good(x) \cup Bad(x)) \in 0..Cardinality(Item)
      /\ IsFiniteSet(Good(x)) /\ IsFiniteSet(Bad(x)) /\ IsFiniteSet(Good(x) \cup Bad(x))
  BY <1>1, SetSize
<1>3. Cardinality(Good(x) \cup Bad(x)) = Cardinality(Good(x)) + Cardinality(Bad(x))
  BY <1>1, <1>2, SizeDisjoint
<1>4. ASSUME NEW i \in Item, item[x][i] \notin {"completed", "failed"}
      PROVE  Cardinality(Good(x) \cup Bad(x)) + 1 <= Cardinality(Item)
  <2>1. i \notin Good(x) \cup Bad(x)
    BY <1>4 DEF Good, Bad
  <2>2. (Good(x) \cup Bad(x)) \cup {i} \subseteq Item
    BY <1>1
  <2>3. Cardinality((Good(x) \cup Bad(x)) \cup {i}) = Cardinality(Good(x) \cup Bad(x)) + 1
    BY <1>2, <2>1, FS_AddElement
  <2>4. Cardinality((Good(x) \cup Bad(x)) \cup {i}) \in 0..Cardinality(Item)
    BY <2>2, SetSize
  <2> QED
    BY <2>3, <2>4, <1>2, ItemFacts
<1>5. (\A i \in Item : item[x][i] \in {"completed", "failed"}) => Good(x) \cup Bad(x) = Item
  BY <1>1 DEF Good, Bad
<1> QED
  BY <1>2, <1>3, <1>4, <1>5, ItemFacts

-----------------------------------------------------------------------------
(* The runs *)

Causes == {"db", "unposted", "unanswered", "reread", "crash"}

BatchTypes ==
  /\ atomic \in BOOLEAN /\ queued \in BOOLEAN
  /\ batch \in [Req -> [status: {"none", "pending", "processing"} \cup Over,
                        good: 0..Cardinality(Item), bad: 0..Cardinality(Item)]]
  /\ \A r \in Req : batch[r].good + batch[r].bad <= Cardinality(Item)
  /\ job   \in [Req -> [st: {"none", "waiting", "active", "done", "failed"}, tries: 0..Attempts]]
  /\ run   \in [Run -> {"idle", "over"} \cup Live]
  /\ item  \in [Run -> [Item -> InFlight \cup Settled]]
  /\ posted \subseteq {Content[i] : i \in Item}
  /\ paid  \in [Req -> [Item -> Nat]] /\ booked \in [Req -> Nat]
  /\ cause \in [Req -> SUBSET Causes]

LEMMA TypesAre == (TypeOK <=> GateTypes /\ BatchTypes) /\ (TypeOK' <=> GateTypes' /\ BatchTypes')
<1>1. {"idle", "prepare", "submit", "commit", "record", "items", "written", "fail", "refused", "over"}
        = {"idle", "over"} \cup Live
  BY DEF Live
<1> QED
  BY <1>1, GateTypesAre DEF TypeOK, BatchTypes, Causes

\* A row's run at work is the only one.
LEMMA OneRun ==
  ASSUME RunInv, NEW x \in Run, NEW y \in Run, x[1] = y[1], run[x] \in Live, run[y] \in Live
  PROVE  x = y
<1>1. x[2] = y[2]
  BY DEF RunInv, RunIsOwned, Live
<1> QED
  BY <1>1, RunParts

\* Runs and jobs as they were, and no more.
LEMMA RunsStay ==
  ASSUME GateTypes, BatchTypes, GateInv, RunInv, HandlersStay,
         UNCHANGED <<run, atomic, queued, job>>,
         \A r \in Req : batch'[r].status = batch[r].status /\ cause[r] \subseteq cause'[r]
  PROVE  RunInv'
<1>1. \A x \in Run : x[1] \in Req
  BY RunParts
<1>2. \A r \in Req : source[r] = r => req[r] = "answered"
  BY ReqFacts DEF GateInv, UnansweredIsBlank
<1>3. \A r \in Req : source[r] = r /\ reply[r] = "2xx" => source'[r] = r /\ reply'[r] = "2xx"
  BY <1>2 DEF HandlersStay
<1>4. \A x \in Run : RunIsOwned(x)'
  BY <1>1 DEF RunInv, RunIsOwned, HandlersStay
<1>5. \A r \in Req : JobIsAccepted(r)'
  BY <1>3 DEF RunInv, JobIsAccepted
<1>6. EndedIsQuiet'
  <2>1. \A r \in Req : Explained(r) => Explained(r)'
    BY DEF Explained
  <2> QED
    BY <1>1, <2>1 DEF RunInv, EndedIsQuiet
<1> QED
  BY <1>4, <1>5, <1>6 DEF RunInv

\* A run at work goes on.
LEMMA RunMoves ==
  ASSUME GateTypes, BatchTypes, GateInv, RunInv, HandlersStay,
         NEW x \in Run, run[x] \in Live \ {"fail"}, NEW pc \in Live, Goto(x, pc),
         pc \in {"submit", "commit", "record"} => atomic, pc = "items" => ~atomic,
         pc \in {"submit", "commit", "record", "items"} => batch'[x[1]].status = "processing",
         pc = "written" => batch'[x[1]].status \in Over,
         run[x] = "written" => pc = "fail" /\ "reread" \in cause'[x[1]],
         UNCHANGED <<atomic, queued, job>>,
         \A r \in Req : cause[r] \subseteq cause'[r],
         \A r \in Req : \/ batch'[r].status = batch[r].status
                        \/ r = x[1] /\ (batch'[r].status = "processing" \/ pc = "written")
  PROVE  RunInv'
<1>1. /\ \A y \in Run : y[1] \in Req
      /\ x[2] \in 1..Attempts
  BY RunParts
<1>2. run'[x] = pc /\ \A y \in Run \ {x} : run'[y] = run[y]
  BY DEF Goto, BatchTypes
<1>3. \A r \in Req : source[r] = r => req[r] = "answered"
  BY ReqFacts DEF GateInv, UnansweredIsBlank
<1>4. \A r \in Req : source[r] = r /\ reply[r] = "2xx" => source'[r] = r /\ reply'[r] = "2xx"
  BY <1>3 DEF HandlersStay
<1>5. ASSUME NEW y \in Run PROVE RunIsOwned(y)'
  <2>1. RunIsOwned(y) /\ RunIsOwned(x)
    BY DEF RunInv
  <2>2. CASE y = x
    BY <1>1, <1>2, <2>1, <2>2 DEF RunIsOwned, HandlersStay, Live, Over
  <2>3. CASE y # x /\ run[y] \in Live
    <3>1. y[1] # x[1]
      BY <2>3, OneRun
    <3> QED
      BY <1>1, <1>2, <2>1, <2>3, <3>1 DEF RunIsOwned, HandlersStay, Live
  <2>4. CASE y # x /\ run[y] \notin Live
    BY <1>1, <1>2, <2>1, <2>4 DEF RunIsOwned, Live, Over
  <2> QED
    BY <2>2, <2>3, <2>4
<1>6. queued => job[x[1]].tries # 0
  BY <1>1 DEF RunInv, RunIsOwned, BatchTypes
<1>7. \A r \in Req : JobIsAccepted(r)'
  BY <1>4, <1>6 DEF RunInv, JobIsAccepted, Over
<1>8. EndedIsQuiet'
  <2>1. \A r \in Req : Explained(r) => Explained(r)'
    BY DEF Explained
  <2>2. run[x] = "written" => Explained(x[1])'
    BY DEF Explained
  <2>3. ASSUME NEW r \in Req, batch'[r].status \in Ended, queued'
        PROVE  job'[r].st = "done" \/ Explained(r)' \/ \E y \in Run : y[1] = r /\ run'[y] = "written"
    <3>1. CASE batch'[r].status = batch[r].status
      BY <1>2, <2>1, <2>2, <2>3, <3>1 DEF RunInv, EndedIsQuiet
    <3>2. CASE batch'[r].status # batch[r].status
      BY <1>2, <2>3, <3>2 DEF Ended
    <3> QED
      BY <3>1, <3>2
  <2>4. ASSUME NEW y \in Run, run'[y] \in Live \ {"written"}, batch'[y[1]].status \in Over
        PROVE  \/ run'[y] = "fail" /\ "reread" \in cause'[y[1]]
               \/ /\ queued' /\ job'[y[1]].tries > 1
                  /\ batch'[y[1]].status = "failed" \/ Explained(y[1])'
    <3>1. CASE y = x
      <4>1. batch'[x[1]].status = batch[x[1]].status
        BY <1>1, <1>2, <2>4, <3>1 DEF Over
      <4>2. CASE run[x] = "written"
        BY <1>2, <3>1, <4>2
      <4>3. CASE run[x] # "written"
        BY <1>1, <2>1, <2>4, <3>1, <4>1, <4>3 DEF RunInv, EndedIsQuiet
      <4> QED
        BY <4>2, <4>3
    <3>2. CASE y # x
      <4>1. run[y] \in Live \ {"written"} /\ y[1] # x[1]
        BY <1>2, <2>4, <3>2, OneRun
      <4>2. batch'[y[1]].status = batch[y[1]].status
        BY <1>1, <4>1
      <4> QED
        BY <1>1, <1>2, <2>1, <2>4, <3>2, <4>1, <4>2 DEF RunInv, EndedIsQuiet
    <3> QED
      BY <3>1, <3>2
  <2> QED
    BY <2>3, <2>4 DEF EndedIsQuiet
<1> QED
  BY <1>5, <1>7, <1>8 DEF RunInv

\* What ends with a run: the request has its answer, or the job's attempt is over.
Closed(x, pc) ==
  LET r == x[1] IN
  /\ run' = [run EXCEPT ![x] = "over"]
  /\ IF queued
     THEN /\ \E st \in {"done", "waiting", "failed"} :
               /\ job' = [job EXCEPT ![r].st = st]
               /\ pc # "fail" => st = "done"
          /\ UNCHANGED <<req, reply, source>>
     ELSE /\ req'[r] = "answered" /\ source'[r] = r
          /\ pc = "2xx" => reply'[r] = "2xx"
          /\ \A q \in Req \ {r} : req'[q] = req[q] /\ source'[q] = source[q] /\ reply'[q] = reply[q]
          /\ UNCHANGED job

LEMMA RunEnds ==
  ASSUME GateTypes, BatchTypes, GateInv, RunInv, NEW x \in Run, run[x] \in Live, NEW kind,
         Closed(x, kind), UNCHANGED <<atomic, queued>>,
         \A r \in Req : cause[r] \subseteq cause'[r],
         \A r \in Req \ {x[1]} : batch'[r].status = batch[r].status,
         \/ batch'[x[1]].status = "failed"
         \/ batch'[x[1]].status = batch[x[1]].status /\ (run[x] = "fail" \/ kind # "fail")
  PROVE  RunInv'
<1> DEFINE r == x[1]
<1>1. /\ \A y \in Run : y[1] \in Req /\ y[2] \in 1..Attempts
      /\ r \in Req
  BY RunParts
<1>2. run'[x] = "over" /\ \A y \in Run \ {x} : run'[y] = run[y]
  BY DEF Closed, BatchTypes
<1>3. \A y \in Run \ {x} : run[y] \in Live => y[1] # r
  BY OneRun
<1>4. batch[r].status # "none" /\ batch'[r].status # "none"
  BY <1>1 DEF RunInv, RunIsOwned, Live, Ended
<1>5. \A q \in Req : batch[q].status # "none" => batch'[q].status # "none"
  BY <1>4
<1>6. /\ \A q \in Req \ {r} : job'[q] = job[q]
      /\ job'[r].tries = job[r].tries
      /\ queued => job[r].tries # 0 /\ job[r].st = "active" /\ source[r] = r /\ reply[r] = "2xx"
      /\ ~queued => req[r] = "handler" /\ job'[r].st = "none" /\ job'[r].tries = 0
      /\ queued => job'[r].st \in {"done", "waiting", "failed"}
      /\ queued /\ kind # "fail" => job'[r].st = "done"
  <2>1. CASE queued
    <3>1. x[2] = job[r].tries /\ job[r].st = "active"
      BY <1>1, <2>1 DEF RunInv, RunIsOwned
    <3>2. source[r] = r /\ reply[r] = "2xx"
      BY <1>1, <3>1 DEF RunInv, JobIsAccepted
    <3>3. PICK st \in {"done", "waiting", "failed"} :
            job' = [job EXCEPT ![r].st = st] /\ (kind # "fail" => st = "done")
      BY <2>1 DEF Closed
    <3>4. /\ \A q \in Req \ {r} : job'[q] = job[q]
          /\ job'[r].tries = job[r].tries /\ job'[r].st = st
      BY <1>1, <3>3 DEF BatchTypes
    <3> QED
      BY <1>1, <2>1, <3>1, <3>2, <3>3, <3>4
  <2>2. CASE ~queued
    <3>1. req[r] = "handler"
      BY <1>1, <2>2 DEF RunInv, RunIsOwned
    <3>2. job[r].st = "none" /\ job[r].tries = 0
      BY <1>1, <2>2 DEF RunInv, JobIsAccepted
    <3> QED
      BY <1>1, <2>2, <3>1, <3>2 DEF Closed
  <2> QED
    BY <2>1, <2>2
<1>7. \A y \in Run : RunIsOwned(y)'
  <2> SUFFICES ASSUME NEW y \in Run PROVE RunIsOwned(y)'
    OBVIOUS
  <2>1. run'[y] # "idle" => run[y] # "idle"
    BY <1>2 DEF Live
  <2>2. run'[y] \in Live => run[y] \in Live /\ y[1] # r
    BY <1>2, <1>3 DEF Live
  <2>3. CASE y[1] = r
    BY <1>1, <1>5, <1>6, <2>1, <2>2, <2>3 DEF RunInv, RunIsOwned, Live
  <2>4. CASE y[1] # r
    BY <1>1, <1>2, <1>5, <1>6, <2>1, <2>2, <2>4 DEF RunInv, RunIsOwned, Closed, Live
  <2> QED
    BY <2>3, <2>4
<1>8. \A q \in Req : JobIsAccepted(q)'
  <2> SUFFICES ASSUME NEW q \in Req PROVE JobIsAccepted(q)'
    OBVIOUS
  <2>1. CASE q = r
    BY <1>1, <1>4, <1>6, <2>1 DEF Closed, RunInv, JobIsAccepted
  <2>2. CASE q # r
    BY <1>5, <1>6, <2>2 DEF Closed, RunInv, JobIsAccepted
  <2> QED
    BY <2>1, <2>2
<1>9. EndedIsQuiet'
  <2>1. \A q \in Req : Explained(q) => Explained(q)'
    BY DEF Explained
  <2>2. ASSUME NEW q \in Req, batch'[q].status \in Ended, queued'
        PROVE  job'[q].st = "done" \/ Explained(q)' \/ \E y \in Run : y[1] = q /\ run'[y] = "written"
    <3>1. CASE q = r
      <4>1. batch[r].status \in Ended /\ queued
        BY <2>2, <3>1 DEF Ended
      <4>2. CASE kind # "fail"
        BY <1>6, <3>1, <4>1, <4>2
      <4>3. CASE run[x] = "fail"
        BY <1>1, <2>1, <3>1, <4>1, <4>3 DEF RunInv, EndedIsQuiet, Live, Over, Ended, Explained
      <4> QED
        BY <2>2, <3>1, <4>2, <4>3 DEF Ended
    <3>2. CASE q # r
      BY <1>2, <1>6, <2>1, <2>2, <3>2 DEF RunInv, EndedIsQuiet
    <3> QED
      BY <3>1, <3>2
  <2>3. ASSUME NEW y \in Run, run'[y] \in Live \ {"written"}, batch'[y[1]].status \in Over
        PROVE  \/ run'[y] = "fail" /\ "reread" \in cause'[y[1]]
               \/ /\ queued' /\ job'[y[1]].tries > 1
                  /\ batch'[y[1]].status = "failed" \/ Explained(y[1])'
    <3>1. y # x /\ run[y] \in Live \ {"written"} /\ y[1] # r /\ y[1] \in Req
      BY <1>1, <1>2, <1>3, <2>3 DEF Live
    <3> QED
      BY <1>2, <1>6, <2>1, <2>3, <3>1 DEF RunInv, EndedIsQuiet
  <2> QED
    BY <2>2, <2>3 DEF EndedIsQuiet
<1> QED
  BY <1>7, <1>8, <1>9 DEF RunInv

-----------------------------------------------------------------------------
(* What the steps have in common *)

WorkKept == GateTypes' /\ BatchTypes' /\ GateInv' /\ RunInv' /\ TaskInv'

LEMMA WorkIsKept == WorkKept => WorkInv'
BY TypesAre DEF WorkKept, WorkInv

LEMMA WorkParts ==
  ASSUME WorkInv PROVE GateTypes /\ BatchTypes /\ GateInv /\ RunInv /\ TaskInv
BY TypesAre DEF WorkInv

\* A fault that is blamed on row r.
LEMMA BlameFacts ==
  ASSUME GateTypes, BatchTypes, NEW r \in Req, NEW why \in Causes, Blame(r, why)
  PROVE  /\ faults' \in 0..Faults
         /\ cause' \in [Req -> SUBSET Causes]
         /\ cause'[r] = cause[r] \cup {why} /\ \A q \in Req : cause[q] \subseteq cause'[q]
         /\ \A q \in Req \ {r} : cause'[q] = cause[q]
BY FaultType DEF Blame, GateTypes, BatchTypes

\* A step of the processing that answers no request: its run goes on.
LEMMA MoveKeeps ==
  ASSUME WorkInv, NEW x \in Run, run[x] \in Live \ {"fail"},
         run[x] = "items" => \A i \in Item : item[x][i] \in Settled,
         NEW pc \in Live \ {"prepare", "items", "written"}, Goto(x, pc),
         run[x] = "written" => pc = "fail" /\ "reread" \in cause'[x[1]],
         pc \in {"submit", "commit", "record"} => atomic /\ batch[x[1]].status = "processing",
         UNCHANGED <<GateRest, Kind, batch, job, item, posted>>, faults' \in 0..Faults,
         paid' \in [Req -> [Item -> Nat]], booked' \in [Req -> Nat],
         cause' \in [Req -> SUBSET Causes],
         \A r \in Req : cause[r] \subseteq cause'[r]
  PROVE  WorkKept
<1>1. GateTypes' /\ GateInv' /\ HandlersStay
  BY GateKept, WorkParts
<1>2. UNCHANGED <<atomic, queued, batch, job, item, posted>>
  BY DEF Kind
<1>3. BatchTypes'
  BY <1>2, WorkParts DEF BatchTypes, Goto
<1>4. RunInv'
  BY <1>1, <1>2, RunMoves, WorkParts
<1>5. TaskInv'
  <2>1. run'[x] = pc /\ \A y \in Run \ {x} : run'[y] = run[y]
    BY WorkParts DEF Goto, BatchTypes
  <2>2. \A y \in Run : y[1] \in Req
    BY RunParts
  <2> QED
    BY <1>2, <2>1, <2>2, WorkParts DEF TaskInv, InFlight, Settled, Live
<1> QED
  BY <1>1, <1>3, <1>4, <1>5 DEF WorkKept

\* A task in flight goes on, or ends.
LEMMA TaskKeeps ==
  ASSUME WorkInv, NEW x \in Run, NEW i \in Item, item[x][i] \in InFlight,
         NEW st \in (InFlight \cup Settled) \ {"idle"}, Task(x, i, st),
         UNCHANGED <<GateRest, Kind, job, run, booked>>, faults' \in 0..Faults,
         posted' \subseteq {Content[j] : j \in Item},
         paid' \in [Req -> [Item -> Nat]],
         batch' \in [Req -> [status: {"none", "pending", "processing"} \cup Over,
                             good: 0..Cardinality(Item), bad: 0..Cardinality(Item)]],
         \A r \in Req : batch'[r].status = batch[r].status
                        /\ batch'[r].good + batch'[r].bad <= Cardinality(Item),
         cause' \in [Req -> SUBSET Causes],
         \A r \in Req : cause[r] \subseteq cause'[r]
  PROVE  WorkKept
<1>1. GateTypes' /\ GateInv' /\ HandlersStay
  BY GateKept, WorkParts
<1>2. UNCHANGED <<atomic, queued, job, run, booked>>
  BY DEF Kind
<1>3. item' \in [Run -> [Item -> InFlight \cup Settled]]
  BY WorkParts DEF BatchTypes, Task
<1>4. BatchTypes'
  BY <1>2, <1>3, WorkParts DEF BatchTypes
<1>5. RunInv'
  BY <1>1, <1>2, RunsStay, WorkParts
<1>6. TaskInv'
  <2>1. \A y \in Run, j \in Item :
          item'[y][j] = IF y = x /\ j = i THEN st ELSE item[y][j]
    BY WorkParts DEF Task, BatchTypes
  <2>2. ~atomic /\ run[x] \notin {"idle", "prepare"}
    BY WorkParts DEF TaskInv, InFlight
  <2>3. \A y \in Run : y[1] \in Req
    BY RunParts
  <2> QED
    BY <1>2, <2>1, <2>2, <2>3, WorkParts DEF TaskInv
<1> QED
  BY <1>1, <1>4, <1>5, <1>6 DEF WorkKept

\* The counters that a task writes when it ends.
LEMMA CountFacts ==
  ASSUME WorkInv, NEW x \in Run, NEW i \in Item, item[x][i] \in InFlight,
         NEW st \in {"completed", "failed"}, Count(x, i, st)
  PROVE  /\ Task(x, i, st)
         /\ batch' \in [Req -> [status: {"none", "pending", "processing"} \cup Over,
                                good: 0..Cardinality(Item), bad: 0..Cardinality(Item)]]
         /\ \A r \in Req : batch'[r].status = batch[r].status
                           /\ batch'[r].good + batch'[r].bad <= Cardinality(Item)
         /\ \A r \in Req : r # x[1] => batch'[r] = batch[r]
         /\ st = "completed" => batch'[x[1]].good > 0
         /\ batch'[x[1]].good <= Cardinality(Good(x)) + 1
<1> DEFINE g == Cardinality(Good(x)) + IF st = "completed" THEN 1 ELSE 0
           b == Cardinality(Bad(x)) + IF st = "failed" THEN 1 ELSE 0
<1>1. g \in 0..Cardinality(Item) /\ b \in 0..Cardinality(Item) /\ g + b <= Cardinality(Item)
      /\ (st = "completed" => g > 0) /\ g <= Cardinality(Good(x)) + 1
  BY Tally, ItemFacts DEF InFlight
<1>2. batch' = [batch EXCEPT ![x[1]].good = g, ![x[1]].bad = b] /\ Task(x, i, st)
  BY DEF Count
<1> HIDE DEF g, b
<1>3. x[1] \in Req
  BY RunParts
<1>4. /\ batch \in [Req -> [status: {"none", "pending", "processing"} \cup Over,
                            good: 0..Cardinality(Item), bad: 0..Cardinality(Item)]]
      /\ \A r \in Req : batch[r].good + batch[r].bad <= Cardinality(Item)
  BY WorkParts DEF BatchTypes
<1>5. /\ batch'[x[1]] = [batch[x[1]] EXCEPT !.good = g, !.bad = b]
      /\ \A r \in Req : r # x[1] => batch'[r] = batch[r]
      /\ DOMAIN batch' = Req
  BY <1>2, <1>3, <1>4
<1>6. batch'[x[1]].status = batch[x[1]].status /\ batch'[x[1]].good = g /\ batch'[x[1]].bad = b
  BY <1>3, <1>4, <1>5
<1>7. batch' \in [Req -> [status: {"none", "pending", "processing"} \cup Over,
                          good: 0..Cardinality(Item), bad: 0..Cardinality(Item)]]
  BY <1>1, <1>2, <1>3, <1>4
<1> QED
  BY <1>1, <1>2, <1>4, <1>5, <1>6, <1>7

\* The end of a run.
LEMMA EndFacts ==
  ASSUME WorkInv, NEW x \in Run, run[x] \in Live, NEW kind \in {"2xx", "4xx", "fail"},
         End(x, kind), UNCHANGED <<faults, Kind>>
  PROVE  /\ GateTypes' /\ GateInv' /\ Closed(x, kind)
         /\ job' \in [Req -> [st: {"none", "waiting", "active", "done", "failed"},
                              tries: 0..Attempts]]
         /\ item' \in [Run -> [Item -> InFlight \cup Settled]]
         /\ item' = item \/ /\ \A i \in Item : item[x][i] \notin InFlight
                            /\ item' = [item EXCEPT ![x] = [i \in Item |-> "idle"]]
<1> DEFINE r == x[1]
<1>1. r \in Req
  BY RunParts
<1>2. item' = item \/ /\ \A i \in Item : item[x][i] \notin InFlight
                      /\ item' = [item EXCEPT ![x] = [i \in Item |-> "idle"]]
  BY DEF End
<1>3. item' \in [Run -> [Item -> InFlight \cup Settled]]
  <2>1. [i \in Item |-> "idle"] \in [Item -> InFlight \cup Settled]
    BY DEF Settled
  <2> QED
    BY <1>2, <2>1, WorkParts DEF BatchTypes
<1>4. CASE queued
  <2>1. PICK st \in {"done", "waiting", "failed"} :
          job' = [job EXCEPT ![r].st = st] /\ (kind # "fail" => st = "done")
    BY <1>4 DEF End
  <2>2. UNCHANGED GateRest /\ UNCHANGED <<req, reply, source>>
    BY <1>4 DEF End, GateRest
  <2>3. GateTypes' /\ GateInv'
    BY <2>2, GateKept, WorkParts DEF GateTypes
  <2>4. Closed(x, kind)
    BY <1>4, <2>1, <2>2 DEF Closed, End, Goto
  <2>5. job' \in [Req -> [st: {"none", "waiting", "active", "done", "failed"}, tries: 0..Attempts]]
    BY <2>1, WorkParts DEF BatchTypes
  <2> QED
    BY <1>2, <1>3, <2>3, <2>4, <2>5
<1>5. CASE ~queued
  <2>1. PICK k \in {"2xx", "4xx", "5xx"} : Respond(r, k) /\ (kind = "2xx" => k = "2xx")
    BY <1>5 DEF End
  <2>2. req[r] = "handler"
    BY <1>1, <1>5, WorkParts DEF RunInv, RunIsOwned
  <2>3. /\ GateTypes' /\ GateInv'
        /\ req'[r] = "answered" /\ source'[r] = r /\ reply'[r] = k
        /\ \A q \in Req \ {r} : req'[q] = req[q] /\ source'[q] = source[q] /\ reply'[q] = reply[q]
    BY <1>1, <2>1, <2>2, RespondKeeps, WorkParts DEF End, GateTypes
  <2>4. UNCHANGED job
    BY <1>5 DEF End
  <2>5. Closed(x, kind)
    BY <1>5, <2>1, <2>3, <2>4 DEF Closed, End, Goto
  <2> QED
    BY <1>2, <1>3, <2>3, <2>4, <2>5, WorkParts DEF BatchTypes
<1> QED
  BY <1>4, <1>5

LEMMA EnderKeeps ==
  ASSUME WorkInv, NEW x \in Run, run[x] \in Live, NEW kind \in {"2xx", "4xx", "fail"},
         End(x, kind), UNCHANGED <<faults, Kind, posted, paid, booked, cause>>,
         run[x] = "items" => \A i \in Item : item[x][i] \in Settled,
         NEW row \in [status: Over, good: 0..Cardinality(Item), bad: 0..Cardinality(Item)],
         row.good + row.bad <= Cardinality(Item),
         batch' = [batch EXCEPT ![x[1]] = row],
         row.status # "failed" => row.status = batch[x[1]].status /\ kind # "fail"
  PROVE  WorkKept
<1>1. x[1] \in Req /\ \A y \in Run : y[1] \in Req
  BY RunParts
<1>2. /\ GateTypes' /\ GateInv' /\ Closed(x, kind)
      /\ job' \in [Req -> [st: {"none", "waiting", "active", "done", "failed"}, tries: 0..Attempts]]
      /\ item' \in [Run -> [Item -> InFlight \cup Settled]]
      /\ item' = item \/ /\ \A i \in Item : item[x][i] \notin InFlight
                         /\ item' = [item EXCEPT ![x] = [i \in Item |-> "idle"]]
  BY EndFacts
<1>3. UNCHANGED <<atomic, queued, posted, paid, booked, cause>>
  BY DEF Kind
<1>4. batch'[x[1]] = row /\ \A r \in Req \ {x[1]} : batch'[r] = batch[r]
  BY <1>1, WorkParts DEF BatchTypes
<1>5. BatchTypes'
  <2>1. batch' \in [Req -> [status: {"none", "pending", "processing"} \cup Over,
                            good: 0..Cardinality(Item), bad: 0..Cardinality(Item)]]
    BY WorkParts DEF BatchTypes
  <2>2. \A r \in Req : batch'[r].good + batch'[r].bad <= Cardinality(Item)
    BY <1>4, WorkParts DEF BatchTypes
  <2> QED
    BY <1>2, <1>3, <2>1, <2>2, WorkParts DEF BatchTypes, Closed
<1>6. RunInv'
  BY <1>2, <1>3, <1>4, RunEnds, WorkParts
<1>7. TaskInv'
  <2>1. run'[x] = "over" /\ \A y \in Run \ {x} : run'[y] = run[y]
    BY <1>2, WorkParts DEF Closed, BatchTypes
  <2>2. CASE item' = item
    BY <1>1, <1>3, <2>1, <2>2, WorkParts DEF TaskInv, InFlight, Settled
  <2>3. CASE item' = [item EXCEPT ![x] = [i \in Item |-> "idle"]]
    <3>1. \A y \in Run, i \in Item : item'[y][i] = IF y = x THEN "idle" ELSE item[y][i]
      BY <2>3, WorkParts DEF BatchTypes
    <3> QED
      BY <1>1, <1>3, <2>1, <3>1, WorkParts DEF TaskInv, InFlight
  <2> QED
    BY <1>2, <2>2, <2>3
<1> QED
  BY <1>2, <1>5, <1>6, <1>7 DEF WorkKept

-----------------------------------------------------------------------------
(* Every step keeps WorkInv *)

LEMMA GateStepKeeps ==
  ASSUME WorkInv, UNCHANGED batchVars,
         (\E r \in Req : GateStep(r) \/ GateFault(r)) \/ LockExpires \/ AnswerExpires
  PROVE  WorkKept
<1>1. GateTypes /\ BatchTypes /\ GateInv /\ RunInv /\ TaskInv
  BY WorkParts
<1>2. GateTypes' /\ GateInv' /\ HandlersStay
  BY <1>1, SendKeeps, GetRecordKeeps, SetLockKeeps, LookupFailsKeeps, WriteRecordKeeps,
     LockExpiresKeeps, AnswerExpiresKeeps DEF GateStep, GateFault
<1>3. UNCHANGED <<atomic, queued, batch, job, run, item, posted, paid, booked, cause>>
  BY DEF batchVars
<1>4. BatchTypes' /\ TaskInv'
  BY <1>1, <1>3 DEF BatchTypes, TaskInv
<1>5. RunInv'
  BY <1>1, <1>2, <1>3, RunsStay
<1> QED
  BY <1>2, <1>4, <1>5 DEF WorkKept

\* Runs of the row of a request that is in the handler and has no row or job yet.
LEMMA FreshRow ==
  ASSUME WorkInv, NEW r \in Req, req[r] = "handler", batch[r].status = "none" \/ queued
  PROVE  /\ job[r].st = "none" /\ job[r].tries = 0 /\ source[r] # r
         /\ batch[r].status \in {"none", "pending"} \/ ~queued
         /\ \A x \in Run : x[1] = r => run[x] = "idle"
<1>1. source[r] = 0 /\ r # 0
  BY ReqFacts, WorkParts DEF GateInv, UnansweredIsBlank
<1>2. job[r].st = "none" /\ job[r].tries = 0
  BY <1>1, WorkParts DEF RunInv, JobIsAccepted
<1>3. \A x \in Run : x[1] = r => run[x] = "idle"
  BY <1>2, RunParts, WorkParts DEF RunInv, RunIsOwned
<1>4. batch[r].status \in {"none", "pending"} \/ ~queued
  BY <1>2, WorkParts DEF RunInv, JobIsAccepted
<1> QED
  BY <1>1, <1>2, <1>3, <1>4

\* The handler answers before there is a run.
LEMMA AnswerKeeps ==
  ASSUME WorkInv, NEW r \in Req, req[r] = "handler", batch[r].status = "none" \/ queued,
         NEW kind \in {"2xx", "4xx", "5xx"}, Respond(r, kind),
         UNCHANGED <<record, lost, Kind, batch, run, item, posted, paid, booked>>,
         faults' \in 0..Faults, cause' \in [Req -> SUBSET Causes],
         \A q \in Req : cause[q] \subseteq cause'[q],
         \/ UNCHANGED job
         \/ /\ kind = "2xx" /\ queued /\ batch[r].status # "none"
            /\ job' = [job EXCEPT ![r].st = "waiting"]
  PROVE  WorkKept
<1>1. GateTypes /\ BatchTypes /\ GateInv /\ RunInv /\ TaskInv
  BY WorkParts
<1>2. /\ GateTypes' /\ GateInv'
      /\ req'[r] = "answered" /\ source'[r] = r /\ reply'[r] = kind
      /\ \A q \in Req \ {r} : req'[q] = req[q] /\ source'[q] = source[q] /\ reply'[q] = reply[q]
  BY <1>1, RespondKeeps
<1>3. UNCHANGED <<atomic, queued, batch, run, item, posted, paid, booked>>
  BY DEF Kind
<1>4. /\ job[r].st = "none" /\ job[r].tries = 0 /\ source[r] # r
      /\ batch[r].status \in {"none", "pending"} \/ ~queued
      /\ \A x \in Run : x[1] = r => run[x] = "idle"
  BY FreshRow
<1>5. \A x \in Run : x[1] \in Req
  BY RunParts
<1>6. /\ \A q \in Req : job'[q].tries = job[q].tries /\ (q # r => job'[q] = job[q])
      /\ \/ job' = job
         \/ job'[r].st = "waiting" /\ kind = "2xx" /\ queued /\ batch[r].status # "none"
  <2>1. CASE job' = job
    BY <2>1
  <2>2. CASE /\ kind = "2xx" /\ queued /\ batch[r].status # "none"
             /\ job' = [job EXCEPT ![r].st = "waiting"]
    BY <1>1, <2>2 DEF BatchTypes
  <2> QED
    BY <2>1, <2>2
<1>7. BatchTypes' /\ TaskInv'
  <2>1. job' \in [Req -> [st: {"none", "waiting", "active", "done", "failed"}, tries: 0..Attempts]]
    <3>1. CASE job' = job
      BY <1>1, <3>1 DEF BatchTypes
    <3>2. CASE job' = [job EXCEPT ![r].st = "waiting"]
      <4>1. job \in [Req -> [st: {"none", "waiting", "active", "done", "failed"}, tries: 0..Attempts]]
        BY <1>1 DEF BatchTypes
      <4>2. [job[r] EXCEPT !.st = "waiting"] \in
              [st: {"none", "waiting", "active", "done", "failed"}, tries: 0..Attempts]
        BY <4>1
      <4> QED
        BY <3>2, <4>1, <4>2
    <3> QED
      BY <3>1, <3>2
  <2> QED
    BY <1>1, <1>3, <1>5, <2>1 DEF BatchTypes, TaskInv
<1>8. \A x \in Run : RunIsOwned(x)'
  BY <1>1, <1>2, <1>3, <1>4, <1>5, <1>6 DEF RunInv, RunIsOwned, Live
<1>9. \A q \in Req : JobIsAccepted(q)'
  BY <1>1, <1>2, <1>3, <1>4, <1>6 DEF RunInv, JobIsAccepted
<1>10. EndedIsQuiet'
  <2>1. \A q \in Req : Explained(q) => Explained(q)'
    BY DEF Explained
  <2> QED
    BY <1>1, <1>3, <1>4, <1>5, <1>6, <2>1 DEF RunInv, EndedIsQuiet, Ended, Live
<1> QED
  BY <1>2, <1>7, <1>8, <1>9, <1>10 DEF WorkKept, RunInv

LEMMA CreateBatchKeeps ==
  ASSUME WorkInv, NEW r \in Req, CreateBatch(r)
  PROVE  WorkKept
<1>1. GateTypes /\ BatchTypes /\ GateInv /\ RunInv /\ TaskInv
  BY WorkParts
<1>2. /\ UNCHANGED <<atomic, queued, job, item, posted, paid, booked, cause>> /\ UNCHANGED gateVars
      /\ batch' = [batch EXCEPT ![r].status = "pending"]
      /\ req[r] = "handler" /\ batch[r].status = "none"
  BY DEF CreateBatch, Kind, Row
<1>3. UNCHANGED GateRest /\ faults' \in 0..Faults
  BY <1>1, <1>2 DEF gateVars, GateRest, GateTypes
<1>4. GateTypes' /\ GateInv' /\ HandlersStay
  BY <1>1, <1>3, GateKept
<1>5. /\ job[r].st = "none" /\ job[r].tries = 0
      /\ \A x \in Run : x[1] = r => run[x] = "idle"
  BY <1>2, FreshRow
<1>6. /\ batch' \in [Req -> [status: {"none", "pending", "processing"} \cup Over,
                             good: 0..Cardinality(Item), bad: 0..Cardinality(Item)]]
      /\ \A q \in Req \ {r} : batch'[q] = batch[q]
      /\ batch'[r].status = "pending" /\ batch'[r].good = batch[r].good /\ batch'[r].bad = batch[r].bad
  BY <1>1, <1>2 DEF BatchTypes
<1>7. <<r, 1>> \in Run
  BY BatchAssumption DEF Run
<1>8. \A x \in Run : \/ run'[x] = run[x]
                     \/ x[1] = r /\ x[2] = 1 /\ ~queued /\ run'[x] = "prepare"
  <2>1. CASE queued
    BY <2>1 DEF CreateBatch
  <2>2. CASE ~queued
    <3>1. run' = [run EXCEPT ![<<r, 1>>] = "prepare"]
      BY <2>2 DEF CreateBatch, Goto
    <3>2. \A x \in Run : run'[x] = IF x = <<r, 1>> THEN "prepare" ELSE run[x]
      BY <1>1, <3>1 DEF BatchTypes
    <3>3. \A x \in Run : x = <<r, 1>> => x[1] = r /\ x[2] = 1
      OBVIOUS
    <3> QED
      BY <2>2, <3>2, <3>3
  <2> QED
    BY <2>1, <2>2
<1>9. BatchTypes'
  <2>1. run' \in [Run -> {"idle", "over"} \cup Live]
    BY <1>1, <1>7 DEF CreateBatch, Goto, BatchTypes, Live
  <2> QED
    BY <1>1, <1>2, <1>6, <2>1 DEF BatchTypes
<1>10. \A x \in Run : x[1] \in Req
  BY RunParts
<1>11. UNCHANGED <<req, source, reply>>
  BY <1>2 DEF gateVars
<1>12. \A x \in Run : RunIsOwned(x)'
  BY <1>1, <1>2, <1>5, <1>6, <1>8, <1>10, <1>11 DEF RunInv, RunIsOwned, Live
<1>13. \A q \in Req : JobIsAccepted(q)'
  BY <1>1, <1>2, <1>6, <1>11 DEF RunInv, JobIsAccepted
<1>14. EndedIsQuiet'
  BY <1>1, <1>2, <1>5, <1>6, <1>8, <1>10 DEF RunInv, EndedIsQuiet, Explained, Ended, Over, Live
<1>15. TaskInv'
  BY <1>1, <1>2, <1>5, <1>8, <1>10 DEF TaskInv
<1> QED
  BY <1>4, <1>9, <1>12, <1>13, <1>14, <1>15 DEF WorkKept, RunInv

LEMMA StartJobKeeps ==
  ASSUME WorkInv, NEW r \in Req, StartJob(r)
  PROVE  WorkKept
<1> DEFINE n == job[r].tries + 1
<1>1. GateTypes /\ BatchTypes /\ GateInv /\ RunInv /\ TaskInv
  BY WorkParts
<1>2. /\ UNCHANGED <<atomic, queued, batch, item, posted, paid, booked, cause>> /\ UNCHANGED gateVars
      /\ job[r].st = "waiting" /\ \A q \in Req : job[q].st # "active"
  BY DEF StartJob, Kind
<1>3. UNCHANGED GateRest /\ faults' \in 0..Faults
  BY <1>1, <1>2 DEF gateVars, GateRest, GateTypes
<1>4. GateTypes' /\ GateInv' /\ HandlersStay
  BY <1>1, <1>3, GateKept
<1>5. queued /\ batch[r].status # "none" /\ (batch[r].status \in Over => job[r].tries # 0)
  BY <1>1, <1>2 DEF RunInv, JobIsAccepted, Over
<1>6. \A x \in Run : x[1] \in Req /\ x[2] \in 1..Attempts /\ x = <<x[1], x[2]>>
  BY RunParts
<1>7. \A x \in Run : run[x] \notin Live
  BY <1>1, <1>2, <1>5, <1>6 DEF RunInv, RunIsOwned
<1>8. n \in 1..Attempts /\ <<r, n>> \in Run
  BY <1>1, BatchAssumption DEF StartJob, BatchTypes, Run
<1>9. /\ job'[r].st = "active" /\ job'[r].tries = n /\ \A q \in Req \ {r} : job'[q] = job[q]
      /\ job' \in [Req -> [st: {"none", "waiting", "active", "done", "failed"}, tries: 0..Attempts]]
  BY <1>1, <1>8 DEF StartJob, BatchTypes
<1>10. \A x \in Run : IF x = <<r, n>> THEN run'[x] = "prepare" ELSE run'[x] = run[x]
  BY <1>1, <1>8 DEF StartJob, Goto, BatchTypes
<1>11. run[<<r, n>>] = "idle"
  BY <1>1, <1>2, <1>5, <1>8 DEF RunInv, RunIsOwned, BatchTypes
<1>12. BatchTypes'
  <2>1. run' \in [Run -> {"idle", "over"} \cup Live]
    BY <1>1, <1>8 DEF StartJob, Goto, BatchTypes, Live
  <2> QED
    BY <1>1, <1>2, <1>9, <2>1 DEF BatchTypes
<1>13. UNCHANGED <<req, source, reply>>
  BY <1>2 DEF gateVars
<1>14. \A x \in Run : RunIsOwned(x)'
  <2> SUFFICES ASSUME NEW x \in Run PROVE RunIsOwned(x)'
    OBVIOUS
  <2>1. CASE x = <<r, n>>
    BY <1>2, <1>5, <1>8, <1>9, <1>10, <2>1 DEF RunIsOwned
  <2>2. CASE x # <<r, n>>
    <3>1. run'[x] = run[x] /\ run'[x] \notin Live
      BY <1>7, <1>10, <2>2
    <3>2. job[x[1]].tries <= job'[x[1]].tries
      <4>1. \A q \in Req : job[q].tries \in Nat
        BY <1>1 DEF BatchTypes
      <4>2. job[r].tries <= n
        BY <4>1
      <4>3. \A q \in Req : q = r \/ job'[q].tries = job[q].tries
        BY <1>9
      <4> QED
        BY <1>6, <1>9, <4>1, <4>2, <4>3
    <3>3. run'[x] # "idle" => batch'[x[1]].status # "none" /\ x[2] <= job[x[1]].tries
      BY <1>1, <1>2, <1>5, <3>1 DEF RunInv, RunIsOwned
    <3>4. x[2] \in Nat /\ job[x[1]].tries \in Nat /\ job'[x[1]].tries \in Nat
      BY <1>1, <1>6, <1>9 DEF BatchTypes
    <3> QED
      BY <1>2, <1>5, <3>1, <3>2, <3>3, <3>4 DEF RunIsOwned, Live
  <2> QED
    BY <2>1, <2>2
<1>15. \A q \in Req : JobIsAccepted(q)'
  BY <1>1, <1>2, <1>5, <1>8, <1>9, <1>13 DEF RunInv, JobIsAccepted
<1>16. EndedIsQuiet'
  <2>1. \A q \in Req : Explained(q)' <=> Explained(q)
    BY <1>2 DEF Explained
  <2>2. \A q \in Req : batch[q].status \in Ended => job[q].st = "done" \/ Explained(q)
    BY <1>1, <1>5, <1>7 DEF RunInv, EndedIsQuiet, Live
  <2>3. \A q \in Req : batch'[q].status \in Ended /\ queued' => job'[q].st = "done" \/ Explained(q)'
    BY <1>2, <1>9, <2>1, <2>2
  <2>4. \A x \in Run : run'[x] \in Live => x = <<r, n>> /\ x[1] = r
    BY <1>7, <1>10
  <2>5. batch'[r].status \in Over =>
          queued' /\ job'[r].tries > 1 /\ (batch'[r].status = "failed" \/ Explained(r)')
    <3>1. n > 1 \/ batch[r].status \notin Over
      BY <1>1, <1>5 DEF BatchTypes
    <3>2. batch[r].status \in Over => batch[r].status = "failed" \/ Explained(r)
      BY <1>2, <2>2 DEF Over, Ended
    <3> QED
      BY <1>2, <1>5, <1>9, <2>1, <3>1, <3>2
  <2> QED
    BY <2>3, <2>4, <2>5 DEF EndedIsQuiet
<1>17. TaskInv'
  BY <1>1, <1>2, <1>6, <1>10, <1>11 DEF TaskInv
<1> QED
  BY <1>4, <1>12, <1>14, <1>15, <1>16, <1>17 DEF WorkKept, RunInv

LEMMA PrepareKeeps ==
  ASSUME WorkInv, NEW x \in Run, Prepare(x)
  PROVE  WorkKept
<1>1. GateTypes /\ BatchTypes /\ GateInv /\ RunInv /\ TaskInv
  BY WorkParts
<1>2. PICK V \in SUBSET Item :
        /\ run[x] = "prepare" /\ V # {} /\ (atomic => V = Item)
        /\ Goto(x, IF atomic THEN "submit" ELSE "items")
        /\ item' = IF atomic THEN item
                   ELSE [item EXCEPT ![x] = [i \in Item |-> IF i \in V THEN "valid" ELSE "failed"]]
        /\ batch' = [batch EXCEPT ![x[1]].status = "processing",
                                  ![x[1]].good = IF atomic THEN @ ELSE 0,
                                  ![x[1]].bad = IF atomic THEN @ ELSE Cardinality(Item \ V)]
        /\ UNCHANGED <<gateVars, Kind, job, posted, paid, booked, cause>>
  BY DEF Prepare
<1>3. UNCHANGED <<atomic, queued, job, posted, paid, booked, cause>> /\ UNCHANGED gateVars
  BY <1>2 DEF Kind
<1>4. UNCHANGED GateRest /\ faults' \in 0..Faults
  BY <1>1, <1>3 DEF gateVars, GateRest, GateTypes
<1>5. GateTypes' /\ GateInv' /\ HandlersStay
  BY <1>1, <1>4, GateKept
<1>6. x[1] \in Req /\ Cardinality(Item \ V) \in 0..Cardinality(Item)
  BY RunParts, SetSize
<1>7. /\ batch' \in [Req -> [status: {"none", "pending", "processing"} \cup Over,
                             good: 0..Cardinality(Item), bad: 0..Cardinality(Item)]]
      /\ batch'[x[1]].status = "processing" /\ \A r \in Req \ {x[1]} : batch'[r] = batch[r]
      /\ \A r \in Req : batch'[r].good + batch'[r].bad <= Cardinality(Item)
  <2>1. /\ batch'[x[1]].status = "processing"
        /\ batch'[x[1]].good = (IF atomic THEN batch[x[1]].good ELSE 0)
        /\ batch'[x[1]].bad = (IF atomic THEN batch[x[1]].bad ELSE Cardinality(Item \ V))
        /\ \A r \in Req \ {x[1]} : batch'[r] = batch[r]
    BY <1>1, <1>2, <1>6 DEF BatchTypes
  <2>2. batch' \in [Req -> [status: {"none", "pending", "processing"} \cup Over,
                            good: 0..Cardinality(Item), bad: 0..Cardinality(Item)]]
    BY <1>1, <1>2, <1>6, ItemFacts DEF BatchTypes
  <2>3. \A r \in Req : batch'[r].good + batch'[r].bad <= Cardinality(Item)
    <3>1. batch[x[1]].good + batch[x[1]].bad <= Cardinality(Item)
      BY <1>1, <1>6 DEF BatchTypes
    <3>2. batch'[x[1]].good + batch'[x[1]].bad <= Cardinality(Item)
      BY <1>6, <2>1, <3>1, ItemFacts
    <3>3. \A r \in Req \ {x[1]} : batch'[r].good + batch'[r].bad <= Cardinality(Item)
      BY <1>1, <2>1 DEF BatchTypes
    <3> QED
      BY <3>2, <3>3
  <2> QED
    BY <2>1, <2>2, <2>3
<1>8. /\ run'[x] = (IF atomic THEN "submit" ELSE "items") /\ \A y \in Run \ {x} : run'[y] = run[y]
      /\ run' \in [Run -> {"idle", "over"} \cup Live]
  BY <1>1, <1>2 DEF Goto, BatchTypes, Live
<1>9. \A y \in Run, i \in Item :
        item'[y][i] = IF y = x /\ ~atomic THEN (IF i \in V THEN "valid" ELSE "failed") ELSE item[y][i]
  BY <1>1, <1>2 DEF BatchTypes
<1>10. BatchTypes'
  <2>1. item' \in [Run -> [Item -> InFlight \cup Settled]]
    BY <1>1, <1>2 DEF BatchTypes, InFlight, Settled
  <2> QED
    BY <1>1, <1>3, <1>7, <1>8, <2>1 DEF BatchTypes
<1>11. RunInv'
  <2>1. (IF atomic THEN "submit" ELSE "items") \in Live \ {"written"} /\ run[x] \in Live \ {"fail", "written"}
    BY <1>2 DEF Live
  <2> QED
    BY <1>1, <1>2, <1>3, <1>5, <1>7, <2>1, RunMoves
<1>12. TaskInv'
  <2>1. \A y \in Run : y[1] \in Req
    BY RunParts
  <2> QED
    BY <1>1, <1>2, <1>3, <1>8, <1>9, <2>1 DEF TaskInv, InFlight
<1> QED
  BY <1>5, <1>10, <1>11, <1>12 DEF WorkKept

LEMMA HandleKeeps ==
  ASSUME WorkInv, NEW r \in Req, Handle(r) \/ RequestFails(r)
  PROVE  WorkKept
<1>1. GateTypes /\ BatchTypes
  BY WorkParts
<1>2. CASE Refuse(r)
  <2>1. UNCHANGED <<record, lost, faults, Kind, job, batch, run, item, posted, paid, booked, cause>>
    BY <1>2 DEF Refuse, batchVars, Kind
  <2> QED
    BY <1>1, <1>2, <2>1, AnswerKeeps DEF Refuse, GateTypes, BatchTypes
<1>3. CASE CreateBatch(r)
  BY <1>3, CreateBatchKeeps
<1>4. CASE Enqueue(r)
  BY <1>1, <1>4, AnswerKeeps DEF Enqueue, GateTypes, BatchTypes
<1>5. CASE RequestFails(r)
  <2>1. /\ faults' \in 0..Faults /\ cause' \in [Req -> SUBSET Causes]
        /\ \A q \in Req : cause[q] \subseteq cause'[q]
    BY <1>1, <1>5, BlameFacts DEF RequestFails, Causes
  <2> QED
    BY <1>5, <2>1, AnswerKeeps DEF RequestFails
<1> QED
  BY <1>2, <1>3, <1>4, <1>5 DEF Handle

\* Nothing but the gate's state is in gateVars.
LEMMA GateVarsKept ==
  ASSUME GateTypes, UNCHANGED gateVars
  PROVE  UNCHANGED GateRest /\ faults' \in 0..Faults
BY DEF gateVars, GateRest, GateTypes

LEMMA AtomicStepsKeep ==
  ASSUME WorkInv, NEW x \in Run,
         \/ NotPrepared(x) \/ SubmitBatch(x) \/ SubmitRefused(x) \/ Commit(x)
         \/ SubmitUnanswered(x) \/ ProcessingFails(x) \/ FinishFails(x) \/ RereadFails(x)
  PROVE  WorkKept
<1>1. GateTypes /\ BatchTypes /\ RunIsOwned(x) /\ x[1] \in Req
  BY WorkParts, RunParts DEF RunInv
<1>2. PaidAll(x[1]) \in [Req -> [Item -> Nat]]
  BY <1>1 DEF BatchTypes, PaidAll
<1>3. [booked EXCEPT ![x[1]] = @ + 1] \in [Req -> Nat]
  BY <1>1 DEF BatchTypes
<1>4. CASE NotPrepared(x)
  <2>1. run[x] = "prepare" /\ \E pc \in {"fail", "refused"} : Goto(x, pc)
    BY <1>4 DEF NotPrepared
  <2>2. UNCHANGED <<gateVars, Kind, batch, job, item, posted, paid, booked, cause>>
    BY <1>4 DEF NotPrepared
  <2> QED
    BY <1>1, <2>1, <2>2, MoveKeeps, GateVarsKept DEF Live, BatchTypes
<1>5. CASE SubmitBatch(x)
  BY <1>1, <1>2, <1>5, MoveKeeps, GateVarsKept DEF SubmitBatch, Live, BatchTypes, RunIsOwned
<1>6. CASE SubmitRefused(x)
  BY <1>1, <1>6, MoveKeeps, GateVarsKept DEF SubmitRefused, Live, BatchTypes
<1>7. CASE Commit(x)
  BY <1>1, <1>3, <1>7, MoveKeeps, GateVarsKept DEF Commit, Live, BatchTypes, RunIsOwned
<1>8. CASE SubmitUnanswered(x)
  BY <1>1, <1>2, <1>8, MoveKeeps, BlameFacts DEF SubmitUnanswered, Live, BatchTypes, Causes
<1>9. CASE ProcessingFails(x)
  BY <1>1, <1>9, MoveKeeps, BlameFacts DEF ProcessingFails, Live, BatchTypes, Causes
<1>10. CASE FinishFails(x)
  BY <1>1, <1>10, MoveKeeps, BlameFacts DEF FinishFails, Live, BatchTypes, Causes
<1>11. CASE RereadFails(x)
  <2>1. /\ run[x] = "written" /\ Goto(x, "fail")
        /\ UNCHANGED <<GateRest, Kind, batch, job, item, posted, paid, booked>>
    BY <1>11 DEF RereadFails
  <2>2. /\ faults' \in 0..Faults /\ cause' \in [Req -> SUBSET Causes]
        /\ "reread" \in cause'[x[1]] /\ \A r \in Req : cause[r] \subseteq cause'[r]
    <3>1. Blame(x[1], "reread") /\ "reread" \in Causes
      BY <1>11 DEF RereadFails, Causes
    <3> QED
      BY <1>1, <3>1, BlameFacts
  <2>3. paid' \in [Req -> [Item -> Nat]] /\ booked' \in [Req -> Nat]
    BY <1>1, <2>1 DEF BatchTypes
  <2> QED
    BY <2>1, <2>2, <2>3, MoveKeeps DEF Live
<1> QED
  BY <1>4, <1>5, <1>6, <1>7, <1>8, <1>9, <1>10, <1>11

LEMMA TaskStepsKeep ==
  ASSUME WorkInv, NEW x \in Run, NEW i \in Item,
         \/ Replay(x, i) \/ StartPayment(x, i) \/ PayItem(x, i) \/ PostItem(x, i)
         \/ ItemRefused(x, i) \/ NoteItem(x, i)
         \/ PostFails(x, i) \/ ItemUnanswered(x, i) \/ NoteFails(x, i)
  PROVE  WorkKept
<1>1. GateTypes /\ BatchTypes /\ x[1] \in Req
  BY WorkParts, RunParts
<1>2. /\ batch \in [Req -> [status: {"none", "pending", "processing"} \cup Over,
                            good: 0..Cardinality(Item), bad: 0..Cardinality(Item)]]
      /\ \A r \in Req : batch[r].good + batch[r].bad <= Cardinality(Item)
      /\ posted \subseteq {Content[j] : j \in Item}
      /\ paid \in [Req -> [Item -> Nat]]
      /\ cause \in [Req -> SUBSET Causes]
  BY <1>1 DEF BatchTypes
<1>3. [paid EXCEPT ![x[1]][i] = @ + 1] \in [Req -> [Item -> Nat]]
  BY <1>1, <1>2
<1>4. CASE Replay(x, i)
  BY <1>1, <1>2, <1>4, TaskKeeps, GateVarsKept DEF Replay, InFlight, Settled
<1>5. CASE StartPayment(x, i)
  BY <1>1, <1>2, <1>5, TaskKeeps, GateVarsKept DEF StartPayment, InFlight, Settled
<1>6. CASE PayItem(x, i)
  BY <1>1, <1>2, <1>3, <1>6, TaskKeeps, GateVarsKept DEF PayItem, InFlight, Settled
<1>7. CASE PostItem(x, i)
  BY <1>1, <1>2, <1>7, TaskKeeps, GateVarsKept DEF PostItem, InFlight, Settled
<1>8. CASE ItemRefused(x, i)
  <2>1. item[x][i] \in InFlight
    BY <1>8 DEF ItemRefused, InFlight
  <2>2. /\ Task(x, i, "failed")
        /\ batch' \in [Req -> [status: {"none", "pending", "processing"} \cup Over,
                               good: 0..Cardinality(Item), bad: 0..Cardinality(Item)]]
        /\ \A r \in Req : batch'[r].status = batch[r].status
                          /\ batch'[r].good + batch'[r].bad <= Cardinality(Item)
    BY <1>8, <2>1, CountFacts DEF ItemRefused
  <2> QED
    BY <1>1, <1>2, <1>8, <2>1, <2>2, TaskKeeps, GateVarsKept DEF ItemRefused, Settled
<1>9. CASE NoteItem(x, i)
  <2>1. item[x][i] \in InFlight
    BY <1>9 DEF NoteItem, InFlight
  <2>2. /\ Task(x, i, "completed")
        /\ batch' \in [Req -> [status: {"none", "pending", "processing"} \cup Over,
                               good: 0..Cardinality(Item), bad: 0..Cardinality(Item)]]
        /\ \A r \in Req : batch'[r].status = batch[r].status
                          /\ batch'[r].good + batch'[r].bad <= Cardinality(Item)
    BY <1>9, <2>1, CountFacts DEF NoteItem
  <2> QED
    BY <1>1, <1>2, <1>9, <2>1, <2>2, TaskKeeps, GateVarsKept DEF NoteItem, Settled
<1>10. CASE PostFails(x, i) \/ ItemUnanswered(x, i) \/ NoteFails(x, i)
  <2>1. item[x][i] \in InFlight
    BY <1>10 DEF PostFails, ItemUnanswered, NoteFails, InFlight
  <2>2. /\ Task(x, i, "failed")
        /\ batch' \in [Req -> [status: {"none", "pending", "processing"} \cup Over,
                               good: 0..Cardinality(Item), bad: 0..Cardinality(Item)]]
        /\ \A r \in Req : batch'[r].status = batch[r].status
                          /\ batch'[r].good + batch'[r].bad <= Cardinality(Item)
    BY <1>10, <2>1, CountFacts DEF PostFails, ItemUnanswered, NoteFails
  <2>3. /\ faults' \in 0..Faults
        /\ cause' \in [Req -> SUBSET Causes]
        /\ \A r \in Req : cause[r] \subseteq cause'[r]
    BY <1>1, <1>10, BlameFacts DEF PostFails, ItemUnanswered, NoteFails, Causes
  <2>4. /\ UNCHANGED <<GateRest, Kind, job, run, booked>> /\ paid' \in [Req -> [Item -> Nat]]
        /\ posted' \subseteq {Content[j] : j \in Item}
    BY <1>2, <1>3, <1>10 DEF PostFails, ItemUnanswered, NoteFails
  <2> QED
    BY <1>2, <2>1, <2>2, <2>3, <2>4, TaskKeeps DEF Settled
<1> QED
  BY <1>4, <1>5, <1>6, <1>7, <1>8, <1>9, <1>10

LEMMA CountFailsKeeps ==
  ASSUME WorkInv, NEW x \in Run, NEW i \in Item, CountFails(x, i)
  PROVE  WorkKept
<1>1. GateTypes /\ BatchTypes /\ GateInv /\ RunInv /\ TaskInv /\ x[1] \in Req
  BY WorkParts, RunParts
<1>2. UNCHANGED <<atomic, queued, batch, job, posted, paid, booked>> /\ UNCHANGED GateRest
  BY DEF CountFails, Kind
<1>3. /\ faults' \in 0..Faults
      /\ cause' \in [Req -> SUBSET Causes]
      /\ cause'[x[1]] = cause[x[1]] \cup {"db"}
      /\ \A r \in Req : cause[r] \subseteq cause'[r]
  BY <1>1, BlameFacts DEF CountFails, Causes
<1>4. GateTypes' /\ GateInv' /\ HandlersStay
  BY <1>1, <1>2, <1>3, GateKept
<1>5. /\ item' \in [Run -> [Item -> InFlight \cup Settled]]
      /\ \A y \in Run, j \in Item :
           item'[y][j] = IF y = x /\ j = i THEN "completed" ELSE item[y][j]
  BY <1>1 DEF CountFails, Task, BatchTypes, Settled
<1>6. run'[x] = "fail" /\ \A y \in Run \ {x} : run'[y] = run[y]
  BY <1>1 DEF CountFails, Goto, BatchTypes
<1>7. BatchTypes'
  BY <1>1, <1>2, <1>3, <1>5 DEF CountFails, Goto, BatchTypes, Live
<1>8. RunInv'
  BY <1>1, <1>2, <1>3, <1>4, RunMoves DEF CountFails, Live
<1>9. TaskInv'
  <2>1. ~atomic
    BY <1>1 DEF CountFails, TaskInv
  <2>2. \A y \in Run : y[1] \in Req
    BY RunParts
  <2>3. run[x] = "items"
    BY DEF CountFails
  <2> QED
    BY <1>1, <1>2, <1>3, <1>5, <1>6, <2>1, <2>2, <2>3 DEF TaskInv, InFlight
<1> QED
  BY <1>4, <1>7, <1>8, <1>9 DEF WorkKept

-----------------------------------------------------------------------------
(* The runs' ends *)

\* The row has its outcome, and the run is about to read it back.
LEMMA WrittenKeeps ==
  ASSUME WorkInv, NEW x \in Run, run[x] \in {"record", "items"},
         run[x] = "items" => \A i \in Item : item[x][i] \in Settled,
         Goto(x, "written"), UNCHANGED <<gateVars, Kind, job, item, posted, paid, booked, cause>>,
         NEW row \in [status: Over, good: 0..Cardinality(Item), bad: 0..Cardinality(Item)],
         row.good + row.bad <= Cardinality(Item),
         batch' = [batch EXCEPT ![x[1]] = row]
  PROVE  WorkKept
<1>1. GateTypes /\ BatchTypes /\ GateInv /\ RunInv /\ TaskInv /\ x[1] \in Req
  BY WorkParts, RunParts
<1>2. UNCHANGED <<atomic, queued, job, item, posted, paid, booked, cause>>
  BY DEF Kind
<1>3. GateTypes' /\ GateInv' /\ HandlersStay
  BY <1>1, GateVarsKept, GateKept
<1>4. batch'[x[1]] = row /\ \A r \in Req \ {x[1]} : batch'[r] = batch[r]
  BY <1>1 DEF BatchTypes
<1>5. BatchTypes'
  <2>1. batch' \in [Req -> [status: {"none", "pending", "processing"} \cup Over,
                            good: 0..Cardinality(Item), bad: 0..Cardinality(Item)]]
    BY <1>1 DEF BatchTypes
  <2>2. \A r \in Req : batch'[r].good + batch'[r].bad <= Cardinality(Item)
    BY <1>1, <1>4 DEF BatchTypes
  <2>3. run' \in [Run -> {"idle", "over"} \cup Live]
    BY <1>1 DEF Goto, BatchTypes, Live
  <2> QED
    BY <1>1, <1>2, <2>1, <2>2, <2>3 DEF BatchTypes
<1>6. RunInv'
  <2>1. run[x] \in Live \ {"fail", "written"} /\ "written" \in Live
    BY DEF Live
  <2>2. row.status \in Over
    OBVIOUS
  <2> QED
    BY <1>1, <1>2, <1>3, <1>4, <2>1, <2>2, RunMoves
<1>7. TaskInv'
  <2>1. run'[x] = "written" /\ \A y \in Run \ {x} : run'[y] = run[y]
    BY <1>1 DEF Goto, BatchTypes
  <2>2. \A y \in Run : y[1] \in Req
    BY RunParts
  <2> QED
    BY <1>1, <1>2, <2>1, <2>2 DEF TaskInv, InFlight, Settled
<1> QED
  BY <1>3, <1>5, <1>6, <1>7 DEF WorkKept

LEMMA RecordKeeps ==
  ASSUME WorkInv, NEW x \in Run, Record(x)
  PROVE  WorkKept
<1> DEFINE row == [status |-> "completed", good |-> Cardinality(Item), bad |-> 0]
<1>1. /\ run[x] = "record" /\ Goto(x, "written") /\ batch' = [batch EXCEPT ![x[1]] = row]
      /\ UNCHANGED <<gateVars, Kind, job, item, posted, paid, booked, cause>>
  BY DEF Record
<1>2. row \in [status: Over, good: 0..Cardinality(Item), bad: 0..Cardinality(Item)]
      /\ row.good + row.bad <= Cardinality(Item)
  BY ItemFacts DEF Over
<1> HIDE DEF row
<1> QED
  BY <1>1, <1>2, WrittenKeeps

\* What Finish writes.
LEMMA Outcome ==
  ASSUME NEW x \in Run
  PROVE  [status |-> FinalStatus(x), good |-> Cardinality(Good(x)), bad |-> Cardinality(Bad(x))]
           \in [status: Over, good: 0..Cardinality(Item), bad: 0..Cardinality(Item)]
<1>1. FinalStatus(x) \in Over
  BY DEF FinalStatus, Over
<1> QED
  BY <1>1, Tally

LEMMA FinishKeeps ==
  ASSUME WorkInv, NEW x \in Run, Finish(x)
  PROVE  WorkKept
<1> DEFINE row == [status |-> FinalStatus(x), good |-> Cardinality(Good(x)),
                   bad |-> Cardinality(Bad(x))]
<1>1. /\ run[x] = "items" /\ \A i \in Item : item[x][i] \in Settled
      /\ Goto(x, "written") /\ batch' = [batch EXCEPT ![x[1]] = row]
      /\ UNCHANGED <<gateVars, Kind, job, item, posted, paid, booked, cause>>
  BY DEF Finish
<1>2. row \in [status: Over, good: 0..Cardinality(Item), bad: 0..Cardinality(Item)]
      /\ row.good + row.bad <= Cardinality(Item)
  BY Outcome, Tally
<1> HIDE DEF row
<1> QED
  BY <1>1, <1>2, WrittenKeeps

LEMMA ReturnKeeps ==
  ASSUME WorkInv, NEW x \in Run, Return(x)
  PROVE  WorkKept
<1> DEFINE row == batch[x[1]]
           kind == IF atomic \/ FinalStatus(x) # "failed" THEN "2xx" ELSE "4xx"
<1>1. GateTypes /\ BatchTypes /\ GateInv /\ RunInv /\ x[1] \in Req
  BY WorkParts, RunParts
<1>2. /\ run[x] = "written" /\ End(x, kind)
      /\ UNCHANGED <<faults, Kind, batch, posted, paid, booked, cause>>
  BY DEF Return
<1>3. row \in [status: Over, good: 0..Cardinality(Item), bad: 0..Cardinality(Item)]
      /\ row.good + row.bad <= Cardinality(Item)
  BY <1>1, <1>2 DEF RunInv, RunIsOwned, BatchTypes
<1>4. batch' = [batch EXCEPT ![x[1]] = row]
  BY <1>1, <1>2 DEF BatchTypes
<1>5. kind \in {"2xx", "4xx", "fail"} /\ kind # "fail" /\ run[x] \in Live /\ run[x] # "items"
  BY <1>2 DEF Live
<1>6. row.status = batch[x[1]].status
  OBVIOUS
<1> HIDE DEF row, kind
<1> QED
  BY <1>2, <1>3, <1>4, <1>5, <1>6, EnderKeeps

LEMMA FailBatchKeeps ==
  ASSUME WorkInv, NEW x \in Run, FailBatch(x)
  PROVE  WorkKept
<1> DEFINE row == [status |-> "failed", good |-> 0, bad |-> Cardinality(Item)]
           kind == IF run[x] = "refused" THEN "4xx" ELSE "fail"
<1>1. /\ run[x] \in Live /\ run[x] # "items"
      /\ End(x, kind) /\ batch' = [batch EXCEPT ![x[1]] = row]
  BY DEF FailBatch, FailedRow, Live
<1>2. row \in [status: Over, good: 0..Cardinality(Item), bad: 0..Cardinality(Item)]
      /\ row.good + row.bad <= Cardinality(Item) /\ row.status = "failed"
  BY ItemFacts DEF Over
<1>3. kind \in {"2xx", "4xx", "fail"}
  OBVIOUS
<1>4. UNCHANGED <<faults, Kind, posted, paid, booked, cause>>
  BY DEF FailBatch
<1> HIDE DEF row, kind
<1> QED
  BY <1>1, <1>2, <1>3, <1>4, EnderKeeps

LEMMA FailBatchFailsKeeps ==
  ASSUME WorkInv, NEW x \in Run, FailBatchFails(x)
  PROVE  WorkKept
<1> DEFINE r == x[1]
<1>1. GateTypes /\ BatchTypes /\ GateInv /\ RunInv /\ TaskInv /\ r \in Req /\ run[x] \in Live
  BY WorkParts, RunParts DEF FailBatchFails, Live
<1>2. /\ UNCHANGED <<atomic, queued, item, posted, paid, booked>> /\ run[x] = "fail"
      /\ \A q \in Req \ {r} : batch'[q] = batch[q]
      /\ batch'[r].status = "failed" \/ batch'[r].status = batch[r].status
      /\ batch' \in [Req -> [status: {"none", "pending", "processing"} \cup Over,
                             good: 0..Cardinality(Item), bad: 0..Cardinality(Item)]]
      /\ \A q \in Req : batch'[q].good + batch'[q].bad <= Cardinality(Item)
  <2>1. UNCHANGED <<atomic, queued, item, posted, paid, booked>> /\ run[x] = "fail"
        /\ batch' \in {batch, FailedRow(r)}
    BY DEF FailBatchFails, Kind
  <2>2. CASE batch' = batch
    BY <1>1, <2>1, <2>2 DEF BatchTypes
  <2>3. CASE batch' = FailedRow(r)
    BY <1>1, <2>1, <2>3, ItemFacts DEF FailedRow, BatchTypes, Over
  <2> QED
    BY <2>1, <2>2, <2>3
<1>3. /\ faults' \in 0..Faults
      /\ cause' \in [Req -> SUBSET Causes]
      /\ \A q \in Req : cause[q] \subseteq cause'[q]
  BY <1>1, BlameFacts DEF FailBatchFails, Causes
<1>4. /\ GateTypes' /\ GateInv' /\ Closed(x, "fail")
      /\ job' \in [Req -> [st: {"none", "waiting", "active", "done", "failed"}, tries: 0..Attempts]]
  <2>1. CASE queued
    <3>1. PICK st \in {"waiting", "failed"} : job' = [job EXCEPT ![r].st = st]
      BY <2>1 DEF FailBatchFails
    <3>2. UNCHANGED GateRest /\ UNCHANGED <<req, reply, source>>
      BY <2>1 DEF FailBatchFails, GateRest
    <3>3. GateTypes' /\ GateInv'
      BY <1>1, <1>3, <3>2, GateKept
    <3>4. Closed(x, "fail")
      BY <2>1, <3>1, <3>2 DEF Closed, FailBatchFails, Goto
    <3>5. job' \in [Req -> [st: {"none", "waiting", "active", "done", "failed"},
                            tries: 0..Attempts]]
      BY <1>1, <3>1 DEF BatchTypes
    <3> QED
      BY <3>3, <3>4, <3>5
  <2>2. CASE ~queued
    <3>1. Respond(r, "5xx") /\ UNCHANGED job
      BY <2>2 DEF FailBatchFails
    <3>2. req[r] = "handler"
      BY <1>1, <2>2 DEF RunInv, RunIsOwned
    <3>3. /\ GateTypes' /\ GateInv'
          /\ req'[r] = "answered" /\ source'[r] = r /\ reply'[r] = "5xx"
          /\ \A q \in Req \ {r} : req'[q] = req[q] /\ source'[q] = source[q] /\ reply'[q] = reply[q]
      BY <1>1, <1>3, <3>1, <3>2, RespondKeeps DEF FailBatchFails
    <3>4. Closed(x, "fail")
      BY <2>2, <3>1, <3>3 DEF Closed, FailBatchFails, Goto
    <3> QED
      BY <1>1, <3>1, <3>3, <3>4 DEF BatchTypes
  <2> QED
    BY <2>1, <2>2
<1>5. BatchTypes'
  BY <1>1, <1>2, <1>3, <1>4 DEF BatchTypes, Closed
<1>6. RunInv'
  BY <1>1, <1>2, <1>3, <1>4, RunEnds
<1>7. TaskInv'
  <2>1. run'[x] = "over" /\ \A y \in Run \ {x} : run'[y] = run[y]
    BY <1>1, <1>4 DEF Closed, BatchTypes
  <2>2. \A y \in Run : y[1] \in Req
    BY RunParts
  <2>3. run[x] = "fail"
    BY DEF FailBatchFails
  <2> QED
    BY <1>1, <1>2, <1>3, <2>1, <2>2, <2>3 DEF TaskInv
<1> QED
  BY <1>4, <1>5, <1>6, <1>7 DEF WorkKept

LEMMA CrashKeeps ==
  ASSUME WorkInv, Crash
  PROVE  WorkKept
<1>1. GateTypes /\ BatchTypes /\ GateInv /\ RunInv /\ TaskInv
  BY WorkParts
<1>2. /\ GateTypes' /\ GateInv' /\ UNCHANGED <<source, reply>>
      /\ \A r \in Req : req'[r] # "handler"
  BY <1>1, GateCrashKeeps DEF Crash
<1>3. UNCHANGED <<atomic, queued, batch, posted, paid, booked>>
  BY DEF Crash, Kind
<1>4. \A x \in Run : run'[x] = IF run[x] \notin {"idle", "over"} THEN "over" ELSE run[x]
  BY DEF Crash
<1>5. \A x \in Run, i \in Item : item'[x][i] = IF item[x][i] \in InFlight THEN "idle" ELSE item[x][i]
  BY DEF Crash
<1>6. \A r \in Req :
        /\ job'[r].tries = job[r].tries /\ job'[r].st # "active"
        /\ job'[r].st = "none" <=> job[r].st = "none"
        /\ job[r].st # "active" => job'[r] = job[r]
  BY <1>1 DEF Crash, BatchTypes
<1>7. BatchTypes'
  <2>1. job' \in [Req -> [st: {"none", "waiting", "active", "done", "failed"}, tries: 0..Attempts]]
    BY <1>1 DEF Crash, BatchTypes
  <2>2. run' \in [Run -> {"idle", "over"} \cup Live]
    BY <1>1 DEF Crash, BatchTypes
  <2>3. item' \in [Run -> [Item -> InFlight \cup Settled]]
    BY <1>1 DEF Crash, BatchTypes, Settled
  <2>4. cause' \in [Req -> SUBSET Causes]
    BY <1>1 DEF Crash, BatchTypes, Causes
  <2> QED
    BY <1>1, <1>3, <2>1, <2>2, <2>3, <2>4 DEF BatchTypes
<1>8. \A x \in Run : x[1] \in Req
  BY RunParts
<1>9. \A x \in Run : run'[x] \notin Live
  BY <1>1, <1>4 DEF BatchTypes, Live
<1>10. \A x \in Run : RunIsOwned(x)'
  BY <1>1, <1>3, <1>4, <1>6, <1>8, <1>9 DEF RunInv, RunIsOwned, Live
<1>11. \A r \in Req : JobIsAccepted(r)'
  BY <1>1, <1>2, <1>3, <1>6 DEF RunInv, JobIsAccepted
<1>12. EndedIsQuiet'
  <2>1. \A r \in Req : /\ Explained(r) => Explained(r)'
                       /\ job[r].st = "active" => Explained(r)'
    BY <1>1 DEF Crash, Explained, BatchTypes
  <2>2. \A x \in Run : run[x] = "written" /\ queued => job[x[1]].st = "active"
    BY <1>1 DEF RunInv, RunIsOwned, Live
  <2> QED
    BY <1>1, <1>3, <1>6, <1>8, <1>9, <2>1, <2>2 DEF RunInv, EndedIsQuiet
<1>13. TaskInv'
  BY <1>1, <1>3, <1>4, <1>5, <1>9 DEF TaskInv, InFlight, Live
<1> QED
  BY <1>2, <1>7, <1>10, <1>11, <1>12, <1>13 DEF WorkKept, RunInv

LEMMA WorkStep == WorkInv /\ [Next]_vars => WorkInv'
<1> SUFFICES ASSUME WorkInv, [Next]_vars PROVE WorkKept
  BY WorkIsKept
<1>1. CASE UNCHANGED vars
  <2>1. GateTypes' /\ BatchTypes' /\ TaskInv'
    BY <1>1, WorkParts DEF vars, gateVars, batchVars, GateTypes, BatchTypes, TaskInv
  <2>2. GateInv'
    BY <1>1, WorkParts
    DEF vars, gateVars, batchVars, GateInv, UnansweredIsBlank, WritersAnswered, CachedIsOwned, Owns,
        Active, OneAtATime, ReleaseIsPending
  <2>3. (\A x \in Run : RunIsOwned(x)') /\ (\A r \in Req : JobIsAccepted(r)')
    BY <1>1, WorkParts DEF vars, gateVars, batchVars, RunInv, RunIsOwned, JobIsAccepted
  <2>4. EndedIsQuiet'
    BY <1>1, WorkParts DEF vars, gateVars, batchVars, RunInv, EndedIsQuiet, Explained
  <2> QED
    BY <2>1, <2>2, <2>3, <2>4 DEF WorkKept, RunInv
<1>2. ASSUME NEW r \in Req, Gate(r) PROVE WorkKept
  BY <1>2, GateStepKeeps DEF Gate
<1>3. ASSUME GateGoesWrong PROVE WorkKept
  BY <1>3, GateStepKeeps DEF GateGoesWrong
<1>4. ASSUME NEW r \in Req, Handle(r) \/ StartJob(r) \/ RequestFails(r) PROVE WorkKept
  BY <1>4, HandleKeeps, StartJobKeeps
<1>5. ASSUME NEW x \in Run, Advance(x) PROVE WorkKept
  BY <1>5, PrepareKeeps, AtomicStepsKeep, RecordKeeps, FinishKeeps, ReturnKeeps, FailBatchKeeps,
     TaskStepsKeep
  DEF Advance, RunStep, TaskStep
<1>6. ASSUME NEW x \in Run, GoWrong(x) PROVE WorkKept
  BY <1>6, AtomicStepsKeep, FailBatchFailsKeeps, TaskStepsKeep, CountFailsKeeps DEF GoWrong
<1>7. CASE Crash
  BY <1>7, CrashKeeps
<1> QED
  BY <1>1, <1>2, <1>3, <1>4, <1>5, <1>6, <1>7 DEF Next, Progress

LEMMA WorkStart == Init => WorkInv
<1> SUFFICES ASSUME Init PROVE GateTypes /\ BatchTypes /\ GateInv /\ RunInv /\ TaskInv
  BY TypesAre DEF WorkInv
<1>1. \A x \in Run : x[1] \in Req
  BY RunParts
<1>2. GateTypes
  BY GateAssumption, RecordFacts DEF Init, GateInit, GateTypes, Places, Replies
<1>3. BatchTypes
  BY ItemFacts, BatchAssumption DEF Init, BatchTypes, Settled
<1>4. GateInv
  BY ReqFacts, RecordFacts DEF Init, GateInit, GateInv, UnansweredIsBlank, WritersAnswered,
     CachedIsOwned, Owns, Active, OneAtATime, ReleaseIsPending
<1>5. RunInv
  BY <1>1 DEF Init, RunInv, RunIsOwned, JobIsAccepted, EndedIsQuiet, Live, Ended
<1>6. TaskInv
  BY DEF Init, TaskInv, InFlight
<1> QED
  BY <1>2, <1>3, <1>4, <1>5, <1>6

-----------------------------------------------------------------------------
(* What the gate and the rows' ends promise *)

\* The gate, the runs and the tasks are in every reachable state as described.
THEOREM WorkTheorem == Spec => []WorkInv
<1>1. Init => WorkInv
  BY WorkStart
<1>2. WorkInv /\ [Next]_vars => WorkInv'
  BY WorkStep
<1> QED
  BY <1>1, <1>2, PTL DEF Spec

LEMMA AtMostOne ==
  ASSUME NEW S, \A a, b \in S : a = b
  PROVE  IsFiniteSet(S) /\ Cardinality(S) <= 1
<1>1. CASE S = {}
  BY <1>1, FS_EmptySet
<1>2. CASE S # {}
  <2>1. PICK a \in S : TRUE
    BY <1>2
  <2>2. S = {a}
    BY <2>1
  <2>3. IsFiniteSet({a}) /\ Cardinality({a}) = 1
    BY FS_Singleton
  <2> QED
    BY <2>2, <2>3
<1> QED
  BY <1>1, <1>2

\* One request at most is handled, unless the gate has lost its record.
LEMMA HandledOnceHolds == WorkInv => HandledOnce
<1> SUFFICES ASSUME WorkInv, lost = {}
             PROVE  ~(Cardinality({r \in Req : req[r] = "handler" \/ source[r] = r}) > 1)
  BY DEF HandledOnce
<1> DEFINE S == {r \in Req : req[r] = "handler" \/ source[r] = r}
<1>1. \A r \in S : Active(r) \/ Owns(r)
  BY GateAssumption, WorkParts DEF GateInv, ReleaseIsPending, Active, Owns, GateTypes
<1>2. \A r, q \in S : r = q
  BY <1>1, WorkParts DEF GateInv, OneAtATime
<1>3. IsFiniteSet(S) /\ Cardinality(S) <= 1
  BY <1>2, AtMostOne
<1>4. Cardinality(S) \in Nat
  BY <1>3, FS_CardinalityType
<1> QED
  BY <1>3, <1>4

\* HandledOnce: unless a fault explains it, no two requests with the key are handled.
THEOREM HandledOnceTheorem == Spec => []HandledOnce
<1>1. WorkInv => HandledOnce
  BY HandledOnceHolds
<1> QED
  BY <1>1, WorkTheorem, PTL

LEMMA AnswersAgreeHolds == WorkInv => AnswersAgree
<1> SUFFICES ASSUME WorkInv, lost \subseteq {"released"}, NEW r \in Req, NEW q \in Req,
                    {reply[r], reply[q]} \cap {None, "5xx"} = {},
                    0 \notin {source[r], source[q]}
             PROVE  source[r] = source[q]
  BY DEF AnswersAgree
<1>1. \A p \in {r, q} : source[p] \in Req /\ Owns(source[p])
  BY WorkParts DEF GateInv, CachedIsOwned, Owns, GateTypes
<1> QED
  BY <1>1, WorkParts DEF GateInv, OneAtATime

\* AnswersAgree: unless a fault explains it, two clients are never told different things.
THEOREM AnswersAgreeTheorem == Spec => []AnswersAgree
<1>1. WorkInv => AnswersAgree
  BY AnswersAgreeHolds
<1> QED
  BY <1>1, WorkTheorem, PTL

\* The outcome of a row that has one.
Finality ==
  \A r \in Req : batch[r].status \in Over /\ batch'[r].status # batch[r].status =>
    \/ "reread" \in cause[r] /\ batch'[r].status = "failed"
    \/ /\ queued /\ job[r].tries > 1
       /\ batch[r].status = "failed" \/ cause[r] \cap {"crash", "reread"} # {}

\* Only a run at work, or the request that makes the row, writes its status.
LEMMA StatusIsWritten ==
  ASSUME WorkInv, [Next]_vars
  PROVE  \A r \in Req : \/ batch'[r].status = batch[r].status
                        \/ batch[r].status \notin Over
                        \/ \E x \in Run : x[1] = r /\ run[x] \in Live \ {"written"}
                                        /\ (run[x] = "fail" => batch'[r].status = "failed")
<1> DEFINE Stays == \A r \in Req : batch'[r].status = batch[r].status
           Worked(x) == \A r \in Req \ {x[1]} : batch'[r].status = batch[r].status
<1>1. BatchTypes /\ \A x \in Run : x[1] \in Req
  BY WorkParts, RunParts
<1>2. CASE UNCHANGED vars
  BY <1>2 DEF vars, batchVars
<1>3. ASSUME NEW r \in Req, Gate(r) \/ StartJob(r) \/ Refuse(r) \/ Enqueue(r) \/ RequestFails(r)
      PROVE  Stays
  BY <1>3 DEF Gate, batchVars, StartJob, Refuse, Enqueue, RequestFails
<1>4. ASSUME GateGoesWrong \/ Crash PROVE Stays
  BY <1>4 DEF GateGoesWrong, batchVars, Crash
<1>5. ASSUME NEW r \in Req, CreateBatch(r)
      PROVE  batch[r].status \notin Over /\ \A q \in Req \ {r} : batch'[q].status = batch[q].status
  BY <1>1, <1>5 DEF CreateBatch, Row, BatchTypes, Over
<1>6. ASSUME NEW x \in Run, Prepare(x) \/ Record(x) \/ Finish(x) \/ FailBatch(x) \/ FailBatchFails(x)
      PROVE  /\ run[x] \in Live \ {"written"} /\ Worked(x)
             /\ run[x] = "fail" => batch'[x[1]].status \in {batch[x[1]].status, "failed"}
  <2>1. run[x] \in Live \ {"written"}
    BY <1>6 DEF Prepare, Record, Finish, FailBatch, FailBatchFails, Live
  <2>2. Worked(x)
    BY <1>1, <1>6 DEF Prepare, Record, Finish, FailBatch, FailBatchFails, FailedRow, BatchTypes
  <2>3. run[x] = "fail" => batch'[x[1]].status \in {batch[x[1]].status, "failed"}
    BY <1>1, <1>6 DEF Prepare, Record, Finish, FailBatch, FailBatchFails, FailedRow, BatchTypes
  <2> QED
    BY <2>1, <2>2, <2>3
<1>7. ASSUME NEW x \in Run,
             \/ NotPrepared(x) \/ SubmitBatch(x) \/ SubmitRefused(x) \/ Commit(x)
             \/ SubmitUnanswered(x) \/ ProcessingFails(x) \/ FinishFails(x) \/ RereadFails(x)
             \/ Return(x)
      PROVE  Stays
  BY <1>7 DEF NotPrepared, SubmitBatch, SubmitRefused, Commit, SubmitUnanswered, ProcessingFails,
     FinishFails, RereadFails, Return
<1>8. ASSUME NEW x \in Run, NEW i \in Item,
             Replay(x, i) \/ StartPayment(x, i) \/ PayItem(x, i) \/ PostItem(x, i) \/ CountFails(x, i)
      PROVE  Stays
  BY <1>8 DEF Replay, StartPayment, PayItem, PostItem, CountFails
<1>9. ASSUME NEW x \in Run, NEW i \in Item,
             \/ ItemRefused(x, i) \/ NoteItem(x, i) \/ PostFails(x, i) \/ ItemUnanswered(x, i)
             \/ NoteFails(x, i)
      PROVE  Stays
  <2>1. item[x][i] \in InFlight /\ \E st \in {"completed", "failed"} : Count(x, i, st)
    BY <1>9 DEF ItemRefused, NoteItem, PostFails, ItemUnanswered, NoteFails, InFlight
  <2> QED
    BY <2>1, CountFacts
<1> QED
  BY <1>1, <1>2, <1>3, <1>4, <1>5, <1>6, <1>7, <1>8, <1>9
  DEF Next, Progress, Handle, Advance, RunStep, TaskStep, GoWrong

LEMMA OutcomeIsKept == WorkInv /\ [Next]_vars => Finality
<1> SUFFICES ASSUME WorkInv, [Next]_vars, NEW r \in Req, batch[r].status \in Over,
                    batch'[r].status # batch[r].status
             PROVE  \/ "reread" \in cause[r] /\ batch'[r].status = "failed"
                    \/ /\ queued /\ job[r].tries > 1
                       /\ batch[r].status = "failed" \/ cause[r] \cap {"crash", "reread"} # {}
  BY DEF Finality
<1>1. PICK x \in Run : /\ x[1] = r /\ run[x] \in Live \ {"written"}
                       /\ run[x] = "fail" => batch'[r].status = "failed"
  BY StatusIsWritten
<1> QED
  BY <1>1, WorkParts DEF RunInv, EndedIsQuiet, Explained

\* FinishedIsFinal: only another attempt of the queue job reopens a row that is
\* over, and only a failed read-back turns an outcome into failed.
THEOREM FinishedIsFinalTheorem == Spec => FinishedIsFinal
<1>1. WorkInv /\ [Next]_vars => [Finality]_vars
  BY OutcomeIsKept
<1> QED
  BY <1>1, WorkTheorem, PTL DEF Spec, FinishedIsFinal, Finality

-----------------------------------------------------------------------------
(* The payments: what a step leaves of the argument *)

LEMMA RowsAreTrue == RowIsTrue <=> \A r \in Req : RowTrue(r)
BY DEF RowIsTrue, RowTrue, Done, Mine

\* Nothing that was paid, and no fault that was met, is taken back.
Grows ==
  /\ UNCHANGED <<atomic, queued>>
  /\ \A r \in Req, i \in Item : paid[r][i] <= paid'[r][i]
  /\ \A r \in Req : cause[r] \subseteq cause'[r]

LEMMA DoneGrows ==
  ASSUME BatchTypes, BatchTypes', Grows
  PROVE  /\ \A i \in Item : Paid(i) => Paid(i)'
         /\ Done \subseteq Done' /\ IsFiniteSet(Done') /\ IsFiniteSet(Done)
         /\ Cardinality(Done) \in Nat /\ Cardinality(Done') \in Nat
         /\ Cardinality(Done) <= Cardinality(Done')
<1>1. \A r \in Req, i \in Item : paid[r][i] > 0 => paid'[r][i] > 0
  BY DEF Grows, BatchTypes
<1>2. \A i \in Item : Paid(i) => Paid(i)'
  BY <1>1 DEF Paid
<1>3. Done \subseteq Done' /\ Done' \subseteq Item
  BY <1>2 DEF Done
<1>4. IsFiniteSet(Done')
  BY <1>3, ItemFacts, SizeMonotone
<1> QED
  BY <1>2, <1>3, <1>4, SizeMonotone, FS_CardinalityType

\* Where a task may be after a step that makes no payment and posts none.
Quiet(y, j) ==
  \/ item'[y][j] = item[y][j]
  \/ /\ item[y][j] = "posting" => ~Answered'
     /\ item'[y][j] \notin {"paying", "posting"}
     /\ item'[y][j] \in {"noting", "completed"} => Content[j] \in posted

LEMMA QuietKeeps ==
  ASSUME BatchTypes, BatchTypes', Grows, PaymentsExclude, TasksHavePaid, PaymentsKnown,
         UNCHANGED posted, UNCHANGED paid \/ atomic \/ ~Answered',
         \A y \in Run, j \in Item : Quiet(y, j)
  PROVE  PaymentsExclude' /\ TasksHavePaid' /\ PaymentsKnown'
<1>1. \A y \in Run, j \in Item : Paying(y, j)' => Paying(y, j)
  BY DEF Quiet, Paying
<1>2. PaymentsExclude'
  BY <1>1 DEF PaymentsExclude
<1>3. TasksHavePaid'
  <2>1. \A y \in Run : y[1] \in Req
    BY RunParts
  <2>2. \A r \in Req, i \in Item : paid[r][i] > 0 => paid'[r][i] > 0
    BY DEF Grows, BatchTypes
  <2>3. \A y \in Run, i \in Item : item'[y][i] = "posting" => paid'[y[1]][i] > 0
    BY <2>1, <2>2 DEF TasksHavePaid, Quiet
  <2>4. \A y \in Run, i \in Item : item'[y][i] \in {"noting", "completed"} => Content[i] \in posted'
    BY DEF TasksHavePaid, Quiet
  <2>5. \A i \in Item : Content[i] \in posted' => Paid(i)'
    BY DoneGrows DEF TasksHavePaid
  <2> QED
    BY <2>3, <2>4, <2>5 DEF TasksHavePaid
<1>4. PaymentsKnown'
  <2> SUFFICES ASSUME ~atomic, Answered' PROVE PaymentsKnown'
    BY DEF PaymentsKnown, Grows
  <2>1. UNCHANGED <<paid, posted>> /\ Answered
    BY DEF Grows, Answered
  <2>2. \A y \in Run, j \in Item : item[y][j] = "posting" => item'[y][j] = "posting"
    BY DEF Quiet
  <2> QED
    BY <2>1, <2>2 DEF PaymentsKnown
<1> QED
  BY <1>2, <1>3, <1>4

\* What a step leaves of row r, its payments and its run.
Kept(r) ==
  /\ \/ batch'[r] = batch[r]
     \/ batch[r].status \notin Over /\ batch'[r].status \notin Over
     \/ batch'[r].status = batch[r].status /\ "db" \in cause'[r]
     \/ (batch'[r].status = "failed" /\ cause'[r] # {})
  /\ paid'[r] = paid[r] \/ cause'[r] # {}
  /\ PastSubmit(r)' => PastSubmit(r)
  /\ cause'[r] = {} =>
       /\ PastSubmit(r) => PastSubmit(r)'
       /\ \A x \in Run : x[1] = r /\ run[x] = "items" => run'[x] = "items" /\ Known(x) \subseteq Known(x)'
       /\ \A x \in Run : x[1] = r /\ run[x] = "written" => run'[x] = "written"

LEMMA KeptRow ==
  ASSUME BatchTypes, BatchTypes', Grows, NEW r \in Req, Kept(r),
         MineIsKnown(r), AtomicIsWhole(r), RowTrue(r)
  PROVE  MineIsKnown(r)' /\ AtomicIsWhole(r)' /\ RowTrue(r)'
<1>1. cause[r] \subseteq cause'[r] /\ (cause'[r] = {} => cause[r] = {} /\ paid'[r] = paid[r])
  BY DEF Grows, Kept
<1>2. \/ batch'[r] = batch[r] \/ cause'[r] # {}
      \/ batch[r].status \notin Over /\ batch'[r].status \notin Over
  BY DEF Kept
<1>3. UNCHANGED <<atomic, queued>>
  BY DEF Grows
<1>4. MineIsKnown(r)'
  <2> SUFFICES ASSUME ~atomic, cause'[r] = {} PROVE MineIsKnown(r)'
    BY <1>3 DEF MineIsKnown
  <2>1. Mine(r)' = Mine(r)
    BY <1>1 DEF Mine
  <2>2. CASE Mine(r) = {}
    BY <2>1, <2>2 DEF MineIsKnown
  <2>3. ASSUME NEW x \in Run, x[1] = r, run[x] = "items", Mine(r) \subseteq Known(x)
        PROVE  MineIsKnown(r)'
    BY <2>1, <2>3 DEF MineIsKnown, Kept
  <2>4. CASE batch[r].status \in Ended /\ Cardinality(Mine(r)) <= batch[r].good
    BY <1>2, <2>1, <2>4 DEF MineIsKnown, Over, Ended
  <2> QED
    BY <1>1, <2>2, <2>3, <2>4 DEF MineIsKnown
<1>5. AtomicIsWhole(r)'
  <2> SUFFICES ASSUME atomic PROVE AtomicIsWhole(r)'
    BY <1>3 DEF AtomicIsWhole
  <2>1. PastSubmit(r)' => \A i \in Item : paid'[r][i] > 0
    BY DEF AtomicIsWhole, Kept, Grows, BatchTypes
  <2>2. cause'[r] = {} =>
          \/ \A i \in Item : paid'[r][i] = 0
          \/ /\ \A i \in Item : paid'[r][i] = 1
             /\ PastSubmit(r)' \/ batch'[r].status = "completed"
    BY <1>1, <1>2 DEF AtomicIsWhole, Kept, Over
  <2> QED
    BY <2>1, <2>2 DEF AtomicIsWhole
<1>6. RowTrue(r)'
  <2>1. CASE batch'[r].status \notin Over \/ (batch'[r].status = "failed" /\ cause'[r] # {})
    BY <2>1 DEF RowTrue, Over
  <2>2. CASE \/ batch'[r] = batch[r]
             \/ batch'[r].status = batch[r].status /\ "db" \in cause'[r]
    <3>1. /\ Done \subseteq Done' /\ Done' \subseteq Item
          /\ Cardinality(Done) \in Nat /\ Cardinality(Done') \in Nat
          /\ Cardinality(Done) <= Cardinality(Done')
      BY DoneGrows DEF Done
    <3>2. Mine(r)' = Mine(r) \/ cause'[r] # {}
      BY <1>1 DEF Mine
    <3>3. batch'[r].status = batch[r].status
      BY <2>2
    <3>4. batch'[r] = batch[r] \/ "db" \in cause'[r]
      BY <2>2
    <3>5. batch'[r].status = "completed" =>
            Done' = Item /\ (batch'[r].good = Cardinality(Item) \/ "db" \in cause'[r])
      BY <1>1, <3>1, <3>3, <3>4 DEF RowTrue
    <3>6. batch'[r].status = "failed" => Mine(r)' = {} \/ cause'[r] # {}
      BY <1>1, <3>2, <3>3 DEF RowTrue
    <3>7. batch'[r].status = "partial_failed" =>
            /\ Done' # {}
            /\ batch'[r].good \in 1..Cardinality(Done') \/ "db" \in cause'[r]
      BY <1>1, <3>1, <3>3, <3>4 DEF RowTrue
    <3>8. batch'[r].status = "partial_failed" =>
            /\ batch'[r].good + batch'[r].bad = Cardinality(Item) \/ "db" \in cause'[r]
            /\ cause'[r] = {} => Cardinality(Mine(r)') <= batch'[r].good
      BY <1>1, <3>2, <3>3, <3>4 DEF RowTrue
    <3> QED
      BY <3>5, <3>6, <3>7, <3>8 DEF RowTrue
  <2> QED
    BY <2>1, <2>2 DEF Kept
<1> QED
  BY <1>4, <1>5, <1>6

\* The rows that a step of another row's run leaves alone.
LEMMA OtherRows ==
  ASSUME NEW x \in Run, NEW r \in Req, r # x[1],
         batch'[r] = batch[r], paid'[r] = paid[r],
         \A y \in Run : y[1] # x[1] => run'[y] = run[y] /\ item'[y] = item[y]
  PROVE  Kept(r)
BY DEF Kept, PastSubmit, Known

\* A request keeps the answer that its handler gave.
LEMMA AnswersStay ==
  ASSUME WorkInv, Next, NEW r \in Req, source[r] = r
  PROVE  source'[r] = r /\ reply'[r] = reply[r]
<1> DEFINE Stays == source'[r] = r /\ reply'[r] = reply[r]
<1>1. GateTypes /\ BatchTypes /\ GateInv /\ RunInv /\ \A x \in Run : x[1] \in Req
  BY WorkParts, RunParts
<1>2. req[r] = "answered"
  BY <1>1, ReqFacts DEF GateInv, UnansweredIsBlank
<1>3. HandlersStay => Stays
  BY <1>2 DEF HandlersStay
<1>4. ASSUME UNCHANGED GateRest PROVE Stays
  BY <1>4 DEF GateRest
<1>5. ASSUME UNCHANGED gateVars PROVE Stays
  BY <1>5 DEF gateVars
<1>6. ASSUME NEW q \in Req, NEW kind, req[q] = "handler", Respond(q, kind) PROVE Stays
  <2>1. q # r
    BY <1>2, <1>6
  <2> QED
    BY <1>1, <1>6, <2>1 DEF Respond, GateTypes
<1>7. ASSUME (\E q \in Req : GateStep(q) \/ GateFault(q)) \/ LockExpires \/ AnswerExpires PROVE Stays
  BY <1>1, <1>3, <1>7, SendKeeps, GetRecordKeeps, SetLockKeeps, LookupFailsKeeps, WriteRecordKeeps,
     LockExpiresKeeps, AnswerExpiresKeeps DEF GateStep, GateFault
<1>8. ASSUME NEW q \in Req, Handle(q) \/ RequestFails(q) \/ StartJob(q) PROVE Stays
  BY <1>5, <1>6, <1>8 DEF Handle, Refuse, CreateBatch, Enqueue, RequestFails, StartJob
<1>9. ASSUME NEW x \in Run, NEW kind, run[x] \in Live, End(x, kind) PROVE Stays
  <2>1. CASE queued
    BY <1>9, <2>1 DEF End
  <2>2. CASE ~queued
    BY <1>1, <1>6, <1>9, <2>2 DEF End, RunInv, RunIsOwned
  <2> QED
    BY <2>1, <2>2
<1>10. ASSUME NEW x \in Run, Return(x) \/ FailBatch(x) PROVE Stays
  BY <1>9, <1>10 DEF Return, FailBatch, Live
<1>11. ASSUME NEW x \in Run, FailBatchFails(x) PROVE Stays
  <2>1. CASE queued
    BY <1>11, <2>1 DEF FailBatchFails
  <2>2. CASE ~queued
    BY <1>1, <1>6, <1>11, <2>2 DEF FailBatchFails, RunInv, RunIsOwned, Live
  <2> QED
    BY <2>1, <2>2
<1>12. ASSUME NEW x \in Run,
              \/ Prepare(x) \/ NotPrepared(x) \/ SubmitBatch(x) \/ SubmitRefused(x) \/ Commit(x)
              \/ Record(x) \/ Finish(x)
              \/ SubmitUnanswered(x) \/ ProcessingFails(x) \/ FinishFails(x) \/ RereadFails(x)
       PROVE  Stays
  BY <1>4, <1>5, <1>12 DEF Prepare, NotPrepared, SubmitBatch, SubmitRefused, Commit, Record, Finish,
     SubmitUnanswered, ProcessingFails, FinishFails, RereadFails
<1>13. ASSUME NEW x \in Run, NEW i \in Item,
              \/ Replay(x, i) \/ StartPayment(x, i) \/ PayItem(x, i) \/ PostItem(x, i)
              \/ ItemRefused(x, i) \/ NoteItem(x, i)
              \/ PostFails(x, i) \/ ItemUnanswered(x, i) \/ NoteFails(x, i) \/ CountFails(x, i)
       PROVE  Stays
  BY <1>4, <1>5, <1>13 DEF Replay, StartPayment, PayItem, PostItem, ItemRefused, NoteItem,
     PostFails, ItemUnanswered, NoteFails, CountFails
<1>14. CASE Crash
  BY <1>1, <1>14, GateCrashKeeps DEF Crash
<1> QED
  BY <1>7, <1>8, <1>10, <1>11, <1>12, <1>13, <1>14
  DEF Next, Progress, Gate, GateGoesWrong, Advance, RunStep, TaskStep, GoWrong

-----------------------------------------------------------------------------
(* Steps that pay nothing, or whose payment has lost its answer *)

LEMMA MoneyParts ==
  ASSUME MoneyInv
  PROVE  /\ PaymentsExclude /\ TasksHavePaid /\ PaymentsKnown
         /\ \A r \in Req : MineIsKnown(r) /\ AtomicIsWhole(r) /\ CompletedIsAnswered(r) /\ RowTrue(r)
BY DEF MoneyInv

LEMMA PlainKeeps ==
  ASSUME WorkInv, WorkInv', MoneyInv, Next, Grows, UNCHANGED posted,
         UNCHANGED paid \/ atomic \/ ~Answered',
         \A y \in Run, j \in Item : Quiet(y, j), \A r \in Req : Kept(r)
  PROVE  MoneyInv'
<1>1. BatchTypes /\ BatchTypes'
  BY TypesAre DEF WorkInv
<1>2. PaymentsExclude' /\ TasksHavePaid' /\ PaymentsKnown'
  BY <1>1, MoneyParts, QuietKeeps
<1>3. \A r \in Req : MineIsKnown(r)' /\ AtomicIsWhole(r)' /\ RowTrue(r)'
  BY <1>1, MoneyParts, KeptRow
<1>4. \A r \in Req : CompletedIsAnswered(r)'
  <2>1. \A r \in Req : batch'[r].status = "completed" => batch[r].status = "completed"
    BY DEF Kept, Over
  <2>2. \A r \in Req, x \in Run :
          cause'[r] = {} /\ x[1] = r /\ run[x] = "written" => run'[x] = "written"
    BY DEF Kept
  <2> QED
    BY <2>1, <2>2, AnswersStay, MoneyParts DEF CompletedIsAnswered, Grows
<1> QED
  BY <1>2, <1>3, <1>4 DEF MoneyInv

Past == {"commit", "record"}

\* A row that met no fault, and whose run stays where its payments have it.
LEMMA CalmRow ==
  ASSUME NEW r \in Req, paid'[r] = paid[r],
         \/ batch'[r] = batch[r]
         \/ batch[r].status \notin Over /\ batch'[r].status \notin Over,
         \A y \in Run : y[1] = r =>
           /\ run'[y] \in Past <=> run[y] \in Past
           /\ run[y] = "items" => run'[y] = "items" /\ Known(y) \subseteq Known(y)'
           /\ run[y] = "written" => run'[y] = "written"
  PROVE  Kept(r)
BY DEF Kept, PastSubmit, Past

\* A row that met one.
LEMMA FaultyRow ==
  ASSUME NEW r \in Req, cause'[r] # {},
         \/ batch'[r] = batch[r]
         \/ batch[r].status \notin Over /\ batch'[r].status \notin Over
         \/ batch'[r].status = batch[r].status /\ "db" \in cause'[r]
         \/ batch'[r].status = "failed",
         \A y \in Run : y[1] = r => (run'[y] \in Past => run[y] \in Past)
  PROVE  Kept(r)
BY DEF Kept, PastSubmit, Past

\* Steps that leave batch, payments and tasks alone.
LEMMA CalmStep ==
  ASSUME WorkInv, WorkInv', MoneyInv, Next, UNCHANGED <<Kind, item, posted, paid, cause>>,
         \A r \in Req : \/ batch'[r] = batch[r]
                        \/ batch[r].status \notin Over /\ batch'[r].status \notin Over,
         \A y \in Run : \/ run'[y] = run[y]
                        \/ run[y] \in Past /\ run'[y] \in Past
                        \/ run[y] \notin Past \cup {"items", "written"} /\ run'[y] \notin Past
  PROVE  MoneyInv'
<1>1. BatchTypes /\ BatchTypes'
  BY TypesAre DEF WorkInv
<1>2. UNCHANGED <<atomic, queued, item, posted, paid, cause>>
  BY DEF Kind
<1>3. Grows
  BY <1>1, <1>2 DEF Grows, BatchTypes
<1>4. \A y \in Run, j \in Item : Quiet(y, j)
  BY <1>2 DEF Quiet
<1>5. \A y \in Run : Known(y)' = Known(y)
  BY <1>2 DEF Known
<1>6. \A y \in Run : /\ run'[y] \in Past <=> run[y] \in Past
                     /\ run[y] = "items" => run'[y] = "items"
                     /\ run[y] = "written" => run'[y] = "written"
  BY DEF Past
<1>7. ASSUME NEW r \in Req PROVE Kept(r)
  BY <1>2, <1>5, <1>6, CalmRow
<1> QED
  BY <1>2, <1>3, <1>4, <1>7, PlainKeeps

\* Steps of run x that meet a fault.
LEMMA FaultyStep ==
  ASSUME WorkInv, WorkInv', MoneyInv, Next, NEW x \in Run,
         UNCHANGED <<Kind, posted>>, UNCHANGED paid \/ atomic \/ ~Answered',
         \A r \in Req : cause[r] \subseteq cause'[r], cause'[x[1]] # {},
         \A r \in Req, i \in Item : paid[r][i] <= paid'[r][i],
         \A r \in Req \ {x[1]} : batch'[r] = batch[r] /\ paid'[r] = paid[r],
         \/ batch'[x[1]] = batch[x[1]]
         \/ batch[x[1]].status \notin Over /\ batch'[x[1]].status \notin Over
         \/ batch'[x[1]].status = batch[x[1]].status /\ "db" \in cause'[x[1]]
         \/ batch'[x[1]].status = "failed",
         \A y \in Run \ {x} : run'[y] = run[y] /\ item'[y] = item[y],
         run'[x] \in Past => run[x] \in Past,
         \A j \in Item : Quiet(x, j)
  PROVE  MoneyInv'
<1>1. BatchTypes /\ BatchTypes' /\ x[1] \in Req
  BY RunParts, TypesAre DEF WorkInv
<1>2. Grows
  BY DEF Grows, Kind
<1>3. \A y \in Run, j \in Item : Quiet(y, j)
  BY DEF Quiet
<1>4. ASSUME NEW r \in Req, r # x[1] PROVE Kept(r)
  BY <1>4, OtherRows
<1>5. Kept(x[1])
  BY <1>1, FaultyRow
<1> QED
  BY <1>2, <1>3, <1>4, <1>5, PlainKeeps

-----------------------------------------------------------------------------
LEMMA GateMoney ==
  ASSUME WorkInv, WorkInv', MoneyInv, Next,
         (\E r \in Req : Gate(r) \/ Handle(r) \/ StartJob(r)) \/ GateGoesWrong
  PROVE  MoneyInv'
<1>1. BatchTypes
  BY WorkParts
<1>2. CASE UNCHANGED batchVars
  <2>1. UNCHANGED <<Kind, item, posted, paid, cause, batch, run>>
    BY <1>2 DEF batchVars, Kind
  <2> QED
    BY <2>1, CalmStep
<1>3. ASSUME NEW r \in Req, CreateBatch(r) PROVE MoneyInv'
  <2>1. UNCHANGED <<Kind, item, posted, paid, cause>>
    BY <1>3 DEF CreateBatch
  <2>2. \A q \in Req : \/ batch'[q] = batch[q]
                       \/ batch[q].status \notin Over /\ batch'[q].status \notin Over
    BY <1>1, <1>3 DEF CreateBatch, Row, BatchTypes, Over
  <2>3. run[<<r, 1>>] = "idle"
    <3>1. <<r, 1>> \in Run /\ <<r, 1>>[1] = r
      BY BatchAssumption DEF Run
    <3> QED
      BY <1>3, <3>1, FreshRow DEF CreateBatch
  <2>4. \A y \in Run : run'[y] = run[y] \/ (run[y] = "idle" /\ run'[y] = "prepare")
    <3>1. CASE queued
      BY <1>3, <3>1 DEF CreateBatch
    <3>2. CASE ~queued
      <4>1. run' = [run EXCEPT ![<<r, 1>>] = "prepare"]
        BY <1>3, <3>2 DEF CreateBatch, Goto
      <4>2. \A y \in Run : run'[y] = IF y = <<r, 1>> THEN "prepare" ELSE run[y]
        BY <1>1, <4>1 DEF BatchTypes
      <4> QED
        BY <2>3, <4>2
    <3> QED
      BY <3>1, <3>2
  <2> QED
    BY <2>1, <2>2, <2>4, CalmStep DEF Past
<1>4. ASSUME NEW r \in Req, Refuse(r) \/ Enqueue(r) PROVE MoneyInv'
  <2>1. UNCHANGED <<Kind, item, posted, paid, cause, batch, run>>
    BY <1>4 DEF Refuse, Enqueue, batchVars, Kind
  <2> QED
    BY <2>1, CalmStep
<1>5. ASSUME NEW r \in Req, StartJob(r) PROVE MoneyInv'
  <2>1. UNCHANGED <<Kind, item, posted, paid, cause, batch>>
    BY <1>5 DEF StartJob
  <2> DEFINE z == <<r, job[r].tries + 1>>
  <2>2. run' = [run EXCEPT ![z] = "prepare"]
    BY <1>5 DEF StartJob, Goto
  <2>3. z \in Run => run[z] = "idle"
    <3> SUFFICES ASSUME z \in Run PROVE run[z] = "idle"
      OBVIOUS
    <3>1. z[1] = r /\ z[2] = job[r].tries + 1 /\ job[r].tries \in Nat
      BY <1>1 DEF BatchTypes
    <3>2. queued
      BY <1>5, WorkParts DEF StartJob, RunInv, JobIsAccepted
    <3> HIDE DEF z
    <3>3. ~(z[2] <= job[z[1]].tries)
      BY <3>1
    <3> QED
      BY <3>2, <3>3, WorkParts DEF RunInv, RunIsOwned
  <2> HIDE DEF z
  <2>4. \A y \in Run : run'[y] = run[y] \/ (run[y] = "idle" /\ run'[y] = "prepare")
    BY <1>1, <2>2, <2>3 DEF BatchTypes
  <2> QED
    BY <2>1, <2>4, CalmStep DEF Past
<1> QED
  BY <1>2, <1>3, <1>4, <1>5 DEF Gate, GateGoesWrong, Handle

LEMMA RunMoney ==
  ASSUME WorkInv, WorkInv', MoneyInv, Next, NEW x \in Run,
         NotPrepared(x) \/ SubmitRefused(x) \/ Commit(x)
  PROVE  MoneyInv'
<1>1. BatchTypes
  BY WorkParts
<1>2. UNCHANGED <<Kind, item, posted, paid, cause, batch>>
  BY DEF NotPrepared, SubmitRefused, Commit
<1>3. PICK pc \in {"fail", "refused", "record"} :
        /\ Goto(x, pc)
        /\ pc = "record" => run[x] = "commit"
        /\ pc # "record" => run[x] \in {"prepare", "submit"}
  BY DEF NotPrepared, SubmitRefused, Commit
<1>4. run'[x] = pc /\ \A y \in Run \ {x} : run'[y] = run[y]
  BY <1>1, <1>3 DEF Goto, BatchTypes
<1>5. \A y \in Run : \/ run'[y] = run[y]
                     \/ run[y] \in Past /\ run'[y] \in Past
                     \/ run[y] \notin Past \cup {"items", "written"} /\ run'[y] \notin Past
  BY <1>3, <1>4 DEF Past
<1> QED
  BY <1>2, <1>5, CalmStep

LEMMA FaultMoney ==
  ASSUME WorkInv, WorkInv', MoneyInv, Next, NEW x \in Run,
         \/ SubmitUnanswered(x) \/ ProcessingFails(x) \/ FinishFails(x) \/ RereadFails(x)
         \/ FailBatchFails(x)
  PROVE  MoneyInv'
<1>1. GateTypes /\ BatchTypes /\ x[1] \in Req
  BY WorkParts, RunParts
<1>2. \E why \in Causes : Blame(x[1], why)
  BY DEF SubmitUnanswered, ProcessingFails, FinishFails, RereadFails, FailBatchFails, Causes
<1>3. cause'[x[1]] # {} /\ \A r \in Req : cause[r] \subseteq cause'[r]
  BY <1>1, <1>2, BlameFacts
<1>4. UNCHANGED <<Kind, posted, item>>
  BY DEF SubmitUnanswered, ProcessingFails, FinishFails, RereadFails, FailBatchFails
<1>11. /\ \A r \in Req \ {x[1]} : batch'[r] = batch[r]
       /\ batch'[x[1]] = batch[x[1]] \/ batch'[x[1]].status = "failed"
  <2>1. batch' \in {batch, FailedRow(x[1])}
    BY DEF SubmitUnanswered, ProcessingFails, FinishFails, RereadFails, FailBatchFails
  <2> QED
    BY <1>1, <2>1 DEF FailedRow, BatchTypes
<1>5. \E pc \in {"fail", "over"} : Goto(x, pc)
  BY DEF SubmitUnanswered, ProcessingFails, FinishFails, RereadFails, FailBatchFails
<1>6. /\ run'[x] \notin Past
      /\ \A y \in Run \ {x} : run'[y] = run[y]
  BY <1>1, <1>5 DEF Goto, BatchTypes, Past
<1>7. UNCHANGED paid \/ (paid' = PaidAll(x[1]) /\ run[x] = "submit")
  BY DEF SubmitUnanswered, ProcessingFails, FinishFails, RereadFails, FailBatchFails
<1>8. /\ \A r \in Req, i \in Item : paid[r][i] <= paid'[r][i]
      /\ \A r \in Req \ {x[1]} : paid'[r] = paid[r]
  <2>1. CASE UNCHANGED paid
    BY <1>1, <2>1 DEF BatchTypes
  <2>2. CASE paid' = PaidAll(x[1])
    BY <1>1, <2>2 DEF PaidAll, BatchTypes
  <2> QED
    BY <1>7, <2>1, <2>2
<1>9. UNCHANGED paid \/ atomic
  BY <1>7, WorkParts DEF RunInv, RunIsOwned
<1>10. \A j \in Item : Quiet(x, j)
  BY <1>4 DEF Quiet
<1> QED
  BY <1>1, <1>3, <1>4, <1>6, <1>8, <1>9, <1>10, <1>11, FaultyStep

LEMMA RequestFailsMoney ==
  ASSUME WorkInv, WorkInv', MoneyInv, Next, NEW r \in Req, RequestFails(r)
  PROVE  MoneyInv'
<1>1. GateTypes /\ BatchTypes
  BY WorkParts
<1>2. cause'[r] # {} /\ \A q \in Req : cause[q] \subseteq cause'[q]
  BY <1>1, BlameFacts DEF RequestFails, Causes
<1>3. UNCHANGED <<atomic, queued, posted, batch, item, paid, run>>
  BY DEF RequestFails, Kind
<1>4. Grows
  BY <1>1, <1>2, <1>3 DEF Grows, BatchTypes
<1>5. \A y \in Run, j \in Item : Quiet(y, j)
  BY <1>3 DEF Quiet
<1>6. \A y \in Run : Known(y)' = Known(y)
  BY <1>3 DEF Known
<1>7. ASSUME NEW q \in Req PROVE Kept(q)
  BY <1>3, <1>6, CalmRow
<1> QED
  BY <1>3, <1>4, <1>5, <1>7, PlainKeeps

LEMMA CrashMoney ==
  ASSUME WorkInv, WorkInv', MoneyInv, Next, Crash
  PROVE  MoneyInv'
<1> DEFINE live == {x \in Run : run[x] \notin {"idle", "over"}}
           busy == {x \in Run : \E i \in Item : item[x][i] \in InFlight}
           hit  == {x[1] : x \in live \cup busy}
                   \cup {r \in Req : req[r] = "handler" \/ job[r].st = "active"}
<1>1. BatchTypes /\ BatchTypes' /\ \A x \in Run : x[1] \in Req
  BY RunParts, TypesAre DEF WorkInv
<1>2. UNCHANGED <<atomic, queued, posted, batch, paid>>
  BY DEF Crash, Kind
<1>3. /\ \A r \in Req : cause'[r] = IF r \in hit THEN cause[r] \cup {"crash"} ELSE cause[r]
      /\ hit # {} /\ hit \subseteq Req
  BY <1>1 DEF Crash
<1>4. Grows /\ ~Answered'
  <2>1. Grows
    <3> HIDE DEF hit
    <3>1. \A r \in Req : cause[r] \subseteq cause'[r]
      BY <1>3
    <3>2. \A r \in Req, i \in Item : paid[r][i] <= paid'[r][i]
      BY <1>1, <1>2 DEF BatchTypes
    <3> QED
      BY <1>2, <3>1, <3>2 DEF Grows
  <2>2. PICK r \in hit : r \in Req
    BY <1>3
  <2>3. "crash" \in cause'[r]
    BY <1>3, <2>2
  <2> QED
    BY <2>1, <2>2, <2>3 DEF Answered
<1>5. /\ \A x \in Run : run'[x] = IF run[x] \notin {"idle", "over"} THEN "over" ELSE run[x]
      /\ \A x \in Run, i \in Item : item'[x][i] = IF item[x][i] \in InFlight THEN "idle" ELSE item[x][i]
  BY DEF Crash
<1>6. \A y \in Run, j \in Item : Quiet(y, j)
  BY <1>4, <1>5 DEF Quiet, InFlight
<1>7. ASSUME NEW r \in Req PROVE Kept(r)
  <2>1. CASE r \in hit
    <3>1. \A y \in Run : run'[y] \in Past => run[y] \in Past
      BY <1>5 DEF Past
    <3>2. cause'[r] # {}
      BY <1>3, <2>1
    <3> QED
      BY <1>2, <3>1, <3>2, FaultyRow
  <2>2. CASE r \notin hit
    <3>1. \A y \in Run : y[1] = r => y \notin live
      BY <2>2
    <3>2. \A y \in Run : y[1] = r => run[y] \in {"idle", "over"} /\ run'[y] = run[y]
      BY <1>5, <3>1
    <3> QED
      BY <1>2, <3>2, CalmRow DEF Past
  <2> QED
    BY <2>1, <2>2
<1> QED
  BY <1>2, <1>4, <1>6, <1>7, PlainKeeps

-----------------------------------------------------------------------------
(* Steps of a task *)

\* The row of a task in flight is being processed, or met a failed update.
LEMMA InFlightRow ==
  ASSUME WorkInv, NEW x \in Run, NEW i \in Item, item[x][i] \in InFlight
  PROVE  /\ ~atomic /\ x[1] \in Req
         /\ \/ run[x] = "items" /\ batch[x[1]].status = "processing"
            \/ "db" \in cause[x[1]]
BY RunParts, WorkParts DEF TaskInv, InFlight, RunInv, RunIsOwned

\* What a step of task i of run x changes.
OneTask(x, i, st) ==
  /\ UNCHANGED <<atomic, queued, run>>
  /\ \A y \in Run, j \in Item : item'[y][j] = IF y = x /\ j = i THEN st ELSE item[y][j]
  /\ \A r \in Req \ {x[1]} : batch'[r] = batch[r] /\ paid'[r] = paid[r] /\ cause'[r] = cause[r]
  /\ cause[x[1]] \subseteq cause'[x[1]]
  /\ batch'[x[1]].status = batch[x[1]].status

LEMMA OneTaskRows ==
  ASSUME WorkInv, WorkInv', MoneyInv, NEW x \in Run, NEW i \in Item, item[x][i] \in InFlight,
         NEW st, OneTask(x, i, st)
  PROVE  /\ \A r \in Req \ {x[1]} : Kept(r)
         /\ \/ cause'[x[1]] # {}
            \/ /\ paid'[x[1]] = paid[x[1]]
               /\ item[x][i] \in {"posting", "noting"} => st \in {"posting", "noting", "completed"}
            => Kept(x[1])
<1>1. BatchTypes /\ BatchTypes' /\ x[1] \in Req
  BY RunParts, TypesAre DEF WorkInv
<1>2. \A r \in Req \ {x[1]} : Kept(r)
  <2>1. \A y \in Run : y[1] # x[1] => run'[y] = run[y] /\ item'[y] = item[y]
    BY <1>1 DEF OneTask, BatchTypes
  <2> QED
    BY <2>1, OtherRows DEF OneTask
<1>3. \/ batch[x[1]].status \notin Over /\ batch'[x[1]].status \notin Over
      \/ batch'[x[1]].status = batch[x[1]].status /\ "db" \in cause'[x[1]]
  BY InFlightRow DEF OneTask, Over
<1>4. cause'[x[1]] # {} => Kept(x[1])
  BY <1>1, <1>3, FaultyRow DEF OneTask
<1>5. ASSUME cause'[x[1]] = {}, paid'[x[1]] = paid[x[1]],
             item[x][i] \in {"posting", "noting"} => st \in {"posting", "noting", "completed"}
      PROVE  Kept(x[1])
  <2>1. \A y \in Run : Known(y) \subseteq Known(y)'
    BY <1>5 DEF OneTask, Known, InFlight
  <2>2. batch[x[1]].status \notin Over /\ batch'[x[1]].status \notin Over
    BY <1>3, <1>5
  <2> QED
    BY <1>1, <1>5, <2>1, <2>2, CalmRow DEF OneTask
<1> QED
  BY <1>2, <1>4, <1>5

\* What the tasks' steps have in common.
LEMMA TaskFacts ==
  ASSUME WorkInv, NEW x \in Run, NEW i \in Item,
         \/ Replay(x, i) \/ StartPayment(x, i) \/ PayItem(x, i) \/ PostItem(x, i)
         \/ ItemRefused(x, i) \/ NoteItem(x, i) \/ PostFails(x, i) \/ ItemUnanswered(x, i)
         \/ NoteFails(x, i)
  PROVE  /\ item[x][i] \in InFlight
         /\ \A st : Task(x, i, st) /\ UNCHANGED batch => OneTask(x, i, st)
         /\ \A st \in {"completed", "failed"} : Count(x, i, st) => OneTask(x, i, st)
         /\ \A r \in Req, j \in Item : paid[r][j] <= paid'[r][j]
<1>1. GateTypes /\ BatchTypes /\ x[1] \in Req
  BY WorkParts, RunParts
<1>2. item[x][i] \in InFlight
  BY DEF Replay, StartPayment, PayItem, PostItem, ItemRefused, NoteItem, PostFails, ItemUnanswered,
     NoteFails, InFlight
<1>3. UNCHANGED <<atomic, queued, run>>
  BY DEF Replay, StartPayment, PayItem, PostItem, ItemRefused, NoteItem, PostFails, ItemUnanswered,
     NoteFails, Kind
<1>4. \/ UNCHANGED cause
      \/ \E why \in Causes : Blame(x[1], why)
  BY DEF Replay, StartPayment, PayItem, PostItem, ItemRefused, NoteItem, PostFails, ItemUnanswered,
     NoteFails, Causes
<1>5. cause[x[1]] \subseteq cause'[x[1]] /\ \A r \in Req \ {x[1]} : cause'[r] = cause[r]
  BY <1>1, <1>4, BlameFacts
<1>6. paid' = paid \/ paid' = [paid EXCEPT ![x[1]][i] = @ + 1]
  BY DEF Replay, StartPayment, PayItem, PostItem, ItemRefused, NoteItem, PostFails, ItemUnanswered,
     NoteFails
<1>7. /\ \A r \in Req, j \in Item : paid[r][j] <= paid'[r][j]
      /\ \A r \in Req \ {x[1]} : paid'[r] = paid[r]
  <2>1. CASE paid' = paid
    BY <1>1, <2>1 DEF BatchTypes
  <2>2. CASE paid' = [paid EXCEPT ![x[1]][i] = @ + 1]
    BY <1>1, <2>2 DEF BatchTypes
  <2> QED
    BY <1>6, <2>1, <2>2
<1>8. ASSUME NEW st, Task(x, i, st)
      PROVE  \A y \in Run, j \in Item : item'[y][j] = IF y = x /\ j = i THEN st ELSE item[y][j]
  BY <1>1, <1>8 DEF Task, BatchTypes
<1>9. ASSUME NEW st, Task(x, i, st), UNCHANGED batch PROVE OneTask(x, i, st)
  BY <1>3, <1>5, <1>7, <1>8, <1>9 DEF OneTask
<1>10. ASSUME NEW st \in {"completed", "failed"}, Count(x, i, st) PROVE OneTask(x, i, st)
  BY <1>1, <1>2, <1>3, <1>5, <1>7, <1>8, <1>10, CountFacts DEF OneTask
<1> QED
  BY <1>2, <1>7, <1>9, <1>10

\* Every step but those that make a payment, and the one that posts it.
LEMMA QuietTaskMoney ==
  ASSUME WorkInv, WorkInv', MoneyInv, Next, NEW x \in Run, NEW i \in Item,
         \/ Replay(x, i) \/ ItemRefused(x, i) \/ NoteItem(x, i) \/ ItemUnanswered(x, i)
         \/ NoteFails(x, i) \/ (PostFails(x, i) /\ UNCHANGED posted /\ Blame(x[1], "unposted"))
  PROVE  MoneyInv'
<1>1. /\ item[x][i] \in InFlight
      /\ \A st : Task(x, i, st) /\ UNCHANGED batch => OneTask(x, i, st)
      /\ \A st \in {"completed", "failed"} : Count(x, i, st) => OneTask(x, i, st)
      /\ \A r \in Req, j \in Item : paid[r][j] <= paid'[r][j]
  BY TaskFacts
<1>2. GateTypes /\ BatchTypes /\ x[1] \in Req /\ UNCHANGED posted
  BY WorkParts, RunParts
  DEF Replay, ItemRefused, NoteItem, ItemUnanswered, NoteFails
<1>3. PICK st \in {"noting", "completed", "failed"} :
        /\ OneTask(x, i, st)
        /\ st # "failed" => Content[i] \in posted
        /\ item[x][i] = "posting" => cause'[x[1]] # {} /\ ~Answered'
        /\ \/ UNCHANGED paid /\ (item[x][i] = "noting" => st = "completed")
           \/ cause'[x[1]] # {} /\ (UNCHANGED paid \/ ~Answered')
  <2>1. CASE Replay(x, i)
    BY <1>1, <2>1 DEF Replay
  <2>2. CASE ItemRefused(x, i)
    BY <1>1, <2>2 DEF ItemRefused
  <2>3. CASE NoteItem(x, i)
    BY <1>1, <2>3, MoneyParts DEF NoteItem, TasksHavePaid
  <2>4. CASE ItemUnanswered(x, i)
    <3>1. "unanswered" \in cause'[x[1]]
      BY <1>2, <2>4, BlameFacts DEF ItemUnanswered, Causes
    <3> QED
      BY <1>1, <1>2, <2>4, <3>1 DEF ItemUnanswered, Answered
  <2>5. CASE NoteFails(x, i)
    <3>1. "db" \in cause'[x[1]]
      BY <1>2, <2>5, BlameFacts DEF NoteFails, Causes
    <3> QED
      BY <1>1, <2>5, <3>1 DEF NoteFails
  <2>6. CASE PostFails(x, i) /\ UNCHANGED posted /\ Blame(x[1], "unposted")
    <3>1. "unposted" \in cause'[x[1]]
      BY <1>2, <2>6, BlameFacts DEF Causes
    <3> QED
      BY <1>1, <1>2, <2>6, <3>1 DEF PostFails, Answered
  <2> QED
    BY <2>1, <2>2, <2>3, <2>4, <2>5, <2>6
<1>4. \A y \in Run, j \in Item : Quiet(y, j)
  BY <1>3 DEF OneTask, Quiet
<1>5. Grows
  BY <1>1, <1>3 DEF Grows, OneTask
<1>6. Kept(x[1]) /\ \A r \in Req \ {x[1]} : Kept(r)
  <2>1. \/ cause'[x[1]] # {}
        \/ /\ paid'[x[1]] = paid[x[1]]
           /\ item[x][i] \in {"posting", "noting"} => st \in {"posting", "noting", "completed"}
    BY <1>3
  <2> QED
    BY <1>1, <1>3, <2>1, OneTaskRows
<1> QED
  BY <1>2, <1>3, <1>4, <1>5, <1>6, PlainKeeps

LEMMA CountFailsMoney ==
  ASSUME WorkInv, WorkInv', MoneyInv, Next, NEW x \in Run, NEW i \in Item, CountFails(x, i)
  PROVE  MoneyInv'
<1>1. GateTypes /\ BatchTypes /\ x[1] \in Req
  BY WorkParts, RunParts
<1>2. UNCHANGED <<Kind, posted, batch, paid>>
  BY DEF CountFails
<1>3. "db" \in cause'[x[1]] /\ \A r \in Req : cause[r] \subseteq cause'[r]
  BY <1>1, BlameFacts DEF CountFails, Causes
<1>4. run'[x] = "fail" /\ \A y \in Run \ {x} : run'[y] = run[y] /\ item'[y] = item[y]
  BY <1>1 DEF CountFails, Goto, Task, BatchTypes
<1>5. \A j \in Item : item'[x][j] = IF j = i THEN "completed" ELSE item[x][j]
  BY <1>1 DEF CountFails, Task, BatchTypes
<1>6. \A j \in Item : Quiet(x, j)
  BY <1>5, MoneyParts DEF CountFails, Quiet, TasksHavePaid
<1>7. \A r \in Req, j \in Item : paid[r][j] <= paid'[r][j]
  BY <1>1, <1>2 DEF BatchTypes
<1> QED
  BY <1>1, <1>2, <1>3, <1>4, <1>6, <1>7, FaultyStep DEF Past

LEMMA StartPaymentMoney ==
  ASSUME WorkInv, WorkInv', MoneyInv, Next, NEW x \in Run, NEW i \in Item, StartPayment(x, i)
  PROVE  MoneyInv'
<1>1. /\ item[x][i] \in InFlight /\ OneTask(x, i, "paying")
      /\ \A r \in Req, j \in Item : paid[r][j] <= paid'[r][j]
  BY TaskFacts DEF StartPayment
<1>2. BatchTypes /\ BatchTypes' /\ x[1] \in Req /\ \A y \in Run : y[1] \in Req
  BY RunParts, TypesAre DEF WorkInv
<1>3. UNCHANGED <<posted, paid, cause, batch>>
  BY DEF StartPayment
<1>4. Grows
  BY <1>1, <1>3 DEF Grows, OneTask
<1>5. \A r \in Req : MineIsKnown(r)' /\ AtomicIsWhole(r)' /\ RowTrue(r)'
  <2>1. Kept(x[1]) /\ \A r \in Req \ {x[1]} : Kept(r)
    BY <1>1, <1>3, OneTaskRows DEF StartPayment
  <2> QED
    BY <1>2, <1>4, <2>1, KeptRow, MoneyParts
<1>6. \A r \in Req : CompletedIsAnswered(r)'
  BY <1>1, <1>4, InFlightRow DEF CompletedIsAnswered, Grows
<1>7. \A y \in Run, j \in Item : Paying(y, j)' <=> Paying(y, j) \/ (y = x /\ j = i)
  BY <1>1 DEF OneTask, Paying, StartPayment
<1>8. PaymentsExclude'
  <2>1. \A y \in Run, j \in Item : Paying(y, j) => Content[j] # Content[i]
    BY DEF StartPayment, Rivalled, Paying
  <2> QED
    BY <1>3, <1>7, <2>1, MoneyParts DEF PaymentsExclude, StartPayment
<1>9. TasksHavePaid'
  <2>1. \A j \in Item : Paid(j)' <=> Paid(j)
    BY <1>3 DEF Paid
  <2> QED
    BY <1>1, <1>2, <1>3, <2>1, MoneyParts DEF TasksHavePaid, OneTask
<1>10. PaymentsKnown'
  <2>1. \A y \in Run, j \in Item : item[y][j] = "posting" => item'[y][j] = "posting"
    BY <1>1 DEF OneTask, StartPayment
  <2> QED
    BY <1>3, <1>4, <2>1, MoneyParts DEF PaymentsKnown, Answered, Grows
<1> QED
  BY <1>5, <1>6, <1>8, <1>9, <1>10 DEF MoneyInv

LEMMA PostItemMoney ==
  ASSUME WorkInv, WorkInv', MoneyInv, Next, NEW x \in Run, NEW i \in Item,
         \/ PostItem(x, i)
         \/ /\ PostFails(x, i) /\ posted' = posted \cup {Content[i]}
            /\ Blame(x[1], "db")
  PROVE  MoneyInv'
<1>1. /\ item[x][i] \in InFlight /\ \A r \in Req, j \in Item : paid[r][j] <= paid'[r][j]
      /\ \E st \in {"noting", "failed"} :
           OneTask(x, i, st) /\ (st = "failed" => cause'[x[1]] # {})
  <2>1. CASE PostItem(x, i)
    BY <2>1, TaskFacts DEF PostItem
  <2>2. CASE PostFails(x, i) /\ Blame(x[1], "db")
    <3>1. cause'[x[1]] # {}
      BY <2>2, BlameFacts, WorkParts, RunParts DEF Causes
    <3> QED
      BY <2>2, <3>1, TaskFacts DEF PostFails
  <2> QED
    BY <2>1, <2>2
<1>11. PICK st \in {"noting", "failed"} :
          OneTask(x, i, st) /\ (st = "failed" => cause'[x[1]] # {})
  BY <1>1
<1>2. BatchTypes /\ BatchTypes' /\ x[1] \in Req /\ \A y \in Run : y[1] \in Req
  BY RunParts, TypesAre DEF WorkInv
<1>3. UNCHANGED paid /\ posted' = posted \cup {Content[i]} /\ item[x][i] = "posting"
  BY DEF PostItem, PostFails
<1>4. Grows
  BY <1>1, <1>3, <1>11 DEF Grows, OneTask
<1>5. \A r \in Req : MineIsKnown(r)' /\ AtomicIsWhole(r)' /\ RowTrue(r)'
  <2>1. Kept(x[1]) /\ \A r \in Req \ {x[1]} : Kept(r)
    BY <1>1, <1>3, <1>11, OneTaskRows
  <2> QED
    BY <1>2, <1>4, <2>1, KeptRow, MoneyParts
<1>6. \A r \in Req : CompletedIsAnswered(r)'
  BY <1>1, <1>4, InFlightRow DEF CompletedIsAnswered, Grows
<1>7. \A y \in Run, j \in Item : Paying(y, j)' <=> Paying(y, j) /\ ~(y = x /\ j = i)
  BY <1>3, <1>11 DEF OneTask, Paying
<1>8. PaymentsExclude'
  <2>1. \A y \in Run, j \in Item : Paying(y, j)' => Content[j] # Content[i]
    BY <1>3, <1>7, MoneyParts DEF PaymentsExclude, Paying
  <2> QED
    BY <1>3, <1>7, <2>1, MoneyParts DEF PaymentsExclude
<1>9. TasksHavePaid'
  <2>1. \A j \in Item : Paid(j)' <=> Paid(j)
    BY <1>3 DEF Paid
  <2>2. \A j \in Item : Content[j] = Content[i] => Paid(j)
    BY <1>2, <1>3, MoneyParts DEF TasksHavePaid, Paid
  <2> QED
    BY <1>2, <1>3, <1>11, <2>1, <2>2, MoneyParts DEF TasksHavePaid, OneTask
<1>10. PaymentsKnown'
  <2>1. \A y \in Run, j \in Item : item[y][j] = "posting" =>
          item'[y][j] = "posting" \/ Content[j] \in posted'
    BY <1>3, <1>11 DEF OneTask
  <2> QED
    BY <1>3, <1>4, <2>1, MoneyParts DEF PaymentsKnown, Answered, Grows
<1> QED
  BY <1>5, <1>6, <1>8, <1>9, <1>10 DEF MoneyInv

-----------------------------------------------------------------------------
(* A task pays *)

LEMMA PayItemMoney ==
  ASSUME WorkInv, WorkInv', MoneyInv, Next, NEW x \in Run, NEW i \in Item, PayItem(x, i)
  PROVE  MoneyInv'
<1> DEFINE r == x[1]
<1>1. /\ item[x][i] \in InFlight /\ OneTask(x, i, "posting")
      /\ \A q \in Req, j \in Item : paid[q][j] <= paid'[q][j]
  BY TaskFacts DEF PayItem
<1>2. BatchTypes /\ BatchTypes' /\ r \in Req /\ \A y \in Run : y[1] \in Req
  BY RunParts, TypesAre DEF WorkInv
<1>3. UNCHANGED <<posted, cause, batch>> /\ item[x][i] = "paying" /\ ~atomic
  BY InFlightRow, <1>1 DEF PayItem
<1>4. Grows
  BY <1>1, <1>3 DEF Grows, OneTask
<1>5. \A q \in Req, j \in Item :
        paid'[q][j] = IF q = r /\ j = i THEN paid[q][j] + 1 ELSE paid[q][j]
  BY <1>2 DEF PayItem, BatchTypes
<1>6. \A q \in Req \ {r} : MineIsKnown(q)' /\ AtomicIsWhole(q)' /\ RowTrue(q)'
  <2>1. \A q \in Req \ {r} : Kept(q)
    BY <1>1, OneTaskRows
  <2> QED
    BY <1>2, <1>4, <2>1, KeptRow, MoneyParts
<1>7. AtomicIsWhole(r)'
  BY <1>3, <1>4 DEF AtomicIsWhole, Grows
<1>8. ASSUME cause[r] # {} PROVE MineIsKnown(r)' /\ RowTrue(r)'
  <2>1. Kept(r)
    BY <1>1, <1>3, <1>8, OneTaskRows
  <2> QED
    BY <1>2, <1>4, <2>1, KeptRow, MoneyParts
<1>9. ASSUME cause[r] = {} PROVE MineIsKnown(r)' /\ RowTrue(r)'
  <2>1. run[x] = "items" /\ batch[r].status = "processing"
    BY <1>1, <1>9, InFlightRow
  <2>2. RowTrue(r)'
    BY <1>3, <2>1 DEF RowTrue
  <2>3. Mine(r) \subseteq Known(x)
    <3>1. CASE Mine(r) = {}
      BY <3>1
    <3>2. ASSUME NEW y \in Run, y[1] = r, run[y] = "items", Mine(r) \subseteq Known(y)
          PROVE  Mine(r) \subseteq Known(x)
      BY <2>1, <3>2, OneRun, WorkParts DEF Live
    <3> QED
      BY <1>2, <1>3, <1>9, <2>1, <3>1, <3>2, MoneyParts DEF MineIsKnown, Ended
  <2>4. Mine(r)' \subseteq Mine(r) \cup {i}
    BY <1>2, <1>5 DEF Mine
  <2>5. Known(x)' = Known(x) \cup {i}
    BY <1>1, <1>3 DEF Known, OneTask
  <2>6. MineIsKnown(r)'
    BY <1>1, <2>1, <2>3, <2>4, <2>5 DEF MineIsKnown, OneTask
  <2> QED
    BY <2>2, <2>6
<1>10. \A q \in Req : CompletedIsAnswered(q)'
  BY <1>3, <1>4, AnswersStay, MoneyParts DEF CompletedIsAnswered, Grows
<1>11. \A y \in Run, j \in Item : Paying(y, j)' <=> Paying(y, j)
  BY <1>1, <1>3 DEF OneTask, Paying
<1>12. PaymentsExclude'
  BY <1>3, <1>11, MoneyParts DEF PaymentsExclude
<1>13. TasksHavePaid'
  <2>1. \A q \in Req, j \in Item : paid[q][j] > 0 => paid'[q][j] > 0
    BY <1>1, <1>2 DEF BatchTypes
  <2>2. paid'[r][i] > 0
    BY <1>2, <1>5 DEF BatchTypes
  <2>3. \A j \in Item : Paid(j) => Paid(j)'
    BY <2>1 DEF Paid
  <2>4. \A y \in Run, j \in Item : item'[y][j] = "posting" => paid'[y[1]][j] > 0
    BY <1>1, <1>2, <2>1, <2>2, MoneyParts DEF TasksHavePaid, OneTask
  <2>5. \A y \in Run, j \in Item : item'[y][j] \in {"noting", "completed"} => Content[j] \in posted'
    BY <1>1, <1>3, MoneyParts DEF TasksHavePaid, OneTask
  <2> QED
    BY <1>3, <2>3, <2>4, <2>5, MoneyParts DEF TasksHavePaid
<1>14. PaymentsKnown'
  <2> SUFFICES ASSUME Answered' PROVE PaymentsKnown'
    BY DEF PaymentsKnown
  <2>1. Answered
    BY <1>3 DEF Answered
  <2>2. Content[i] \notin posted
        /\ \A y \in Run, j \in Item : item[y][j] = "posting" => Content[j] # Content[i]
    BY <1>3, MoneyParts DEF PaymentsExclude, Paying
  <2>3. \A q \in Req, j \in Item : paid[q][j] > 0 => Content[j] # Content[i]
    BY <1>3, <2>1, <2>2, MoneyParts DEF PaymentsKnown
  <2>4. paid[r][i] = 0
    BY <1>2, <2>3 DEF BatchTypes
  <2>5. \A q \in Req, j \in Item : paid'[q][j] > 0 => (q = r /\ j = i) \/ paid[q][j] > 0
    BY <1>5
  <2>6. ASSUME NEW q \in Req, NEW j \in Item, paid'[q][j] > 0
        PROVE  /\ paid'[q][j] = 1
               /\ Content[j] \in posted' \/ \E y \in Run : y[1] = q /\ item'[y][j] = "posting"
               /\ \A p \in Req, k \in Item :
                    paid'[p][k] > 0 /\ Content[k] = Content[j] => p = q /\ k = j
    <3>1. CASE q = r /\ j = i
      <4>1. paid'[q][j] = 1 /\ item'[x][j] = "posting"
        BY <1>1, <1>5, <2>4, <3>1 DEF OneTask
      <4>2. \A p \in Req, k \in Item :
              paid'[p][k] > 0 /\ Content[k] = Content[j] => p = q /\ k = j
        BY <2>3, <2>5, <3>1
      <4> QED
        BY <3>1, <4>1, <4>2
    <3>2. CASE ~(q = r /\ j = i)
      <4>1. paid[q][j] > 0 /\ paid'[q][j] = paid[q][j] /\ Content[j] # Content[i]
        BY <1>5, <2>3, <2>5, <2>6, <3>2
      <4>2. /\ paid[q][j] = 1
            /\ Content[j] \in posted \/ \E y \in Run : y[1] = q /\ item[y][j] = "posting"
            /\ \A p \in Req, k \in Item :
                 paid[p][k] > 0 /\ Content[k] = Content[j] => p = q /\ k = j
        BY <1>3, <2>1, <4>1, MoneyParts DEF PaymentsKnown
      <4>3. \A y \in Run : item[y][j] = "posting" => item'[y][j] = "posting"
        BY <1>1 DEF OneTask
      <4>4. \A p \in Req, k \in Item :
              paid'[p][k] > 0 /\ Content[k] = Content[j] => p = q /\ k = j
        BY <2>5, <4>1, <4>2
      <4> QED
        BY <1>3, <4>1, <4>2, <4>3, <4>4
    <3> QED
      BY <3>1, <3>2
  <2> QED
    BY <2>6 DEF PaymentsKnown
<1> QED
  BY <1>6, <1>7, <1>8, <1>9, <1>10, <1>12, <1>13, <1>14 DEF MoneyInv

-----------------------------------------------------------------------------
(* Steps of a run that write its row, or pay for all of it *)

\* The rest of such a step.
OneRow(x) ==
  /\ \A r \in Req \ {x[1]} : batch'[r] = batch[r] /\ paid'[r] = paid[r]
  /\ \A y \in Run \ {x} : run'[y] = run[y] /\ item'[y] = item[y]

LEMMA OneRowKeeps ==
  ASSUME WorkInv, WorkInv', MoneyInv, Next, NEW x \in Run, Grows, OneRow(x), UNCHANGED posted,
         UNCHANGED paid \/ atomic, \A j \in Item : Quiet(x, j),
         MineIsKnown(x[1])', AtomicIsWhole(x[1])', RowTrue(x[1])', CompletedIsAnswered(x[1])'
  PROVE  MoneyInv'
<1>1. BatchTypes /\ BatchTypes' /\ x[1] \in Req
  BY RunParts, TypesAre DEF WorkInv
<1>2. \A y \in Run, j \in Item : Quiet(y, j)
  BY DEF OneRow, Quiet
<1>3. PaymentsExclude' /\ TasksHavePaid' /\ PaymentsKnown'
  BY <1>1, <1>2, MoneyParts, QuietKeeps
<1>4. \A r \in Req \ {x[1]} : Kept(r)
  BY OtherRows DEF OneRow
<1>5. \A r \in Req \ {x[1]} : MineIsKnown(r)' /\ AtomicIsWhole(r)' /\ RowTrue(r)'
  BY <1>1, <1>4, KeptRow, MoneyParts
<1>6. \A r \in Req \ {x[1]} : CompletedIsAnswered(r)'
  BY AnswersStay, MoneyParts DEF CompletedIsAnswered, Grows, OneRow
<1> QED
  BY <1>1, <1>3, <1>5, <1>6 DEF MoneyInv

\* The run that works on a row without faults is the one that has paid for it.
LEMMA NothingPaidYet ==
  ASSUME WorkInv, MoneyInv, NEW x \in Run, run[x] \in Live \ {"written"}, cause[x[1]] = {}
  PROVE  /\ ~atomic => IF run[x] = "items" THEN Mine(x[1]) \subseteq Known(x) ELSE Mine(x[1]) = {}
         /\ atomic => IF run[x] \in Past THEN \A i \in Item : paid[x[1]][i] = 1
                                         ELSE \A i \in Item : paid[x[1]][i] = 0
<1> DEFINE r == x[1]
<1>1. r \in Req /\ BatchTypes /\ RunInv
  BY RunParts, WorkParts
<1>2. batch[r].status \notin Ended
  BY <1>1 DEF RunInv, EndedIsQuiet, Explained, Ended, Over
<1>3. \A y \in Run : y[1] = r /\ run[y] \in Live => y = x
  BY <1>1, OneRun
<1>4. ASSUME ~atomic
      PROVE  IF run[x] = "items" THEN Mine(x[1]) \subseteq Known(x) ELSE Mine(x[1]) = {}
  BY <1>1, <1>2, <1>3, <1>4, MoneyParts DEF MineIsKnown, Live
<1>5. ASSUME atomic
      PROVE  IF run[x] \in Past THEN \A i \in Item : paid[r][i] = 1 ELSE \A i \in Item : paid[r][i] = 0
  <2>1. PastSubmit(r) <=> run[x] \in Past
    BY <1>3 DEF PastSubmit, Past, Live
  <2>2. AtomicIsWhole(r)
    BY <1>1, MoneyParts
  <2>3. (\A i \in Item : paid[r][i] = 0) => ~PastSubmit(r)
    BY <1>5, <2>2, ItemFacts DEF AtomicIsWhole
  <2> QED
    BY <1>2, <1>5, <2>1, <2>2, <2>3 DEF AtomicIsWhole, Ended
<1> QED
  BY <1>4, <1>5

\* Mine counts what a set of tasks has done.
LEMMA MineSize ==
  ASSUME NEW r \in Req, NEW S, S \subseteq Item, Mine(r) \subseteq S
  PROVE  Cardinality(Mine(r)) <= Cardinality(S)
BY SetSize, SizeMonotone

LEMMA PrepareMoney ==
  ASSUME WorkInv, WorkInv', MoneyInv, Next, NEW x \in Run, Prepare(x)
  PROVE  MoneyInv'
<1> DEFINE r == x[1]
<1>1. BatchTypes /\ BatchTypes' /\ r \in Req
  BY RunParts, TypesAre DEF WorkInv
<1>2. UNCHANGED <<atomic, queued, posted, paid, cause>> /\ run[x] = "prepare"
  BY DEF Prepare, Kind
<1>3. /\ run'[x] \notin Past
      /\ \A y \in Run \ {x} : run'[y] = run[y] /\ item'[y] = item[y]
      /\ \A j \in Item : item'[x][j] = item[x][j] \/ item'[x][j] \in {"valid", "failed"}
  BY <1>1 DEF Prepare, Goto, BatchTypes, Past
<1>4. \A q \in Req \ {r} : batch'[q] = batch[q]
  BY <1>1 DEF Prepare, BatchTypes
<1>5. batch'[r].status = "processing"
  BY <1>1 DEF Prepare, BatchTypes
<1>6. Grows
  BY <1>1, <1>2 DEF Grows, BatchTypes
<1>7. OneRow(x)
  BY <1>2, <1>3, <1>4 DEF OneRow
<1>8. \A j \in Item : Quiet(x, j)
  BY <1>2, <1>3, WorkParts DEF Quiet, TaskInv
<1>9. RowTrue(r)' /\ CompletedIsAnswered(r)'
  BY <1>5 DEF RowTrue, CompletedIsAnswered
<1>10. MineIsKnown(r)'
  <2>1. ~atomic /\ cause[r] = {} => Mine(r) = {}
    BY <1>2, NothingPaidYet DEF Live
  <2>2. Mine(r)' = Mine(r)
    BY <1>2 DEF Mine
  <2> QED
    BY <1>2, <2>1, <2>2 DEF MineIsKnown
<1>11. AtomicIsWhole(r)'
  <2>1. ~PastSubmit(r)'
    <3>1. \A y \in Run : y[1] = r => run'[y] \notin Past
      BY <1>2, <1>3, OneRun, WorkParts DEF Live, Past
    <3> QED
      BY <3>1 DEF PastSubmit, Past
  <2>2. atomic /\ cause[r] = {} => \A i \in Item : paid[r][i] = 0
    BY <1>2, NothingPaidYet DEF Live, Past
  <2> QED
    BY <1>2, <2>1, <2>2 DEF AtomicIsWhole
<1> QED
  BY <1>2, <1>6, <1>7, <1>8, <1>9, <1>10, <1>11, OneRowKeeps

LEMMA SubmitBatchMoney ==
  ASSUME WorkInv, WorkInv', MoneyInv, Next, NEW x \in Run, SubmitBatch(x)
  PROVE  MoneyInv'
<1> DEFINE r == x[1]
<1>1. BatchTypes /\ BatchTypes' /\ r \in Req /\ RunIsOwned(x)
  BY RunParts, TypesAre, WorkParts DEF WorkInv, RunInv
<1>2. UNCHANGED <<atomic, queued, posted, batch, item, cause>> /\ run[x] = "submit"
  BY DEF SubmitBatch, Kind
<1>3. atomic /\ batch[r].status = "processing"
  BY <1>1, <1>2 DEF RunIsOwned
<1>4. run'[x] = "commit" /\ \A y \in Run \ {x} : run'[y] = run[y]
  BY <1>1 DEF SubmitBatch, Goto, BatchTypes
<1>5. /\ \A i \in Item : paid'[r][i] = paid[r][i] + 1
      /\ \A q \in Req \ {r} : paid'[q] = paid[q]
  BY <1>1 DEF SubmitBatch, PaidAll, BatchTypes
<1>6. Grows
  <2>1. \A q \in Req, i \in Item : paid[q][i] \in Nat
    BY <1>1 DEF BatchTypes
  <2>2. \A q \in Req, i \in Item : paid[q][i] <= paid'[q][i]
    BY <1>5, <2>1
  <2> QED
    BY <1>2, <2>2 DEF Grows
<1>7. OneRow(x)
  BY <1>2, <1>4, <1>5 DEF OneRow
<1>8. \A j \in Item : Quiet(x, j)
  BY <1>2 DEF Quiet
<1>9. RowTrue(r)' /\ CompletedIsAnswered(r)' /\ MineIsKnown(r)'
  BY <1>2, <1>3 DEF RowTrue, CompletedIsAnswered, MineIsKnown
<1>10. AtomicIsWhole(r)'
  <2>1. cause[r] = {} => \A i \in Item : paid[r][i] = 0
    BY <1>2, <1>3, NothingPaidYet DEF Live, Past
  <2>2. PastSubmit(r)'
    BY <1>4 DEF PastSubmit
  <2>3. \A i \in Item : paid'[r][i] > 0
    BY <1>1, <1>5 DEF BatchTypes
  <2> QED
    BY <1>2, <1>5, <2>1, <2>2, <2>3 DEF AtomicIsWhole
<1> QED
  BY <1>2, <1>3, <1>6, <1>7, <1>8, <1>9, <1>10, OneRowKeeps

\* What Record, Finish and FailBatch do to the payments' argument.
LEMMA OutcomeMoney ==
  ASSUME WorkInv, WorkInv', MoneyInv, Next, NEW x \in Run, run[x] \in Live \ {"written"},
         NEW pc \in {"written", "over"}, Goto(x, pc),
         \A y \in Run \ {x} : item'[y] = item[y], \A j \in Item : Quiet(x, j),
         UNCHANGED <<Kind, posted, paid, cause>>, NEW row,
         batch' = [batch EXCEPT ![x[1]] = row],
         row.status = "completed" => pc = "written",
         RowTrue(x[1])',
         cause[x[1]] = {} /\ row.status \notin Ended => Mine(x[1]) = {},
         cause[x[1]] = {} /\ row.status \in Ended => Cardinality(Mine(x[1])) <= row.good,
         atomic /\ row.status # "completed" => run[x] \notin Past
  PROVE  MoneyInv'
<1> DEFINE r == x[1]
<1>1. BatchTypes /\ BatchTypes' /\ r \in Req
  BY RunParts, TypesAre DEF WorkInv
<1>2. UNCHANGED <<atomic, queued, posted, paid, cause>>
  BY DEF Kind
<1>4. batch'[r] = row /\ \A q \in Req \ {r} : batch'[q] = batch[q]
  BY <1>1 DEF BatchTypes
<1>5. run'[x] = pc /\ \A y \in Run \ {x} : run'[y] = run[y]
  BY <1>1 DEF Goto, BatchTypes
<1>7. Grows
  BY <1>1, <1>2 DEF Grows, BatchTypes
<1>8. OneRow(x)
  BY <1>2, <1>4, <1>5 DEF OneRow
<1>10. Mine(r)' = Mine(r)
  BY <1>2 DEF Mine
<1>11. MineIsKnown(r)'
  BY <1>2, <1>4, <1>10 DEF MineIsKnown
<1>12. AtomicIsWhole(r)'
  <2>1. ~PastSubmit(r)'
    <3>1. \A y \in Run : y[1] = r => run'[y] \notin Past
      BY <1>5, OneRun, WorkParts DEF Live, Past
    <3> QED
      BY <3>1 DEF PastSubmit, Past
  <2>2. atomic /\ cause[r] = {} => IF run[x] \in Past THEN \A i \in Item : paid[r][i] = 1
                                                      ELSE \A i \in Item : paid[r][i] = 0
    BY NothingPaidYet
  <2> QED
    BY <1>2, <1>4, <2>1, <2>2 DEF AtomicIsWhole
<1>13. CompletedIsAnswered(r)'
  BY <1>4, <1>5 DEF CompletedIsAnswered
<1> QED
  BY <1>2, <1>7, <1>8, <1>11, <1>12, <1>13, OneRowKeeps

\* The end of a run leaves its tasks alone or has them forgotten.
LEMMA EndIsQuiet ==
  ASSUME WorkInv, NEW x \in Run, run[x] \in Live, NEW kind \in {"2xx", "4xx", "fail"},
         End(x, kind), UNCHANGED <<faults, Kind>>
  PROVE  /\ Goto(x, "over") /\ Closed(x, kind)
         /\ \A y \in Run \ {x} : item'[y] = item[y]
         /\ \A j \in Item : Quiet(x, j)
<1>1. Goto(x, "over") /\ BatchTypes
  BY WorkParts DEF End
<1>2. /\ Closed(x, kind)
      /\ item' = item \/ /\ \A i \in Item : item[x][i] \notin InFlight
                         /\ item' = [item EXCEPT ![x] = [i \in Item |-> "idle"]]
  BY EndFacts
<1>3. /\ \A y \in Run \ {x} : item'[y] = item[y]
      /\ \A j \in Item : \/ item'[x][j] = item[x][j]
                         \/ item[x][j] \notin InFlight /\ item'[x][j] = "idle"
  BY <1>1, <1>2 DEF BatchTypes
<1> QED
  BY <1>1, <1>2, <1>3 DEF Quiet, InFlight

\* Returning the outcome.
LEMMA ReturnMoney ==
  ASSUME WorkInv, WorkInv', MoneyInv, Next, NEW x \in Run, Return(x)
  PROVE  MoneyInv'
<1> DEFINE r == x[1]
           kind == IF atomic \/ FinalStatus(x) # "failed" THEN "2xx" ELSE "4xx"
<1>1. BatchTypes /\ BatchTypes' /\ r \in Req
  BY RunParts, TypesAre DEF WorkInv
<1>2. /\ run[x] = "written" /\ run[x] \in Live /\ End(x, kind) /\ kind \in {"2xx", "4xx", "fail"}
      /\ UNCHANGED <<faults, Kind, batch, posted, paid, cause>>
      /\ atomic => kind = "2xx"
  BY DEF Return, Live
<1> HIDE DEF kind
<1>3. /\ Goto(x, "over") /\ Closed(x, kind)
      /\ \A y \in Run \ {x} : item'[y] = item[y]
      /\ \A j \in Item : Quiet(x, j)
  BY <1>2, EndIsQuiet
<1>4. run'[x] = "over" /\ \A y \in Run \ {x} : run'[y] = run[y]
  BY <1>1, <1>3 DEF Goto, BatchTypes
<1>5. UNCHANGED <<atomic, queued>>
  BY <1>2 DEF Kind
<1>6. Grows
  BY <1>1, <1>2, <1>5 DEF Grows, BatchTypes
<1>7. OneRow(x)
  BY <1>2, <1>3, <1>4 DEF OneRow
<1>8. \A y \in Run : y[1] = r /\ run[y] \in Live => y = x
  BY <1>1, <1>2, OneRun, WorkParts
<1>9. ~PastSubmit(r) /\ ~PastSubmit(r)'
  BY <1>2, <1>4, <1>8 DEF PastSubmit, Live
<1>10. MineIsKnown(r)'
  <2>1. Mine(r)' = Mine(r) /\ ~ \E y \in Run : y[1] = r /\ run[y] = "items"
    BY <1>2, <1>8 DEF Mine, Live
  <2> QED
    BY <1>1, <1>2, <1>5, <2>1, MoneyParts DEF MineIsKnown
<1>11. AtomicIsWhole(r)'
  BY <1>1, <1>2, <1>5, <1>9, MoneyParts DEF AtomicIsWhole
<1>12. RowTrue(r)'
  <2>1. Done' = Done /\ Mine(r)' = Mine(r)
    BY <1>2 DEF Done, Paid, Mine
  <2> QED
    BY <1>1, <1>2, <2>1, MoneyParts DEF RowTrue
<1>13. CompletedIsAnswered(r)'
  BY <1>1, <1>2, <1>3, <1>5 DEF CompletedIsAnswered, Closed
<1> QED
  BY <1>2, <1>3, <1>6, <1>7, <1>10, <1>11, <1>12, <1>13, OneRowKeeps

LEMMA RecordMoney ==
  ASSUME WorkInv, WorkInv', MoneyInv, Next, NEW x \in Run, Record(x)
  PROVE  MoneyInv'
<1> DEFINE r == x[1]
           row == [status |-> "completed", good |-> Cardinality(Item), bad |-> 0]
<1>1. BatchTypes /\ BatchTypes' /\ r \in Req /\ RunIsOwned(x)
  BY RunParts, TypesAre, WorkParts DEF WorkInv, RunInv
<1>2. /\ run[x] = "record" /\ Goto(x, "written") /\ batch' = [batch EXCEPT ![r] = row]
      /\ UNCHANGED <<Kind, posted, paid, cause, item>>
  BY DEF Record
<1>3. atomic
  BY <1>1, <1>2 DEF RunIsOwned
<1>4. row.status = "completed" /\ row.good = Cardinality(Item)
  OBVIOUS
<1> HIDE DEF row
<1>5. batch'[r] = row
  BY <1>1, <1>2 DEF BatchTypes
<1>6. PastSubmit(r)
  BY <1>2 DEF PastSubmit
<1>7. \A i \in Item : paid[r][i] > 0
  BY <1>1, <1>3, <1>6, MoneyParts DEF AtomicIsWhole
<1>8. Done' = Item
  BY <1>1, <1>2, <1>7 DEF Done, Paid
<1>9. RowTrue(r)'
  BY <1>4, <1>5, <1>8 DEF RowTrue
<1>10. Cardinality(Mine(r)) <= row.good
  BY <1>1, <1>4, MineSize DEF Mine
<1>11. run[x] \in Live \ {"written"} /\ row.status \in Ended
  BY <1>2, <1>4 DEF Live, Ended
<1>12. \A y \in Run, j \in Item : item'[y] = item[y] /\ Quiet(y, j)
  BY <1>2 DEF Quiet
<1> QED
  BY <1>2, <1>4, <1>9, <1>10, <1>11, <1>12, OutcomeMoney

LEMMA FinishMoney ==
  ASSUME WorkInv, WorkInv', MoneyInv, Next, NEW x \in Run, Finish(x)
  PROVE  MoneyInv'
<1> DEFINE r == x[1]
           row == [status |-> FinalStatus(x), good |-> Cardinality(Good(x)),
                   bad |-> Cardinality(Bad(x))]
<1>1. BatchTypes /\ BatchTypes' /\ r \in Req /\ RunIsOwned(x) /\ TaskInv
  BY RunParts, TypesAre, WorkParts DEF WorkInv, RunInv
<1>2. /\ run[x] = "items" /\ Goto(x, "written") /\ batch' = [batch EXCEPT ![r] = row]
      /\ UNCHANGED <<Kind, posted, paid, cause, item>>
      /\ \A i \in Item : item[x][i] \in {"completed", "failed"}
  BY <1>1 DEF Finish, TaskInv, Settled
<1>3. row.status = FinalStatus(x) /\ row.good = Cardinality(Good(x)) /\ row.bad = Cardinality(Bad(x))
  OBVIOUS
<1> HIDE DEF row
<1>4. batch'[r] = row
  BY <1>1, <1>2 DEF BatchTypes
<1>5. /\ row.status = "completed" => Good(x) # {} /\ Bad(x) = {}
      /\ row.status = "partial_failed" => Good(x) # {} /\ Bad(x) # {}
      /\ row.status = "failed" => Good(x) = {}
      /\ row.status \in Over
  <2>1. Good(x) # {} \/ Bad(x) # {}
    BY <1>2, ItemFacts DEF Good, Bad
  <2> QED
    BY <1>3, <2>1 DEF FinalStatus, Over
<1>6. ~atomic
  BY <1>1, <1>2 DEF RunIsOwned
<1>7. cause[r] = {} => Mine(r) \subseteq Good(x)
  <2>1. Known(x) = Good(x)
    BY <1>2 DEF Known, Good
  <2> QED
    BY <1>2, <1>6, <2>1, NothingPaidYet DEF Live
<1>8. Good(x) \subseteq Done /\ Done' = Done
  BY <1>2, MoneyParts DEF Good, Done, Paid, TasksHavePaid
<1>9. Mine(r)' = Mine(r)
  BY <1>2 DEF Mine
<1>10. cause[r] = {} => Cardinality(Mine(r)) <= row.good
  BY <1>1, <1>3, <1>7, MineSize DEF Good
<1>11. RowTrue(r)'
  <2>1. Bad(x) = {} => Good(x) = Item
    BY <1>2 DEF Good, Bad
  <2>2. Cardinality(Good(x)) + Cardinality(Bad(x)) = Cardinality(Item)
        /\ Cardinality(Good(x)) \in Nat
    BY <1>2, Tally
  <2>3. /\ Good(x) # {} => Cardinality(Good(x)) # 0
        /\ Cardinality(Good(x)) <= Cardinality(Done) /\ Cardinality(Done) \in Nat
    <3>1. IsFiniteSet(Done) /\ Cardinality(Done) \in Nat
      BY SetSize, ItemFacts DEF Done
    <3>2. IsFiniteSet(Good(x)) /\ Cardinality(Good(x)) <= Cardinality(Done)
      BY <1>8, <3>1, SizeMonotone
    <3> QED
      BY <3>1, <3>2, FS_EmptySet
  <2>4. row.status = "completed" => Done' = Item /\ row.good = Cardinality(Item)
    BY <1>3, <1>5, <1>8, <2>1 DEF Done
  <2>5. row.status = "failed" => Mine(r)' = {} \/ cause'[r] # {}
    BY <1>2, <1>5, <1>7, <1>9
  <2>6. row.status = "partial_failed" =>
          /\ Done' # {} /\ row.good \in 1..Cardinality(Done')
          /\ row.good + row.bad = Cardinality(Item)
    BY <1>3, <1>5, <1>8, <2>2, <2>3
  <2>7. cause'[r] = {} => Cardinality(Mine(r)') <= row.good
    BY <1>2, <1>9, <1>10
  <2> QED
    BY <1>4, <2>4, <2>5, <2>6, <2>7 DEF RowTrue
<1>12. cause[r] = {} /\ row.status \notin Ended => Mine(r) = {}
  BY <1>5, <1>7 DEF Over, Ended
<1>13. run[x] \in Live \ {"written"}
  BY <1>2 DEF Live
<1>14. \A y \in Run, j \in Item : item'[y] = item[y] /\ Quiet(y, j)
  BY <1>2 DEF Quiet
<1> QED
  BY <1>2, <1>6, <1>10, <1>11, <1>12, <1>13, <1>14, OutcomeMoney

LEMMA FailBatchMoney ==
  ASSUME WorkInv, WorkInv', MoneyInv, Next, NEW x \in Run, FailBatch(x)
  PROVE  MoneyInv'
<1> DEFINE r == x[1]
           row == [status |-> "failed", good |-> 0, bad |-> Cardinality(Item)]
           kind == IF run[x] = "refused" THEN "4xx" ELSE "fail"
<1>1. BatchTypes /\ r \in Req
  BY RunParts, WorkParts
<1>2. /\ run[x] \in {"fail", "refused"} /\ End(x, kind) /\ batch' = [batch EXCEPT ![r] = row]
      /\ UNCHANGED <<faults, Kind, posted, paid, cause>>
  BY DEF FailBatch, FailedRow
<1>3. row.status = "failed" /\ kind \in {"2xx", "4xx", "fail"}
  OBVIOUS
<1> HIDE DEF row, kind
<1>4. run[x] \in Live \ {"written"} /\ run[x] # "items" /\ run[x] \notin Past
  BY <1>2 DEF Live, Past
<1>5. batch'[r] = row
  BY <1>1, <1>2 DEF BatchTypes
<1>6. cause[r] = {} => Mine(r) = {}
  <2>1. CASE atomic
    BY <1>4, <2>1, NothingPaidYet DEF Mine
  <2>2. CASE ~atomic
    BY <1>4, <2>2, NothingPaidYet
  <2> QED
    BY <2>1, <2>2
<1>7. Mine(r)' = Mine(r) /\ cause' = cause
  BY <1>2 DEF Mine
<1>8. RowTrue(r)'
  BY <1>3, <1>5, <1>6, <1>7 DEF RowTrue
<1>9. row.status \notin Ended /\ row.status # "completed"
  BY <1>3 DEF Ended
<1>10. /\ Goto(x, "over") /\ \A y \in Run \ {x} : item'[y] = item[y]
       /\ \A j \in Item : Quiet(x, j)
  BY <1>2, <1>3, <1>4, EndIsQuiet
<1> QED
  BY <1>2, <1>3, <1>4, <1>6, <1>8, <1>9, <1>10, OutcomeMoney

-----------------------------------------------------------------------------
(* The whole invariant *)

LEMMA MoneyStep == WorkInv /\ WorkInv' /\ MoneyInv /\ [Next]_vars => MoneyInv'
<1> SUFFICES ASSUME WorkInv, WorkInv', MoneyInv, [Next]_vars PROVE MoneyInv'
  OBVIOUS
<1>1. CASE UNCHANGED vars
  <2>1. UNCHANGED <<atomic, queued, batch, run, item, posted, paid, cause, source, reply>>
    BY <1>1 DEF vars, gateVars, batchVars
  <2>2. PaymentsExclude' /\ TasksHavePaid' /\ PaymentsKnown'
    BY <2>1, MoneyParts
    DEF PaymentsExclude, Paying, TasksHavePaid, Paid, PaymentsKnown, Answered
  <2>3. \A r \in Req : MineIsKnown(r)' /\ AtomicIsWhole(r)'
    BY <2>1, MoneyParts DEF MineIsKnown, Mine, Known, AtomicIsWhole, PastSubmit
  <2>4. Done' = Done /\ \A r \in Req : Mine(r)' = Mine(r)
    BY <2>1 DEF Done, Paid, Mine
  <2>5. \A r \in Req : CompletedIsAnswered(r)' /\ RowTrue(r)'
    BY <2>1, <2>4, MoneyParts DEF CompletedIsAnswered, RowTrue
  <2> QED
    BY <2>2, <2>3, <2>5 DEF MoneyInv
<1>2. CASE Next
  <2>1. ASSUME NEW r \in Req, Gate(r) \/ Handle(r) \/ StartJob(r) PROVE MoneyInv'
    BY <1>2, <2>1, GateMoney
  <2>2. CASE GateGoesWrong
    BY <1>2, <2>2, GateMoney
  <2>3. ASSUME NEW r \in Req, RequestFails(r) PROVE MoneyInv'
    BY <1>2, <2>3, RequestFailsMoney
  <2>4. ASSUME NEW x \in Run, Advance(x) PROVE MoneyInv'
    BY <1>2, <2>4, RunMoney, PrepareMoney, SubmitBatchMoney, RecordMoney, FinishMoney, ReturnMoney,
       FailBatchMoney, QuietTaskMoney, StartPaymentMoney, PayItemMoney, PostItemMoney
    DEF Advance, RunStep, TaskStep
  <2>5. ASSUME NEW x \in Run, GoWrong(x) PROVE MoneyInv'
    <3>1. ASSUME NEW i \in Item, PostFails(x, i) PROVE MoneyInv'
      BY <1>2, <3>1, QuietTaskMoney, PostItemMoney DEF PostFails
    <3> QED
      BY <1>2, <2>5, <3>1, FaultMoney, QuietTaskMoney, CountFailsMoney DEF GoWrong
  <2>6. CASE Crash
    BY <1>2, <2>6, CrashMoney
  <2> QED
    BY <1>2, <2>1, <2>2, <2>3, <2>4, <2>5, <2>6 DEF Next, Progress
<1> QED
  BY <1>1, <1>2

LEMMA MoneyStart == Init => MoneyInv
<1> SUFFICES ASSUME Init PROVE MoneyInv
  OBVIOUS
<1>1. \A x \in Run, i \in Item : item[x][i] = "idle" /\ run[x] = "idle"
  BY DEF Init
<1>2. \A r \in Req : /\ \A i \in Item : paid[r][i] = 0
                     /\ batch[r].status = "none"
  BY DEF Init
<1>3. posted = {}
  BY DEF Init
<1>4. PaymentsExclude /\ TasksHavePaid /\ PaymentsKnown
  BY <1>1, <1>2, <1>3 DEF PaymentsExclude, Paying, TasksHavePaid, PaymentsKnown
<1>5. \A r \in Req : MineIsKnown(r) /\ AtomicIsWhole(r) /\ CompletedIsAnswered(r) /\ RowTrue(r)
  BY <1>1, <1>2
  DEF MineIsKnown, Mine, AtomicIsWhole, PastSubmit, CompletedIsAnswered, RowTrue
<1> QED
  BY <1>4, <1>5 DEF MoneyInv

\* The invariant that the properties of the payments and the rows rest on.
THEOREM InvTheorem == Spec => []Inv
<1>1. Init => Inv
  BY WorkStart, MoneyStart DEF Inv
<1>2. Inv /\ [Next]_vars => Inv'
  BY WorkStep, MoneyStep DEF Inv
<1> QED
  BY <1>1, <1>2, PTL DEF Spec

\* A row is of its type and says what happened: RowInv.
LEMMA RowInvHolds == Inv => RowInv
BY RowsAreTrue DEF Inv, WorkInv, MoneyInv, RowInv

\* RowInv, in every state any number of requests, attempts and faults can lead to.
THEOREM RowInvTheorem == Spec => []RowInv
<1>1. Inv => RowInv
  BY RowInvHolds
<1> QED
  BY <1>1, InvTheorem, PTL

\* With the gate and the processing without faults, one row at most is paid for.
LEMMA OneRowIsPaid ==
  ASSUME Inv, atomic, lost \cap {"redis", "expired", "aged", "crash"} = {},
         \A r \in Req : cause[r] = {},
         NEW r \in Req, NEW q \in Req, NEW i \in Item, NEW j \in Item,
         paid[r][i] > 0, paid[q][j] > 0
  PROVE  r = q /\ paid[r][i] = 1
<1>1. GateTypes /\ BatchTypes /\ GateInv /\ RunInv /\ MoneyInv
  BY WorkParts DEF Inv
<1>2. lost \subseteq {"released"}
  BY <1>1 DEF GateTypes
<1>3. \A x \in Run : x[1] \in Req
  BY RunParts
<1>4. ASSUME NEW p \in Req, NEW k \in Item, paid[p][k] > 0
      PROVE  (Active(p) \/ Owns(p)) /\ paid[p][k] = 1
  <2>1. /\ \A n \in Item : paid[p][n] = 1
        /\ PastSubmit(p) \/ batch[p].status = "completed"
    <3>1. AtomicIsWhole(p) /\ paid[p][k] # 0
      BY <1>1, <1>4, MoneyParts
    <3> QED
      BY <3>1 DEF AtomicIsWhole
  <2>2. ASSUME NEW x \in Run, x[1] = p, run[x] \in Live PROVE Active(p) \/ Owns(p)
    <3>1. CASE queued
      BY <1>1, <2>2, <3>1 DEF RunInv, RunIsOwned, JobIsAccepted, Owns
    <3>2. CASE ~queued
      BY <1>1, <2>2, <3>2 DEF RunInv, RunIsOwned, Active
    <3> QED
      BY <3>1, <3>2
  <2>3. PastSubmit(p) => Active(p) \/ Owns(p)
    BY <2>2 DEF PastSubmit, Live
  <2>4. ASSUME batch[p].status = "completed" PROVE Active(p) \/ Owns(p)
    <3>1. CASE queued
      <4>1. job[p].st = "done" \/ \E x \in Run : x[1] = p /\ run[x] = "written"
        BY <1>1, <2>4, <3>1 DEF RunInv, EndedIsQuiet, Explained, Ended
      <4> QED
        BY <1>1, <2>2, <3>1, <4>1 DEF RunInv, JobIsAccepted, Owns, Live
    <3>2. CASE ~queued
      <4>1. \/ source[p] = p /\ reply[p] = "2xx"
            \/ \E x \in Run : x[1] = p /\ run[x] = "written"
        BY <1>1, <2>4, <3>2, MoneyParts DEF CompletedIsAnswered
      <4> QED
        BY <2>2, <4>1 DEF Owns, Live
    <3> QED
      BY <3>1, <3>2
  <2> QED
    BY <2>1, <2>3, <2>4
<1> QED
  BY <1>1, <1>2, <1>4 DEF GateInv, OneAtATime

LEMMA PaidOnceHolds == Inv => PaidOnce
<1> SUFFICES ASSUME Inv, NEW i \in Item, PaidTwice(i)
             PROVE  IF atomic
                    THEN lost \cap {"redis", "expired", "aged", "crash"} # {} \/ \E r \in Req : cause[r] # {}
                    ELSE \E r \in Req : cause[r] \cap {"unposted", "unanswered", "crash"} # {}
  BY DEF PaidOnce
<1>1. PICK r \in Req, q \in Req :
        paid[r][i] > 0 /\ paid[q][i] > 0 /\ (r # q \/ paid[r][i] > 1)
  BY DEF PaidTwice
<1>2. ASSUME atomic, lost \cap {"redis", "expired", "aged", "crash"} = {}, \A p \in Req : cause[p] = {}
      PROVE  FALSE
  BY <1>1, <1>2, OneRowIsPaid
<1>3. ASSUME ~atomic, Answered PROVE FALSE
  BY <1>1, <1>3, MoneyParts DEF Inv, PaymentsKnown
<1> QED
  BY <1>2, <1>3 DEF Answered

\* PaidOnce: unless a fault explains it, no recipient is paid twice for one item.
THEOREM PaidOnceTheorem == Spec => []PaidOnce
<1>1. Inv => PaidOnce
  BY PaidOnceHolds
<1> QED
  BY <1>1, InvTheorem, PTL
=============================================================================
