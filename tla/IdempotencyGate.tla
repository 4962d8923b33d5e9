--------------------------- MODULE IdempotencyGate ---------------------------
(***************************************************************************)
(* The idempotency middleware for requests that carry one key: a record in *)
(* Redis is read, then locked for 60 s, and overwritten with the response, *)
(* which is kept for a day, or deleted when the handler answers.  The      *)
(* handler is a module that extends this one and calls Respond.            *)
(***************************************************************************)
EXTENDS Naturals, FiniteSets

CONSTANTS
  Requests,  \* requests with the same key
  Faults,    \* how many faults may happen and kept answers run out
  None

ASSUME GateAssumption ==
  /\ Requests \in Nat /\ Faults \in Nat
  /\ None \notin {"save", "delete"}

Req == 1..Requests   \* in the order they are sent

VARIABLES
  record,   \* the key's record in Redis, with the request whose response it holds
  req,      \* where each request is
  reply,    \* what its client got: None, "2xx", "4xx", "5xx", "conflict" or "cached"
  source,   \* the request whose handler made that reply, or 0
  writing,  \* the record update that res.json started and did not await
  lost,     \* why the record may not have kept later requests out
  faults

gateVars == <<record, req, reply, source, writing, lost, faults>>

NoRecord == [status |-> "none", by |-> 0]
InProgress == [status |-> "in-progress", by |-> 0]
Completed(r) == [status |-> "completed", by |-> r]

GateInit ==
  /\ record  = NoRecord
  /\ req     = [r \in Req |-> "new"]
  /\ reply   = [r \in Req |-> None]
  /\ source  = [r \in Req |-> 0]
  /\ writing = [r \in Req |-> None]
  /\ lost    = {}
  /\ faults  = Faults

GateTypeOK ==
  /\ record  \in {NoRecord, InProgress} \cup {Completed(r) : r \in Req}
  /\ req     \in [Req -> {"new", "get", "lock", "handler", "answered", "dead"}]
  /\ reply   \in [Req -> {None, "2xx", "4xx", "5xx", "conflict", "cached"}]
  /\ source  \in [Req -> Req \cup {0}]
  /\ writing \in [Req -> {None, "save", "delete"}]
  /\ lost \subseteq {"redis", "expired", "released", "aged", "crash"}
  /\ faults  \in 0..Faults

Fault == faults > 0 /\ faults' = faults - 1
Moved(r, pc) == req' = [req EXCEPT ![r] = pc]

\* The gate answers without the handler.
Turned(r, kind, from) ==
  /\ Moved(r, "answered")
  /\ reply'  = [reply  EXCEPT ![r] = kind]
  /\ source' = [source EXCEPT ![r] = from]

Send(r) ==
  /\ req[r] = "new" /\ \A q \in 1..(r - 1) : req[q] # "new"
  /\ Moved(r, "get")
  /\ UNCHANGED <<record, reply, source, writing, lost, faults>>

\* getRecord: a finished key is answered from the cache, a busy one refused.
GetRecord(r) ==
  /\ req[r] = "get"
  /\ CASE record = NoRecord   -> Moved(r, "lock") /\ UNCHANGED <<reply, source>>
       [] record = InProgress -> Turned(r, "conflict", 0)
       [] OTHER               -> Turned(r, "cached", record.by)
  /\ UNCHANGED <<record, writing, lost, faults>>

\* Redis is unreachable: "treating as no record".
GetRecordFails(r) ==
  /\ req[r] = "get"
  /\ Fault
  /\ lost' = lost \cup {"redis"}
  /\ Moved(r, "lock")
  /\ UNCHANGED <<record, reply, source, writing>>

\* Mutant: the lock is set without NX.
SetLockAlways(r) ==
  /\ req[r] = "lock"
  /\ record' = InProgress /\ Moved(r, "handler")
  /\ UNCHANGED <<reply, source, writing, lost, faults>>

\* SET NX: only one of the requests that saw no record goes on.
SetLock(r) ==
  /\ req[r] = "lock"
  /\ \/ record = NoRecord /\ record' = InProgress /\ Moved(r, "handler") /\ UNCHANGED <<reply, source>>
     \/ record # NoRecord /\ Turned(r, "conflict", 0) /\ UNCHANGED record
  /\ UNCHANGED <<writing, lost, faults>>

\* "skipping idempotency lock"
SetLockFails(r) ==
  /\ req[r] = "lock"
  /\ Fault
  /\ lost' = lost \cup {"redis"}
  /\ Moved(r, "handler")
  /\ UNCHANGED <<record, reply, source, writing>>

\* Mutant: a refusal by the handler releases the key as well.
RespondReleasing(r, kind) ==
  /\ Moved(r, "answered")
  /\ reply'   = [reply   EXCEPT ![r] = kind]
  /\ source'  = [source  EXCEPT ![r] = r]
  /\ writing' = [writing EXCEPT ![r] = IF kind = "2xx" THEN "save" ELSE "delete"]

\* res.json: the record's update is started, the answer sent.
Respond(r, kind) ==
  /\ Moved(r, "answered")
  /\ reply'   = [reply   EXCEPT ![r] = kind]
  /\ source'  = [source  EXCEPT ![r] = r]
  /\ writing' = [writing EXCEPT ![r] = IF kind = "5xx" THEN "delete" ELSE "save"]

\* saveResponse or deleteRecord, whoever holds the record by now.
WriteRecord(r) ==
  /\ writing[r] # None
  /\ IF writing[r] = "save"
     THEN record' = Completed(r) /\ UNCHANGED lost
     ELSE record' = NoRecord /\ lost' = lost \cup {"released"}
  /\ writing' = [writing EXCEPT ![r] = None]
  /\ UNCHANGED <<req, reply, source, faults>>

WriteRecordFails(r) ==
  /\ writing[r] # None
  /\ Fault
  /\ lost' = lost \cup {"redis"}
  /\ writing' = [writing EXCEPT ![r] = None]
  /\ UNCHANGED <<record, req, reply, source>>

\* 60 s have passed: the lock goes, whatever its holder is doing.  It counts as a
\* fault when a handler is still at work.
LockExpires ==
  /\ record = InProgress
  /\ IF \E r \in Req : req[r] = "handler" THEN Fault ELSE UNCHANGED faults
  /\ record' = NoRecord
  /\ lost' = lost \cup {"expired"}
  /\ UNCHANGED <<req, reply, source, writing>>

\* IDEMPOTENCY_TTL, 86400 s by default, has passed: the kept answer goes.  Faults
\* bounds how often.
AnswerExpires ==
  /\ record \notin {NoRecord, InProgress}
  /\ Fault
  /\ record' = NoRecord
  /\ lost' = lost \cup {"aged"}
  /\ UNCHANGED <<req, reply, source, writing>>

\* The process dies; the record is Redis's.
GateCrash ==
  /\ Fault
  /\ lost' = lost \cup {"crash"}
  /\ req' = [r \in Req |-> IF req[r] \in {"get", "lock", "handler"} THEN "dead" ELSE req[r]]
  /\ writing' = [r \in Req |-> None]
  /\ UNCHANGED <<record, reply, source>>

GateStep(r) == Send(r) \/ GetRecord(r) \/ SetLock(r) \/ WriteRecord(r)
GateFault(r) == GetRecordFails(r) \/ SetLockFails(r) \/ WriteRecordFails(r)

-----------------------------------------------------------------------------
(* Properties *)

\* The handler runs for one request per key, unless Redis failed, the lock ran
\* out before the answer was kept, a failure of the server released the key, the
\* kept answer's lifetime was over or the process died.  This is what the
\* middleware is for; the five exceptions are its only ones.
HandledOnce ==
  Cardinality({r \in Req : req[r] = "handler" \/ source[r] = r}) > 1 => lost # {}

\* All answers clients get for one key are the same handler's, or a refusal to
\* answer, unless Redis failed, the lock or the kept answer ran out or the process
\* died; a released key is no exception: what it answered was a failure, and a
\* cached answer is never mixed up with that of another run.
AnswersAgree ==
  lost \subseteq {"released"} =>
    \A r, q \in Req : {reply[r], reply[q]} \cap {None, "5xx"} = {}
                      /\ 0 \notin {source[r], source[q]} => source[r] = source[q]
=============================================================================
