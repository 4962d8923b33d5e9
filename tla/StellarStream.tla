---------------------------- MODULE StellarStream ----------------------------
(***************************************************************************)
(* backend/services/StellarStreamService.js with its start and shutdown in *)
(* backend/server.js: one Horizon SSE stream per tagged account, a cursor  *)
(* per account in Redis, and a handler per delivered payment that credits  *)
(* the account in a database transaction.                                  *)
(*                                                                         *)
(* Every await is a point where other handlers, timers, refreshes and a    *)
(* crash may run; the code between two awaits is one action.  The awaits   *)
(* of a handler are its pc: "check", "lock" and "write" are inside the     *)
(* database transaction, "cursor" and "notify" after its commit.           *)
(*                                                                         *)
(* A payment is worth one unit, so a balance counts credits.  Horizon, the *)
(* EventSource, PostgreSQL (READ COMMITTED, row locks, unique index) and   *)
(* Redis are external and modelled by what this code relies on.            *)
(***************************************************************************)
EXTENDS Naturals, Sequences, FiniteSets

CONSTANTS
  Addr,          \* Stellar addresses with a row in stellar_accounts
  StreamId,      \* bound: stream objects alive at once
  Handler,       \* bound: handlePayment calls in flight at once
  Refresher,     \* bound: refreshAccounts calls in flight at once
  MaxOps,        \* bound: operations per account's ledger
  Budgets,       \* bound: how often each fault (and overlap of refreshes) may happen,
                 \* one of these
  IsProduction,  \* NODE_ENV = "production"
  None           \* null, undefined, no key

FaultKind == {"crash", "db", "redis", "sse", "account", "overlap"}

ASSUME NoneAssumption == None \notin Addr \cup StreamId \cup Refresher \cup Nat
ASSUME MaxOpsAssumption == MaxOps \in Nat
ASSUME BudgetAssumption == Budgets \subseteq [FaultKind -> Nat]
ASSUME IsProductionAssumption == IsProduction \in BOOLEAN

VARIABLES
  \* Horizon
  ledger,        \* ledger[a]: "in" for a payment to a, "other" for the rest
  \* PostgreSQL
  account,       \* account[a]: "active", "untagged" (row active, tag not), "inactive"
  credited,      \* credited[a]: operations with a row (fingerprint) in transactions
  balance,       \* balance[a]: stellar_accounts.balances
  \* Redis
  cursor,        \* cursor[a]: operation of the saved paging token, 0 an older one
  \* the process
  up,            \* the process runs
  running,       \* this.running
  refreshTimer,  \* this.refreshTimer is set
  starter,       \* the refresh start() awaits, None once start() is over
  streams,       \* this.streams: address -> stream object
  obj,           \* the stream objects
  refresh,       \* the refreshAccounts calls
  hs,            \* the handlePayment calls
  \* history and bounds
  webhooks,      \* webhooks[a][i]: deliveries of WALLET_CREDITED dispatched for i
  failed,        \* failed[a]: operations whose handler ended in the catch, uncredited
  budget

dbVars   == <<account, credited, balance>>
procVars == <<up, running, refreshTimer, starter, streams, obj, refresh>>
vars == <<ledger, dbVars, cursor, procVars, hs, webhooks, failed, budget>>

-----------------------------------------------------------------------------
(* Values *)

Kind == {"in", "other"}
AccountStatus == {"active", "untagged", "inactive"}

NoStream  == [addr |-> None, sse |-> FALSE, pos |-> 0, timer |-> FALSE, conn |-> FALSE]
NoRefresh == [pc |-> "idle", todo |-> {}, on |-> None]
NoHandler == [pc |-> "idle", addr |-> None, op |-> 0, read |-> 0, fresh |-> FALSE]

StreamRec  == [addr : Addr \cup {None}, sse : BOOLEAN, pos : Nat,
               timer : BOOLEAN, conn : BOOLEAN]
RefreshRec == [pc : {"idle", "query", "reconcile", "loop"}, todo : SUBSET Addr,
               on : StreamId \cup {None}]
HandlerRec == [pc : {"idle", "check", "lock", "write", "cursor", "notify"},
               addr : Addr \cup {None}, op : Nat, read : Nat, fresh : BOOLEAN]

Spend(k) == budget[k] > 0 /\ budget' = [budget EXCEPT ![k] = @ - 1]

\* Mutant: the SELECT of the account row without FOR UPDATE.
NoRowLock(a) == FALSE

\* The row lock of SELECT ... FOR UPDATE on a's row is held by some handler.
RowLocked(a) == \E h \in Handler : hs[h].pc = "write" /\ hs[h].addr = a

\* getRegisteredAccounts: is_active row joined with an active tag.
Registered == {a \in Addr : account[a] = "active"}

\* A stream object nothing refers to any more; its identity may be reused.
Unused(s) ==
  /\ \A a \in Addr : streams[a] # s
  /\ ~obj[s].sse /\ ~obj[s].timer /\ ~obj[s].conn

Init ==
  /\ ledger       = [a \in Addr |-> <<>>]
  /\ account      = [a \in Addr |-> "active"]
  /\ credited     = [a \in Addr |-> {}]
  /\ balance      = [a \in Addr |-> 0]
  /\ cursor       \in [Addr -> {None, 0}]
  /\ up           = FALSE
  /\ running      = FALSE
  /\ refreshTimer = FALSE
  /\ starter      = None
  /\ streams      = [a \in Addr |-> None]
  /\ obj          = [s \in StreamId |-> NoStream]
  /\ refresh      = [r \in Refresher |-> NoRefresh]
  /\ hs           = [h \in Handler |-> NoHandler]
  /\ webhooks     = [a \in Addr |-> [i \in 1..MaxOps |-> 0]]
  /\ failed       = [a \in Addr |-> {}]
  /\ budget       \in Budgets

-----------------------------------------------------------------------------
(* Horizon and the rest of the backend *)

\* Horizon appends an operation to a's payment stream.
Arrive(a, k) ==
  /\ Len(ledger[a]) < MaxOps
  /\ ledger' = [ledger EXCEPT ![a] = Append(@, k)]
  /\ UNCHANGED <<dbVars, cursor, procVars, hs, webhooks, failed, budget>>

\* Another part of the backend changes the account row or its tag; the UPDATE
\* of the row waits for a handler's row lock.
SetAccount(a, st) ==
  /\ account[a] # st
  /\ ~RowLocked(a)
  /\ Spend("account")
  /\ account' = [account EXCEPT ![a] = st]
  /\ UNCHANGED <<ledger, credited, balance, cursor, procVars, hs, webhooks, failed>>

-----------------------------------------------------------------------------
(* Process life cycle *)

\* What is left of the process's memory after it exits; an open database
\* transaction is rolled back with its connection.
Exit ==
  /\ up'           = FALSE
  /\ running'      = FALSE
  /\ refreshTimer' = FALSE
  /\ starter'      = None
  /\ streams'      = [a \in Addr |-> None]
  /\ obj'          = [s \in StreamId |-> NoStream]
  /\ refresh'      = [r \in Refresher |-> NoRefresh]
  /\ hs'           = [h \in Handler |-> NoHandler]

Crash ==
  /\ up
  /\ Spend("crash")
  /\ Exit
  /\ UNCHANGED <<ledger, dbVars, cursor, webhooks, failed>>

\* server.js boots the process and awaits start(), which awaits a refresh.
Start(r) ==
  /\ ~up
  /\ up'      = TRUE
  /\ running' = TRUE
  /\ starter' = r
  /\ refresh' = [refresh EXCEPT ![r].pc = "query"]
  /\ UNCHANGED <<ledger, dbVars, cursor, refreshTimer, streams, obj, hs, webhooks,
                 failed, budget>>

\* stopAccount for every stream of the set S of stream objects.
StopAccounts(S) ==
  [s \in StreamId |->
     IF s \in S THEN [obj[s] EXCEPT !.timer = FALSE, !.sse = FALSE] ELSE obj[s]]

\* SIGTERM or SIGINT, whose handlers are registered once start() is over: stop().
Stop ==
  /\ up /\ running /\ starter = None
  /\ Spend("crash")
  /\ running'      = FALSE
  /\ refreshTimer' = FALSE
  /\ obj'          = StopAccounts({streams[a] : a \in Addr})
  /\ streams'      = [a \in Addr |-> None]
  /\ UNCHANGED <<ledger, dbVars, cursor, up, starter, refresh, hs, webhooks, failed>>

\* The last HTTP connection is closed: process.exit(0), whatever still runs.
ShutDown ==
  /\ up /\ ~running
  /\ Exit
  /\ UNCHANGED <<ledger, dbVars, cursor, webhooks, failed, budget>>

-----------------------------------------------------------------------------
(* refreshAccounts *)

\* The interval timer fires, whether the last refresh is over or not (bound:
\* the refreshes that overlap).
RefreshTick(r) ==
  /\ refreshTimer
  /\ refresh[r].pc = "idle"
  /\ IF \A q \in Refresher : refresh[q].pc = "idle"
     THEN UNCHANGED budget ELSE Spend("overlap")
  /\ refresh' = [refresh EXCEPT ![r].pc = "query"]
  /\ UNCHANGED <<ledger, dbVars, cursor, up, running, refreshTimer, starter, streams,
                 obj, hs, webhooks, failed>>

\* The database evaluates getRegisteredAccounts.
RefreshQuery(r) ==
  /\ refresh[r].pc = "query"
  /\ refresh' = [refresh EXCEPT ![r].pc = "reconcile", ![r].todo = Registered]
  /\ UNCHANGED <<ledger, dbVars, cursor, up, running, refreshTimer, starter, streams,
                 obj, hs, webhooks, failed, budget>>

\* The query fails.  The interval's call is logged; the one start() awaits makes
\* start() reject: production exits, otherwise the server goes on without a timer.
RefreshQueryFails(r) ==
  /\ refresh[r].pc = "query"
  /\ Spend("db")
  /\ IF r = starter /\ IsProduction
       THEN Exit
       ELSE /\ refresh' = [refresh EXCEPT ![r] = NoRefresh]
            /\ starter' = IF r = starter THEN None ELSE starter
            /\ UNCHANGED <<up, running, refreshTimer, streams, obj, hs>>
  /\ UNCHANGED <<ledger, dbVars, cursor, webhooks, failed>>

\* One turn of the loop over the wanted accounts, with the map m and the objects
\* o as they are now: create the next missing stream and start to connect it, or
\* finish.  connect() returns at once when the service is not running.
NextAccount(r, todo, m, o) ==
  LET missing == {a \in todo : m[a] = None} IN
  \/ \E a \in missing, s \in StreamId :
       /\ Unused(s) /\ \A b \in Addr : m[b] # s
       /\ streams' = [m EXCEPT ![a] = s]
       /\ obj' = [o EXCEPT ![s] = [NoStream EXCEPT !.addr = a, !.conn = running]]
       /\ refresh' = [refresh EXCEPT
            ![r] = [pc |-> "loop", todo |-> missing \ {a},
                    on |-> IF running THEN s ELSE None]]
       /\ UNCHANGED <<refreshTimer, starter>>
  \/ /\ missing = {}
     /\ streams' = m
     /\ obj' = o
     /\ refresh' = [refresh EXCEPT ![r] = NoRefresh]
     /\ IF r = starter THEN starter' = None /\ refreshTimer' = TRUE
                       ELSE UNCHANGED <<starter, refreshTimer>>

\* The query's answer: stop what is no longer wanted, then the first loop turn.
RefreshReconcile(r) ==
  /\ refresh[r].pc = "reconcile"
  /\ LET todo     == refresh[r].todo
         unwanted == {a \in Addr \ todo : streams[a] # None}
     IN  NextAccount(r, todo,
           [a \in Addr |-> IF a \in unwanted THEN None ELSE streams[a]],
           StopAccounts({streams[a] : a \in unwanted}))
  /\ UNCHANGED <<ledger, dbVars, cursor, up, running, hs, webhooks, failed, budget>>

\* The awaited connect() is over; the next loop turn.
RefreshNext(r) ==
  /\ refresh[r].pc = "loop"
  /\ refresh[r].on = None
  /\ NextAccount(r, refresh[r].todo, streams, obj)
  /\ UNCHANGED <<ledger, dbVars, cursor, up, running, hs, webhooks, failed, budget>>

-----------------------------------------------------------------------------
(* connect and scheduleReconnect *)

Has(s) == obj[s].addr # None /\ streams[obj[s].addr] # None

\* scheduleReconnect(stream): an early return leaves the object alone.
Rescheduled(o) == [o EXCEPT !.sse = FALSE, !.timer = TRUE]
MayReschedule(s) == running /\ Has(s) /\ ~obj[s].timer

\* Every refresh that awaits s's connect() goes on.
Resumed(s) ==
  [r \in Refresher |->
     IF refresh[r].on = s THEN [refresh[r] EXCEPT !.on = None] ELSE refresh[r]]

\* Mutant: getCursor ignores the token.
SavedPosAlwaysNow(a) == Len(ledger[a])

\* getCursor: the saved token, "now" without one and "now" when Redis fails.
Now(a) == Len(ledger[a])
SavedPos(a) == IF cursor[a] = None THEN Now(a) ELSE cursor[a]

\* connect() after the await of getCursor: open the SSE.  Nothing is rechecked.
Connect(s, pos) ==
  /\ obj' = [obj EXCEPT ![s].conn = FALSE, ![s].sse = TRUE, ![s].pos = pos]
  /\ refresh' = Resumed(s)
  /\ UNCHANGED <<ledger, dbVars, cursor, up, running, refreshTimer, starter, streams,
                 hs, webhooks, failed>>

ConnectSaved(s) ==
  /\ obj[s].conn
  /\ Connect(s, SavedPos(obj[s].addr))
  /\ UNCHANGED budget

ConnectRedisDown(s) ==
  /\ obj[s].conn
  /\ Spend("redis")
  /\ Connect(s, Now(obj[s].addr))

\* Mutant: connect() without its catch.
ConnectThrowsUncaught(s) ==
  /\ obj[s].conn
  /\ Spend("sse")
  /\ obj' = [obj EXCEPT ![s].conn = FALSE]
  /\ refresh' = Resumed(s)
  /\ UNCHANGED <<ledger, dbVars, cursor, up, running, refreshTimer, starter, streams,
                 hs, webhooks, failed>>

\* .stream() throws: the catch of connect().
ConnectThrows(s) ==
  /\ obj[s].conn
  /\ Spend("sse")
  /\ obj' = [obj EXCEPT ![s] =
       LET o == [@ EXCEPT !.conn = FALSE]
       IN  IF MayReschedule(s) THEN Rescheduled(o) ELSE o]
  /\ refresh' = Resumed(s)
  /\ UNCHANGED <<ledger, dbVars, cursor, up, running, refreshTimer, starter, streams,
                 hs, webhooks, failed>>

\* onerror of an open SSE.
SseError(s) ==
  /\ obj[s].sse
  /\ MayReschedule(s)
  /\ Spend("sse")
  /\ obj' = [obj EXCEPT ![s] = Rescheduled(@)]
  /\ UNCHANGED <<ledger, dbVars, cursor, up, running, refreshTimer, starter, streams,
                 refresh, hs, webhooks, failed>>

\* The reconnect timer fires: connect() up to its await.
TimerFires(s) ==
  /\ obj[s].timer
  /\ obj' = [obj EXCEPT ![s].timer = FALSE, ![s].conn = running /\ Has(s)]
  /\ UNCHANGED <<ledger, dbVars, cursor, up, running, refreshTimer, starter, streams,
                 refresh, hs, webhooks, failed, budget>>

-----------------------------------------------------------------------------
(* handlePayment and recordIncomingPayment *)

\* onmessage with a payment to this account: a handler starts.  The previous
\* one, if any, is not awaited.
Deliver(s, h) ==
  LET a == obj[s].addr
      i == obj[s].pos + 1
  IN
  /\ obj[s].sse
  /\ i <= Len(ledger[a])
  /\ ledger[a][i] = "in"
  /\ hs[h].pc = "idle"
  /\ obj' = [obj EXCEPT ![s].pos = i]
  /\ hs'  = [hs EXCEPT ![h] = [NoHandler EXCEPT !.pc = "check", !.addr = a, !.op = i]]
  /\ UNCHANGED <<ledger, dbVars, cursor, up, running, refreshTimer, starter, streams,
                 refresh, webhooks, failed, budget>>

\* onmessage with anything else: ignored, the saved cursor stays.
Ignore(s) ==
  LET a == obj[s].addr
      i == obj[s].pos + 1
  IN
  /\ obj[s].sse
  /\ i <= Len(ledger[a])
  /\ ledger[a][i] # "in"
  /\ obj' = [obj EXCEPT ![s].pos = i]
  /\ UNCHANGED <<ledger, dbVars, cursor, up, running, refreshTimer, starter, streams,
                 refresh, hs, webhooks, failed, budget>>

\* The handler's catch: the transaction, if open, is rolled back and the
\* payment is neither credited nor acknowledged by this handler.
GiveUp(h) ==
  LET a == hs[h].addr IN
  /\ hs' = [hs EXCEPT ![h] = NoHandler]
  /\ failed' = [failed EXCEPT ![a] = IF hs[h].op \in credited[a] THEN @ ELSE @ \cup {hs[h].op}]

\* SELECT ... WHERE fingerprint: a row that is committed ends the transaction
\* as a duplicate, which still advances the cursor.
CheckFingerprint(h) ==
  /\ hs[h].pc = "check"
  /\ hs' = [hs EXCEPT ![h].pc =
       IF hs[h].op \in credited[hs[h].addr] THEN "cursor" ELSE "lock"]
  /\ UNCHANGED <<ledger, dbVars, cursor, procVars, webhooks, failed, budget>>

\* Mutant: the account row is locked without the is_active predicate.
LockAnyAccount(h) ==
  /\ hs[h].pc = "lock"
  /\ ~RowLocked(hs[h].addr)
  /\ hs' = [hs EXCEPT ![h].pc = "write", ![h].read = balance[hs[h].addr]]
  /\ UNCHANGED <<ledger, dbVars, cursor, procVars, webhooks, failed, budget>>

\* SELECT ... FOR UPDATE of the active account row, and its balances.
LockAccount(h) ==
  /\ hs[h].pc = "lock"
  /\ ~RowLocked(hs[h].addr)
  /\ account[hs[h].addr] # "inactive"
  /\ hs' = [hs EXCEPT ![h].pc = "write", ![h].read = balance[hs[h].addr]]
  /\ UNCHANGED <<ledger, dbVars, cursor, procVars, webhooks, failed, budget>>

\* No active row: "Tagged Stellar account is no longer active".
NoAccount(h) ==
  /\ hs[h].pc = "lock"
  /\ ~RowLocked(hs[h].addr)
  /\ account[hs[h].addr] = "inactive"
  /\ GiveUp(h)
  /\ UNCHANGED <<ledger, dbVars, cursor, procVars, webhooks, budget>>

\* Mutant: transactions.fingerprint without its unique index.
CommitNoIndex(h) ==
  LET a == hs[h].addr IN
  /\ hs[h].pc = "write"
  /\ balance'  = [balance EXCEPT ![a] = hs[h].read + 1]
  /\ credited' = [credited EXCEPT ![a] = @ \cup {hs[h].op}]
  /\ hs'       = [hs EXCEPT ![h].pc = "cursor", ![h].fresh = TRUE]
  /\ UNCHANGED <<ledger, account, cursor, procVars, webhooks, failed, budget>>

\* UPDATE the balances, INSERT the transactions and stellar_transactions rows,
\* COMMIT: all or nothing, and the row lock is released.
Commit(h) ==
  LET a == hs[h].addr IN
  /\ hs[h].pc = "write"
  /\ hs[h].op \notin credited[a]
  /\ balance'  = [balance EXCEPT ![a] = hs[h].read + 1]
  /\ credited' = [credited EXCEPT ![a] = @ \cup {hs[h].op}]
  /\ hs'       = [hs EXCEPT ![h].pc = "cursor", ![h].fresh = TRUE]
  /\ UNCHANGED <<ledger, account, cursor, procVars, webhooks, failed, budget>>

\* The INSERT hits uniq_txn_fingerprint_active: another handler of the same
\* operation committed between this one's check and its lock.
UniqueViolation(h) ==
  /\ hs[h].pc = "write"
  /\ hs[h].op \in credited[hs[h].addr]
  /\ GiveUp(h)
  /\ UNCHANGED <<ledger, dbVars, cursor, procVars, webhooks, budget>>

\* Mutant: the cursor is saved in a finally block.
DbFailsSavesCursor(h) ==
  /\ hs[h].pc \in {"check", "lock", "write"}
  /\ Spend("db")
  /\ GiveUp(h)
  /\ cursor' = [cursor EXCEPT ![hs[h].addr] = hs[h].op]
  /\ UNCHANGED <<ledger, dbVars, procVars, webhooks>>

\* A statement or the commit fails: rollback.
DbFails(h) ==
  /\ hs[h].pc \in {"check", "lock", "write"}
  /\ Spend("db")
  /\ GiveUp(h)
  /\ UNCHANGED <<ledger, dbVars, cursor, procVars, webhooks>>

\* Mutant: the webhook is sent for duplicates, too.
SaveCursorAlwaysNotify(h) ==
  /\ hs[h].pc = "cursor"
  /\ cursor' = [cursor EXCEPT ![hs[h].addr] = hs[h].op]
  /\ hs' = [hs EXCEPT ![h].pc = "notify"]
  /\ UNCHANGED <<ledger, dbVars, procVars, webhooks, failed, budget>>

\* saveCursor succeeds; a duplicate ends here.
SaveCursor(h) ==
  /\ hs[h].pc = "cursor"
  /\ cursor' = [cursor EXCEPT ![hs[h].addr] = hs[h].op]
  /\ hs' = [hs EXCEPT ![h] = IF hs[h].fresh THEN [@ EXCEPT !.pc = "notify"] ELSE NoHandler]
  /\ UNCHANGED <<ledger, dbVars, procVars, webhooks, failed, budget>>

\* redis.set fails: the catch, which also skips the webhook.
SaveCursorFails(h) ==
  /\ hs[h].pc = "cursor"
  /\ Spend("redis")
  /\ GiveUp(h)
  /\ UNCHANGED <<ledger, dbVars, cursor, procVars, webhooks>>

\* invalidateTransactionHistory swallows its errors; then WebhookService.dispatch
\* and the socket event.
Dispatch(h) ==
  /\ hs[h].pc = "notify"
  /\ webhooks' = [webhooks EXCEPT ![hs[h].addr][hs[h].op] = @ + 1]
  /\ hs' = [hs EXCEPT ![h] = NoHandler]
  /\ UNCHANGED <<ledger, dbVars, cursor, procVars, failed, budget>>

DispatchFails(h) ==
  /\ hs[h].pc = "notify"
  /\ Spend("db")
  /\ GiveUp(h)
  /\ UNCHANGED <<ledger, dbVars, cursor, procVars, webhooks>>

-----------------------------------------------------------------------------
StreamStep(s) ==
  \/ ConnectSaved(s) \/ ConnectRedisDown(s) \/ ConnectThrows(s)
  \/ SseError(s) \/ TimerFires(s) \/ Ignore(s)

HandlerStep(h) ==
  \/ CheckFingerprint(h) \/ LockAccount(h) \/ NoAccount(h) \/ Commit(h)
  \/ UniqueViolation(h) \/ DbFails(h) \/ SaveCursor(h) \/ SaveCursorFails(h)
  \/ Dispatch(h) \/ DispatchFails(h)

RefreshStep(r) ==
  \/ RefreshTick(r) \/ RefreshQuery(r) \/ RefreshQueryFails(r)
  \/ RefreshReconcile(r) \/ RefreshNext(r)

Next ==
  \/ \E a \in Addr, k \in Kind : Arrive(a, k)
  \/ \E a \in Addr, st \in AccountStatus : SetAccount(a, st)
  \/ \E r \in Refresher : Start(r)
  \/ Crash \/ Stop \/ ShutDown
  \/ \E r \in Refresher : RefreshStep(r)
  \/ \E s \in StreamId : StreamStep(s)
  \/ \E s \in StreamId, h \in Handler : Deliver(s, h)
  \/ \E h \in Handler : HandlerStep(h)

Spec == Init /\ [][Next]_vars

\* The event loop runs what it has started: awaited calls return, timers fire,
\* Horizon sends what it has.  Faults, arrivals, shutdown and changes to
\* accounts need not happen.  Deliver waits for a free handler of the bounded
\* set, hence strong fairness.
Fairness ==
  /\ WF_vars(\E r \in Refresher : Start(r))
  /\ WF_vars(\E r \in Refresher : RefreshTick(r))
  /\ WF_vars(\E r \in Refresher : RefreshQuery(r) \/ RefreshReconcile(r) \/ RefreshNext(r))
  /\ WF_vars(\E s \in StreamId : ConnectSaved(s) \/ TimerFires(s) \/ Ignore(s))
  /\ SF_vars(\E s \in StreamId, h \in Handler : Deliver(s, h))
  /\ WF_vars(\E h \in Handler : \/ CheckFingerprint(h) \/ LockAccount(h) \/ NoAccount(h)
                                \/ Commit(h) \/ UniqueViolation(h) \/ SaveCursor(h)
                                \/ Dispatch(h))

FairSpec == Spec /\ Fairness

-----------------------------------------------------------------------------
(* Properties *)

\* Every variable stays in its type.
TypeOK ==
  /\ ledger   \in [Addr -> Seq(Kind)]
  /\ account  \in [Addr -> AccountStatus]
  /\ credited \in [Addr -> SUBSET Nat]
  /\ balance  \in [Addr -> Nat]
  /\ cursor   \in [Addr -> Nat \cup {None}]
  /\ up \in BOOLEAN /\ running \in BOOLEAN /\ refreshTimer \in BOOLEAN
  /\ starter  \in Refresher \cup {None}
  /\ streams  \in [Addr -> StreamId \cup {None}]
  /\ obj      \in [StreamId -> StreamRec]
  /\ refresh  \in [Refresher -> RefreshRec]
  /\ hs       \in [Handler -> HandlerRec]
  /\ webhooks \in [Addr -> [1..MaxOps -> Nat]]
  /\ failed   \in [Addr -> SUBSET Nat]
  /\ budget   \in [FaultKind -> Nat]

\* The stored balance is exactly the recorded credits, whatever handlers,
\* replays, leaked streams and crashes interleave: no update of the balance is
\* lost (row lock) and none is applied twice (fingerprint index).
BalanceMatchesCredits == \A a \in Addr : balance[a] = Cardinality(credited[a])

\* A paging token is saved only for an operation whose credit is committed, so
\* resuming after it never skips the operation it names.
AcknowledgedIsCredited ==
  \A a \in Addr : cursor[a] \notin {None, 0} => cursor[a] \in credited[a]

\* WALLET_CREDITED is dispatched at most once for an operation and only for one
\* that is credited, although the same operation may be delivered and handled
\* many times.
WebhookAtMostOnce ==
  \A a \in Addr : \A i \in 1..MaxOps :
    webhooks[a][i] > 0 => webhooks[a][i] = 1 /\ i \in credited[a]

\* While the service runs, a registered stream is open, about to be opened, or
\* has its reconnect timer set: no error path leaves it without a next step.
NoStuckStream ==
  \A a \in Addr : running /\ streams[a] # None =>
    LET o == obj[streams[a]] IN o.sse \/ o.timer \/ o.conn

\* What keeps credits exact.  A stream that lives belongs to an account; a
\* handler works on an incoming payment of that account's ledger.
StreamsHaveAccount ==
  \A s \in StreamId : obj[s].sse \/ obj[s].timer \/ obj[s].conn => obj[s].addr \in Addr

HandlersHavePayment ==
  \A h \in Handler : hs[h].pc # "idle" =>
    /\ hs[h].addr \in Addr
    /\ hs[h].op \in DOMAIN ledger[hs[h].addr]
    /\ ledger[hs[h].addr][hs[h].op] = "in"

\* A handler about to write still knows the balance, and no other one is about
\* to write the same row.
WritersExclude ==
  \A h \in Handler : hs[h].pc = "write" =>
    /\ hs[h].read = balance[hs[h].addr]
    /\ account[hs[h].addr] # "inactive"
    /\ \A g \in Handler : hs[g].pc = "write" /\ hs[g].addr = hs[h].addr => g = h

\* Past its transaction a handler's payment is credited; the handler that
\* credited it is the only one that may announce it, and has not done so yet.
DoneIsCredited ==
  \A h \in Handler : hs[h].pc \in {"cursor", "notify"} => hs[h].op \in credited[hs[h].addr]

FreshIsUnique ==
  \A h \in Handler :
    /\ hs[h].pc = "notify" => hs[h].fresh
    /\ hs[h].fresh =>
         /\ hs[h].pc \in {"cursor", "notify"}
         /\ webhooks[hs[h].addr][hs[h].op] = 0
         /\ \A g \in Handler :
              hs[g].fresh /\ hs[g].addr = hs[h].addr /\ hs[g].op = hs[h].op => g = h

LedgerBounded == \A a \in Addr : Len(ledger[a]) <= MaxOps
CreditsFinite == \A a \in Addr : IsFiniteSet(credited[a])

\* The inductive invariant behind the properties about money: with it every
\* interleaving of handlers, replays and crashes credits a payment exactly as
\* CreditOnce does.
CreditInv ==
  /\ LedgerBounded /\ CreditsFinite /\ HandlersHavePayment /\ WritersExclude
  /\ DoneIsCredited /\ FreshIsUnique
  /\ BalanceMatchesCredits /\ AcknowledgedIsCredited /\ WebhookAtMostOnce

\* In production a running service is still starting or refreshes its accounts
\* periodically (server.js exits when start() rejects).
RunningIsRefreshed ==
  IsProduction /\ running => starter # None \/ refreshTimer

\* Neither a stream nor the service itself is left without a next step.
NothingStalls == NoStuckStream /\ RunningIsRefreshed

\* No payment is credited to an account whose row is inactive when the credit
\* commits, although streams and handlers outlive the deactivation.
NoCreditWhileInactive ==
  [][\A a \in Addr : credited'[a] # credited[a] => account[a] # "inactive"]_vars

\* The stream service implements the one-step, at-most-once ledger of credits.
Ledger == INSTANCE CreditOnce WITH
  Addr <- Addr, MaxOps <- MaxOps,
  ledger <- ledger, credited <- credited, balance <- balance
ImplementsCreditOnce == Ledger!Spec

\* The other faults are over.
Calm == \A k \in FaultKind \ {"sse", "overlap"} : budget[k] = 0

\* Whatever failed before, once crashes, shutdowns, Redis and database faults
\* and changes to accounts are over and an active account has a saved cursor,
\* every payment that arrives later is eventually credited although connections
\* still fail: reconnects replay it, and whichever of its handlers comes first
\* credits it.
PaymentsGetCredited ==
  \A a \in Addr : \A i \in 1..MaxOps :
    [](Calm /\ running /\ account[a] = "active" /\ cursor[a] # None /\ Len(ledger[a]) < i
         => []((i \in DOMAIN ledger[a] /\ ledger[a][i] = "in") => <>(i \in credited[a])))

-----------------------------------------------------------------------------
(* What comments of the source say and the code does not do *)

\* StellarStreamService.js, catch of handlePayment: "Cursor is intentionally not
\* saved here. Horizon will replay the event after reconnect": an operation
\* whose handler failed stays ahead of the saved cursor until it is credited.
FailedEventIsReplayed ==
  \A a \in Addr : \A i \in failed[a] \ credited[a] :
    cursor[a] # None => cursor[a] < i
=============================================================================
