------------------------ MODULE StellarStream_proofs -------------------------
(***************************************************************************)
(* Theorems about StellarStream for any number of accounts, streams,       *)
(* handlers, refreshes, operations and faults.                             *)
(*                                                                         *)
(* CreditInv is inductive together with TypeOK and StreamsHaveAccount.     *)
(* The safety properties about money, and the refinement of CreditOnce,    *)
(* follow from it.  That nothing stalls needs an invariant of its own,     *)
(* StallInv, about the life cycle and the map of the streams.              *)
(***************************************************************************)
EXTENDS StellarStream, FiniteSetTheorems, TLAPS

USE NoneAssumption, MaxOpsAssumption, BudgetAssumption, IsProductionAssumption

Typing == TypeOK /\ StreamsHaveAccount

-----------------------------------------------------------------------------
(* Types *)

\* The record updates of the actions.
LEMMA RefreshUpdates ==
  ASSUME NEW x \in RefreshRec
  PROVE  /\ [x EXCEPT !.on = None] \in RefreshRec
         /\ [x EXCEPT !.pc = "query"] \in RefreshRec
         /\ \A S \in SUBSET Addr : [x EXCEPT !.pc = "reconcile", !.todo = S] \in RefreshRec
BY DEF RefreshRec

LEMMA InitTyping == Init => Typing
<1> SUFFICES ASSUME Init PROVE Typing
  OBVIOUS
<1>1. /\ NoStream \in StreamRec /\ NoRefresh \in RefreshRec /\ NoHandler \in HandlerRec
      /\ ~NoStream.sse /\ ~NoStream.timer /\ ~NoStream.conn
  BY DEF NoStream, NoRefresh, NoHandler, StreamRec, RefreshRec, HandlerRec
<1>2. budget \in [FaultKind -> Nat]
  BY BudgetAssumption DEF Init
<1>3. /\ ledger \in [Addr -> Seq(Kind)] /\ account \in [Addr -> AccountStatus]
      /\ credited \in [Addr -> SUBSET Nat] /\ balance \in [Addr -> Nat]
  BY DEF Init, AccountStatus
<1>4. /\ cursor \in [Addr -> Nat \cup {None}] /\ failed \in [Addr -> SUBSET Nat]
      /\ webhooks \in [Addr -> [1..MaxOps -> Nat]]
  BY DEF Init
<1>5. /\ up \in BOOLEAN /\ running \in BOOLEAN /\ refreshTimer \in BOOLEAN
      /\ starter \in Refresher \cup {None} /\ streams \in [Addr -> StreamId \cup {None}]
  BY DEF Init
<1>6. /\ obj \in [StreamId -> StreamRec] /\ refresh \in [Refresher -> RefreshRec]
      /\ hs \in [Handler -> HandlerRec] /\ StreamsHaveAccount
  BY <1>1 DEF Init, StreamsHaveAccount
<1> QED
  BY <1>2, <1>3, <1>4, <1>5, <1>6 DEF Typing, TypeOK

\* What a refresh does next keeps the types of what it may change.
LEMMA NextAccountTyping ==
  ASSUME Typing, NEW r \in Refresher, NEW todo \in SUBSET Addr,
         NEW m \in [Addr -> StreamId \cup {None}], NEW o \in [StreamId -> StreamRec],
         \A s \in StreamId : o[s].sse \/ o[s].timer \/ o[s].conn => o[s].addr \in Addr,
         NextAccount(r, todo, m, o)
  PROVE  /\ streams' \in [Addr -> StreamId \cup {None}]
         /\ obj' \in [StreamId -> StreamRec]
         /\ StreamsHaveAccount'
         /\ refresh' \in [Refresher -> RefreshRec]
         /\ refreshTimer' \in BOOLEAN
         /\ starter' \in Refresher \cup {None}
<1> DEFINE missing == {a \in todo : m[a] = None}
<1>1. CASE missing = {} /\ streams' = m /\ obj' = o
           /\ refresh' = [refresh EXCEPT ![r] = NoRefresh]
           /\ IF r = starter THEN starter' = None /\ refreshTimer' = TRUE
                             ELSE UNCHANGED <<starter, refreshTimer>>
  BY <1>1 DEF Typing, TypeOK, StreamsHaveAccount, NoRefresh, RefreshRec
<1>2. ASSUME NEW a \in missing, NEW s \in StreamId,
             streams' = [m EXCEPT ![a] = s],
             obj' = [o EXCEPT ![s] = [NoStream EXCEPT !.addr = a, !.conn = running]],
             refresh' = [refresh EXCEPT ![r] = [pc |-> "loop", todo |-> missing \ {a},
                                                on |-> IF running THEN s ELSE None]],
             UNCHANGED <<refreshTimer, starter>>
      PROVE  /\ streams' \in [Addr -> StreamId \cup {None}]
             /\ obj' \in [StreamId -> StreamRec]
             /\ StreamsHaveAccount'
             /\ refresh' \in [Refresher -> RefreshRec]
             /\ refreshTimer' \in BOOLEAN
             /\ starter' \in Refresher \cup {None}
  <2>1. a \in Addr /\ missing \ {a} \in SUBSET Addr /\ running \in BOOLEAN
    BY DEF Typing, TypeOK
  <2>2. [NoStream EXCEPT !.addr = a, !.conn = running] \in StreamRec
    BY <2>1 DEF NoStream, StreamRec
  <2>3. [pc |-> "loop", todo |-> missing \ {a}, on |-> IF running THEN s ELSE None]
          \in RefreshRec
    BY <2>1 DEF RefreshRec
  <2>4. \A t \in StreamId : obj'[t].sse \/ obj'[t].timer \/ obj'[t].conn => obj'[t].addr \in Addr
    BY <1>2, <2>1 DEF NoStream, StreamRec
  <2> HIDE DEF missing
  <2> QED
    BY <1>2, <2>1, <2>2, <2>3, <2>4 DEF Typing, TypeOK, StreamsHaveAccount
<1> QED
  BY <1>1, <1>2 DEF NextAccount

\* After an exit nothing of the process is left.
LEMMA ExitTyping ==
  ASSUME Typing, Exit
  PROVE  /\ up' \in BOOLEAN /\ running' \in BOOLEAN /\ refreshTimer' \in BOOLEAN
         /\ starter' \in Refresher \cup {None}
         /\ streams' \in [Addr -> StreamId \cup {None}]
         /\ obj' \in [StreamId -> StreamRec] /\ StreamsHaveAccount'
         /\ refresh' \in [Refresher -> RefreshRec]
         /\ hs' \in [Handler -> HandlerRec]
<1>1. /\ NoStream \in StreamRec /\ NoRefresh \in RefreshRec /\ NoHandler \in HandlerRec
      /\ ~NoStream.sse /\ ~NoStream.timer /\ ~NoStream.conn
  BY DEF NoStream, NoRefresh, NoHandler, StreamRec, RefreshRec, HandlerRec
<1> QED
  BY <1>1 DEF Exit, StreamsHaveAccount

LEMMA SpendTyping ==
  ASSUME Typing, NEW k \in FaultKind, Spend(k)
  PROVE  budget' \in [FaultKind -> Nat]
BY DEF Typing, TypeOK, Spend

LEMMA StopAccountsTyping ==
  ASSUME Typing, NEW S
  PROVE  /\ StopAccounts(S) \in [StreamId -> StreamRec]
         /\ \A s \in StreamId : StopAccounts(S)[s].sse \/ StopAccounts(S)[s].timer
              \/ StopAccounts(S)[s].conn => StopAccounts(S)[s].addr \in Addr
<1>1. \A s \in StreamId : /\ obj[s] \in StreamRec
                          /\ obj[s].sse \/ obj[s].timer \/ obj[s].conn => obj[s].addr \in Addr
  BY DEF Typing, TypeOK, StreamsHaveAccount
<1>2. \A s \in StreamId : /\ [obj[s] EXCEPT !.timer = FALSE, !.sse = FALSE] \in StreamRec
                          /\ [obj[s] EXCEPT !.timer = FALSE, !.sse = FALSE].addr = obj[s].addr
                          /\ [obj[s] EXCEPT !.timer = FALSE, !.sse = FALSE].conn = obj[s].conn
                          /\ ~[obj[s] EXCEPT !.timer = FALSE, !.sse = FALSE].sse
                          /\ ~[obj[s] EXCEPT !.timer = FALSE, !.sse = FALSE].timer
  BY <1>1 DEF StreamRec
<1> QED
  BY <1>1, <1>2 DEF StopAccounts

LEMMA ResumedTyping ==
  ASSUME Typing, NEW s \in StreamId
  PROVE  Resumed(s) \in [Refresher -> RefreshRec]
<1>1. \A r \in Refresher : refresh[r] \in RefreshRec /\ [refresh[r] EXCEPT !.on = None] \in RefreshRec
  BY RefreshUpdates DEF Typing, TypeOK
<1> QED
  BY <1>1 DEF Resumed

\* The handler's catch, whatever else the action does.
LEMMA GiveUpTyping ==
  ASSUME Typing, NEW h \in Handler, hs[h].pc # "idle", GiveUp(h)
  PROVE  hs' \in [Handler -> HandlerRec] /\ failed' \in [Addr -> SUBSET Nat]
<1>1. NoHandler \in HandlerRec /\ hs[h].op \in Nat
  BY DEF NoHandler, HandlerRec, Typing, TypeOK
<1> QED
  BY <1>1 DEF Typing, TypeOK, GiveUp

LEMMA EnvTyping ==
  ASSUME Typing,
         \/ \E a \in Addr, k \in Kind : Arrive(a, k)
         \/ \E a \in Addr, st \in AccountStatus : SetAccount(a, st)
         \/ \E r \in Refresher : Start(r)
         \/ Crash \/ Stop \/ ShutDown
  PROVE  Typing'
<1>1. ASSUME NEW a \in Addr, NEW k \in Kind, Arrive(a, k) PROVE Typing'
  <2>1. ledger' \in [Addr -> Seq(Kind)]
    BY <1>1 DEF Arrive, Typing, TypeOK
  <2> QED
    BY <1>1, <2>1 DEF Arrive, Typing, TypeOK, StreamsHaveAccount, dbVars, procVars
<1>2. ASSUME NEW a \in Addr, NEW st \in AccountStatus, SetAccount(a, st) PROVE Typing'
  <2>1. budget' \in [FaultKind -> Nat]
    BY <1>2, SpendTyping DEF SetAccount, FaultKind
  <2> QED
    BY <1>2, <2>1 DEF SetAccount, Typing, TypeOK, StreamsHaveAccount, procVars
<1>3. ASSUME NEW r \in Refresher, Start(r) PROVE Typing'
  <2>1. refresh' \in [Refresher -> RefreshRec]
    <3>1. [refresh[r] EXCEPT !.pc = "query"] \in RefreshRec
      BY RefreshUpdates DEF Typing, TypeOK
    <3> QED
      BY <1>3, <3>1 DEF Start, Typing, TypeOK
  <2> QED
    BY <1>3, <2>1 DEF Start, Typing, TypeOK, StreamsHaveAccount, dbVars
<1>4. CASE Crash
  <2>1. budget' \in [FaultKind -> Nat]
    BY <1>4, SpendTyping DEF Crash, FaultKind
  <2> QED
    BY <1>4, <2>1, ExitTyping DEF Crash, Typing, TypeOK, dbVars
<1>5. CASE Stop
  <2>1. budget' \in [FaultKind -> Nat]
    BY <1>5, SpendTyping DEF Stop, FaultKind
  <2>2. obj' \in [StreamId -> StreamRec] /\ StreamsHaveAccount'
    BY <1>5, StopAccountsTyping DEF Stop, StreamsHaveAccount
  <2> QED
    BY <1>5, <2>1, <2>2 DEF Stop, Typing, TypeOK, dbVars
<1>6. CASE ShutDown
  BY <1>6, ExitTyping DEF ShutDown, Typing, TypeOK, dbVars
<1> QED
  BY <1>1, <1>2, <1>3, <1>4, <1>5, <1>6

LEMMA RefreshTyping ==
  ASSUME Typing, NEW r \in Refresher, RefreshStep(r)
  PROVE  Typing'
<1>1. CASE RefreshTick(r)
  <2>1. refresh' \in [Refresher -> RefreshRec]
    <3>1. [refresh[r] EXCEPT !.pc = "query"] \in RefreshRec
      BY RefreshUpdates DEF Typing, TypeOK
    <3> QED
      BY <1>1, <3>1 DEF RefreshTick, Typing, TypeOK
  <2>2. budget' \in [FaultKind -> Nat]
    <3>1. "overlap" \in FaultKind
      BY DEF FaultKind
    <3>2. budget' = budget \/ Spend("overlap")
      BY <1>1 DEF RefreshTick
    <3> QED
      BY <3>1, <3>2, SpendTyping DEF Typing, TypeOK
  <2> QED
    BY <1>1, <2>1, <2>2 DEF RefreshTick, Typing, TypeOK, StreamsHaveAccount, dbVars
<1>2. CASE RefreshQuery(r)
  <2>1. refresh' \in [Refresher -> RefreshRec]
    <3>1. [refresh[r] EXCEPT !.pc = "reconcile", !.todo = Registered] \in RefreshRec
      BY RefreshUpdates DEF Typing, TypeOK, Registered
    <3> QED
      BY <1>2, <3>1 DEF RefreshQuery, Typing, TypeOK
  <2> QED
    BY <1>2, <2>1 DEF RefreshQuery, Typing, TypeOK, StreamsHaveAccount, dbVars
<1>3. CASE RefreshQueryFails(r)
  <2>1. budget' \in [FaultKind -> Nat]
    BY <1>3, SpendTyping DEF RefreshQueryFails, FaultKind
  <2>2. CASE Exit
    BY <1>3, <2>1, <2>2, ExitTyping DEF RefreshQueryFails, Typing, TypeOK, dbVars
  <2>3. CASE /\ refresh' = [refresh EXCEPT ![r] = NoRefresh]
             /\ starter' = IF r = starter THEN None ELSE starter
             /\ UNCHANGED <<up, running, refreshTimer, streams, obj, hs>>
    <3>1. NoRefresh \in RefreshRec
      BY DEF NoRefresh, RefreshRec
    <3> QED
      BY <1>3, <2>1, <2>3, <3>1
      DEF RefreshQueryFails, Typing, TypeOK, StreamsHaveAccount, dbVars
  <2> QED
    BY <1>3, <2>2, <2>3 DEF RefreshQueryFails
<1>4. CASE RefreshReconcile(r)
  <2> DEFINE todo == refresh[r].todo
             unwanted == {a \in Addr \ todo : streams[a] # None}
             m == [a \in Addr |-> IF a \in unwanted THEN None ELSE streams[a]]
             o == StopAccounts({streams[a] : a \in unwanted})
  <2>1. todo \in SUBSET Addr /\ m \in [Addr -> StreamId \cup {None}]
    BY DEF Typing, TypeOK, RefreshRec
  <2>2. NextAccount(r, todo, m, o)
    BY <1>4 DEF RefreshReconcile
  <2>3. /\ o \in [StreamId -> StreamRec]
        /\ \A s \in StreamId : o[s].sse \/ o[s].timer \/ o[s].conn => o[s].addr \in Addr
    BY StopAccountsTyping
  <2> HIDE DEF todo, m, o, unwanted
  <2> QED
    BY <1>4, <2>1, <2>2, <2>3, NextAccountTyping DEF RefreshReconcile, Typing, TypeOK, dbVars
<1>5. CASE RefreshNext(r)
  <2>1. NextAccount(r, refresh[r].todo, streams, obj)
    BY <1>5 DEF RefreshNext
  <2>2. /\ refresh[r].todo \in SUBSET Addr /\ streams \in [Addr -> StreamId \cup {None}]
        /\ obj \in [StreamId -> StreamRec]
        /\ \A s \in StreamId : obj[s].sse \/ obj[s].timer \/ obj[s].conn => obj[s].addr \in Addr
    BY DEF Typing, TypeOK, StreamsHaveAccount, RefreshRec
  <2> QED
    BY <1>5, <2>1, <2>2, NextAccountTyping DEF RefreshNext, Typing, TypeOK, dbVars
<1> QED
  BY <1>1, <1>2, <1>3, <1>4, <1>5 DEF RefreshStep

LEMMA StreamUpdates ==
  ASSUME NEW x \in StreamRec
  PROVE  /\ \A p \in Nat : [x EXCEPT !.conn = FALSE, !.sse = TRUE, !.pos = p] \in StreamRec
         /\ [x EXCEPT !.conn = FALSE] \in StreamRec
         /\ Rescheduled(x) \in StreamRec
         /\ Rescheduled([x EXCEPT !.conn = FALSE]) \in StreamRec
         /\ \A b \in BOOLEAN : /\ [x EXCEPT !.timer = FALSE, !.conn = b] \in StreamRec
                              /\ [x EXCEPT !.timer = FALSE, !.conn = b].addr = x.addr
         /\ \A p \in Nat : [x EXCEPT !.pos = p] \in StreamRec
         /\ [x EXCEPT !.conn = FALSE].addr = x.addr
         /\ Rescheduled(x).addr = x.addr
         /\ Rescheduled([x EXCEPT !.conn = FALSE]).addr = x.addr
BY DEF StreamRec, Rescheduled

\* Replacing one stream object by one of the same account that is alive.
LEMMA StreamReplaced ==
  ASSUME Typing, NEW s \in StreamId, NEW x \in StreamRec, x.addr \in Addr,
         obj' = [obj EXCEPT ![s] = x]
  PROVE  obj' \in [StreamId -> StreamRec] /\ StreamsHaveAccount'
BY DEF Typing, TypeOK, StreamsHaveAccount

LEMMA ConnectTyping ==
  ASSUME Typing, NEW s \in StreamId, NEW p \in Nat, obj[s].conn, Connect(s, p),
         budget' \in [FaultKind -> Nat]
  PROVE  Typing'
<1> DEFINE x == [obj[s] EXCEPT !.conn = FALSE, !.sse = TRUE, !.pos = p]
<1>1. obj[s] \in StreamRec /\ obj[s].addr \in Addr
  BY DEF Typing, TypeOK, StreamsHaveAccount
<1>2. x \in StreamRec /\ x.addr \in Addr
  <2>1. x \in StreamRec
    BY <1>1, StreamUpdates
  <2>2. x.addr = obj[s].addr
    BY <1>1 DEF StreamRec
  <2> QED
    BY <1>1, <2>1, <2>2
<1>3. obj' = [obj EXCEPT ![s] = x]
  BY DEF Connect
<1>4. obj' \in [StreamId -> StreamRec] /\ StreamsHaveAccount'
  <2> HIDE DEF x
  <2> QED
    BY <1>2, <1>3, StreamReplaced
<1>5. refresh' \in [Refresher -> RefreshRec]
  BY ResumedTyping DEF Connect
<1> QED
  BY <1>4, <1>5 DEF Connect, Typing, TypeOK, dbVars

LEMMA StreamTyping ==
  ASSUME Typing, NEW s \in StreamId, StreamStep(s)
  PROVE  Typing'
<1>1. obj[s] \in StreamRec /\ running \in BOOLEAN
  BY DEF Typing, TypeOK
<1>2. obj[s].sse \/ obj[s].timer \/ obj[s].conn => obj[s].addr \in Addr
  BY DEF Typing, StreamsHaveAccount
<1>3. \A a \in Addr : Now(a) \in Nat /\ SavedPos(a) \in Nat
  BY DEF Typing, TypeOK, Now, SavedPos
<1>4. CASE ConnectSaved(s)
  BY <1>2, <1>3, <1>4, ConnectTyping DEF ConnectSaved, Typing, TypeOK
<1>5. CASE ConnectRedisDown(s)
  <2>1. budget' \in [FaultKind -> Nat]
    BY <1>5, SpendTyping DEF ConnectRedisDown, FaultKind
  <2> QED
    BY <1>2, <1>3, <1>5, <2>1, ConnectTyping DEF ConnectRedisDown
<1>6. CASE ConnectThrows(s)
  <2> DEFINE y == [obj[s] EXCEPT !.conn = FALSE]
             x == IF MayReschedule(s) THEN Rescheduled(y) ELSE y
  <2>1. budget' \in [FaultKind -> Nat]
    BY <1>6, SpendTyping DEF ConnectThrows, FaultKind
  <2>2. x \in StreamRec /\ x.addr \in Addr
    BY <1>1, <1>2, <1>6, StreamUpdates DEF ConnectThrows
  <2>3. obj' = [obj EXCEPT ![s] = x]
    BY <1>6 DEF ConnectThrows
  <2>4. obj' \in [StreamId -> StreamRec] /\ StreamsHaveAccount'
    <3> HIDE DEF x
    <3> QED
      BY <2>2, <2>3, StreamReplaced
  <2>5. refresh' \in [Refresher -> RefreshRec]
    BY <1>6, ResumedTyping DEF ConnectThrows
  <2> QED
    BY <1>6, <2>1, <2>4, <2>5 DEF ConnectThrows, Typing, TypeOK, dbVars
<1>7. CASE SseError(s)
  <2>1. budget' \in [FaultKind -> Nat]
    BY <1>7, SpendTyping DEF SseError, FaultKind
  <2>2. Rescheduled(obj[s]) \in StreamRec /\ Rescheduled(obj[s]).addr \in Addr
    BY <1>1, <1>2, <1>7, StreamUpdates DEF SseError
  <2>3. obj' = [obj EXCEPT ![s] = Rescheduled(obj[s])]
    BY <1>7 DEF SseError
  <2>4. obj' \in [StreamId -> StreamRec] /\ StreamsHaveAccount'
    <3> DEFINE x == Rescheduled(obj[s])
    <3>1. x \in StreamRec /\ x.addr \in Addr /\ obj' = [obj EXCEPT ![s] = x]
      BY <2>2, <2>3
    <3> HIDE DEF x
    <3> QED
      BY <3>1, StreamReplaced
  <2> QED
    BY <1>7, <2>1, <2>4 DEF SseError, Typing, TypeOK, dbVars
<1>8. CASE TimerFires(s)
  <2> DEFINE x == [obj[s] EXCEPT !.timer = FALSE, !.conn = running /\ Has(s)]
  <2>1. x \in StreamRec /\ x.addr \in Addr
    <3>1. obj[s].addr \in Addr
      BY <1>2, <1>8 DEF TimerFires
    <3>2. (running /\ Has(s)) \in BOOLEAN
      BY <1>1
    <3> QED
      BY <1>1, <3>1, <3>2, StreamUpdates
  <2>2. obj' = [obj EXCEPT ![s] = x]
    BY <1>8 DEF TimerFires
  <2>3. obj' \in [StreamId -> StreamRec] /\ StreamsHaveAccount'
    <3> HIDE DEF x
    <3> QED
      BY <2>1, <2>2, StreamReplaced
  <2> QED
    BY <1>8, <2>3 DEF TimerFires, Typing, TypeOK, dbVars
<1>9. CASE Ignore(s)
  <2> DEFINE x == [obj[s] EXCEPT !.pos = obj[s].pos + 1]
  <2>1. x \in StreamRec /\ x.addr \in Addr
    <3>1. obj[s].pos + 1 \in Nat
      BY <1>1 DEF StreamRec
    <3>2. x \in StreamRec
      BY <1>1, <3>1, StreamUpdates
    <3>3. x.addr = obj[s].addr
      BY <1>1 DEF StreamRec
    <3> QED
      BY <1>2, <1>9, <3>2, <3>3 DEF Ignore
  <2>2. obj' = [obj EXCEPT ![s] = x]
    BY <1>9 DEF Ignore
  <2>3. obj' \in [StreamId -> StreamRec] /\ StreamsHaveAccount'
    <3> HIDE DEF x
    <3> QED
      BY <2>1, <2>2, StreamReplaced
  <2> QED
    BY <1>9, <2>3 DEF Ignore, Typing, TypeOK, dbVars
<1> QED
  BY <1>4, <1>5, <1>6, <1>7, <1>8, <1>9 DEF StreamStep

LEMMA DeliverTyping ==
  ASSUME Typing, NEW s \in StreamId, NEW h \in Handler, Deliver(s, h)
  PROVE  Typing'
<1> DEFINE i == obj[s].pos + 1
           x == [obj[s] EXCEPT !.pos = i]
           y == [NoHandler EXCEPT !.pc = "check", !.addr = obj[s].addr, !.op = i]
<1>1. obj[s] \in StreamRec /\ obj[s].addr \in Addr /\ i \in Nat
  BY DEF Deliver, Typing, TypeOK, StreamsHaveAccount, StreamRec
<1>2. x \in StreamRec /\ x.addr \in Addr
  <2>1. x \in StreamRec
    BY <1>1, StreamUpdates
  <2>2. x.addr = obj[s].addr
    BY <1>1 DEF StreamRec
  <2> QED
    BY <1>1, <2>1, <2>2
<1>3. y \in HandlerRec
  BY <1>1 DEF NoHandler, HandlerRec
<1>4. obj' = [obj EXCEPT ![s] = x] /\ hs' = [hs EXCEPT ![h] = y]
  BY DEF Deliver
<1> HIDE DEF x, y
<1>5. obj' \in [StreamId -> StreamRec] /\ StreamsHaveAccount'
  BY <1>2, <1>4, StreamReplaced
<1>6. hs' \in [Handler -> HandlerRec]
  BY <1>3, <1>4 DEF Typing, TypeOK
<1> QED
  BY <1>5, <1>6 DEF Deliver, Typing, TypeOK, dbVars

LEMMA HandlerUpdates ==
  ASSUME NEW x \in HandlerRec
  PROVE  /\ \A p \in {"cursor", "lock", "notify"} : [x EXCEPT !.pc = p] \in HandlerRec
         /\ \A n \in Nat : [x EXCEPT !.pc = "write", !.read = n] \in HandlerRec
         /\ [x EXCEPT !.pc = "cursor", !.fresh = TRUE] \in HandlerRec
         /\ NoHandler \in HandlerRec
BY DEF HandlerRec, NoHandler

LEMMA HandlerTyping ==
  ASSUME Typing, NEW h \in Handler, hs[h].pc # "idle" => hs[h].addr \in Addr, HandlerStep(h)
  PROVE  Typing'
<1>1. hs[h] \in HandlerRec /\ hs[h].op \in Nat
  BY DEF Typing, TypeOK, HandlerRec
<1>2. /\ obj' = obj => StreamsHaveAccount'
      /\ hs[h].addr \in Addr => balance[hs[h].addr] \in Nat /\ hs[h].read + 1 \in Nat
  BY DEF Typing, TypeOK, StreamsHaveAccount, HandlerRec
<1>3. ASSUME NEW x \in HandlerRec, hs' = [hs EXCEPT ![h] = x]
      PROVE  hs' \in [Handler -> HandlerRec]
  BY <1>3 DEF Typing, TypeOK
<1>4. CASE CheckFingerprint(h)
  <2>1. hs' \in [Handler -> HandlerRec]
    BY <1>1, <1>3, <1>4, HandlerUpdates DEF CheckFingerprint
  <2> QED
    BY <1>2, <1>4, <2>1 DEF CheckFingerprint, Typing, TypeOK, dbVars, procVars
<1>5. CASE LockAccount(h)
  <2>1. [hs[h] EXCEPT !.pc = "write", !.read = balance[hs[h].addr]] \in HandlerRec
    BY <1>1, <1>2, <1>5, HandlerUpdates DEF LockAccount
  <2>2. hs' \in [Handler -> HandlerRec]
    BY <1>3, <1>5, <2>1 DEF LockAccount
  <2> QED
    BY <1>2, <1>5, <2>2 DEF LockAccount, Typing, TypeOK, dbVars, procVars
<1>6. CASE NoAccount(h)
  BY <1>2, <1>6, GiveUpTyping DEF NoAccount, Typing, TypeOK, dbVars, procVars
<1>7. CASE Commit(h)
  <2>1. hs' \in [Handler -> HandlerRec]
    <3>1. [hs[h] EXCEPT !.pc = "cursor", !.fresh = TRUE] \in HandlerRec
      BY <1>1, HandlerUpdates
    <3> QED
      BY <1>3, <1>7, <3>1 DEF Commit
  <2>2. balance' \in [Addr -> Nat] /\ credited' \in [Addr -> SUBSET Nat]
    BY <1>1, <1>2, <1>7 DEF Commit, Typing, TypeOK
  <2> QED
    BY <1>2, <1>7, <2>1, <2>2 DEF Commit, Typing, TypeOK, procVars
<1>8. CASE UniqueViolation(h)
  BY <1>2, <1>8, GiveUpTyping DEF UniqueViolation, Typing, TypeOK, dbVars, procVars
<1>9. CASE DbFails(h)
  <2>1. budget' \in [FaultKind -> Nat]
    BY <1>9, SpendTyping DEF DbFails, FaultKind
  <2> QED
    BY <1>2, <1>9, <2>1, GiveUpTyping DEF DbFails, Typing, TypeOK, dbVars, procVars
<1>10. CASE SaveCursor(h)
  <2>1. hs' \in [Handler -> HandlerRec]
    BY <1>1, <1>3, <1>10, HandlerUpdates DEF SaveCursor
  <2>2. cursor' \in [Addr -> Nat \cup {None}]
    BY <1>1, <1>10 DEF SaveCursor, Typing, TypeOK
  <2> QED
    BY <1>2, <1>10, <2>1, <2>2 DEF SaveCursor, Typing, TypeOK, dbVars, procVars
<1>11. CASE SaveCursorFails(h)
  <2>1. budget' \in [FaultKind -> Nat]
    BY <1>11, SpendTyping DEF SaveCursorFails, FaultKind
  <2> QED
    BY <1>2, <1>11, <2>1, GiveUpTyping DEF SaveCursorFails, Typing, TypeOK, dbVars, procVars
<1>12. CASE Dispatch(h)
  <2>1. hs' \in [Handler -> HandlerRec]
    <3>1. hs' = [hs EXCEPT ![h] = NoHandler] /\ NoHandler \in HandlerRec
      BY <1>1, <1>12, HandlerUpdates DEF Dispatch
    <3> QED
      BY <1>3, <3>1
  <2>2. webhooks' \in [Addr -> [1..MaxOps -> Nat]]
    <3> DEFINE a == hs[h].addr
               w == [webhooks[a] EXCEPT ![hs[h].op] = @ + 1]
    <3>1. webhooks' = [webhooks EXCEPT ![a] = w]
      BY <1>12 DEF Dispatch
    <3>2. a \in Addr => w \in [1..MaxOps -> Nat]
      <4>1. a \in Addr => webhooks[a] \in [1..MaxOps -> Nat]
        BY DEF Typing, TypeOK
      <4>2. ASSUME NEW f \in [1..MaxOps -> Nat], NEW k \in Nat
            PROVE  [f EXCEPT ![k] = f[k] + 1] \in [1..MaxOps -> Nat]
        <5>1. \A j \in 1..MaxOps : f[j] \in Nat /\ f[j] + 1 \in Nat
          OBVIOUS
        <5> QED
          BY <5>1
      <4> QED
        BY <1>1, <4>1, <4>2
    <3> HIDE DEF w
    <3> QED
      BY <3>1, <3>2 DEF Typing, TypeOK
  <2> QED
    BY <1>2, <1>12, <2>1, <2>2 DEF Dispatch, Typing, TypeOK, dbVars, procVars
<1>13. CASE DispatchFails(h)
  <2>1. budget' \in [FaultKind -> Nat]
    BY <1>13, SpendTyping DEF DispatchFails, FaultKind
  <2> QED
    BY <1>2, <1>13, <2>1, GiveUpTyping DEF DispatchFails, Typing, TypeOK, dbVars, procVars
<1> QED
  BY <1>4, <1>5, <1>6, <1>7, <1>8, <1>9, <1>10, <1>11, <1>12, <1>13 DEF HandlerStep

-----------------------------------------------------------------------------
(* Credits *)

LEMMA InitCredit == Init => CreditInv
<1> SUFFICES ASSUME Init PROVE CreditInv
  OBVIOUS
<1>1. NoHandler.pc = "idle" /\ ~NoHandler.fresh
  BY DEF NoHandler
<1>2. HandlersHavePayment /\ WritersExclude /\ DoneIsCredited /\ FreshIsUnique
  BY <1>1 DEF Init, HandlersHavePayment, WritersExclude, DoneIsCredited, FreshIsUnique
<1>3. LedgerBounded
  <2>1. \A a \in Addr : Len(ledger[a]) = 0
    BY DEF Init
  <2> QED
    BY <2>1, MaxOpsAssumption DEF LedgerBounded
<1>4. CreditsFinite /\ BalanceMatchesCredits
  BY FS_EmptySet DEF Init, CreditsFinite, BalanceMatchesCredits
<1>5. AcknowledgedIsCredited /\ WebhookAtMostOnce
  BY MaxOpsAssumption DEF Init, AcknowledgedIsCredited, WebhookAtMostOnce
<1> QED
  BY <1>2, <1>3, <1>4, <1>5 DEF CreditInv

\* Steps that touch neither the ledger, the data nor a handler.
LEMMA QuietCredit ==
  ASSUME CreditInv, UNCHANGED <<ledger, dbVars, cursor, hs, webhooks>>
  PROVE  CreditInv'
BY DEF CreditInv, dbVars, LedgerBounded, CreditsFinite, HandlersHavePayment, WritersExclude,
       DoneIsCredited, FreshIsUnique, BalanceMatchesCredits, AcknowledgedIsCredited,
       WebhookAtMostOnce

\* Steps that only end handlers.
LEMMA EndCredit ==
  ASSUME CreditInv, UNCHANGED <<ledger, dbVars, cursor, webhooks>>,
         \A h \in Handler : hs'[h] = hs[h] \/ hs'[h] = NoHandler
  PROVE  CreditInv'
<1>1. NoHandler.pc = "idle" /\ ~NoHandler.fresh
  BY DEF NoHandler
<1>2. HandlersHavePayment'
  BY <1>1 DEF CreditInv, HandlersHavePayment
<1>3. WritersExclude'
  BY <1>1 DEF CreditInv, WritersExclude, dbVars
<1>4. DoneIsCredited'
  BY <1>1 DEF CreditInv, DoneIsCredited, dbVars
<1>5. FreshIsUnique'
  BY <1>1 DEF CreditInv, FreshIsUnique
<1> QED
  BY <1>2, <1>3, <1>4, <1>5
  DEF CreditInv, dbVars, LedgerBounded, CreditsFinite, BalanceMatchesCredits,
      AcknowledgedIsCredited, WebhookAtMostOnce

LEMMA ExitEnds ==
  ASSUME Exit
  PROVE  \A h \in Handler : hs'[h] = NoHandler
BY DEF Exit

LEMMA GiveUpEnds ==
  ASSUME Typing, NEW h \in Handler, GiveUp(h)
  PROVE  \A g \in Handler : hs'[g] = hs[g] \/ hs'[g] = NoHandler
BY DEF GiveUp, Typing, TypeOK

\* Horizon appends: payments already in the ledger stay where they are.
LEMMA ArriveCredit ==
  ASSUME Typing, CreditInv, NEW a \in Addr, NEW k \in Kind, Arrive(a, k)
  PROVE  CreditInv'
<1>1. \A b \in Addr : /\ ledger[b] \in Seq(Kind)
                      /\ ledger'[b] = IF b = a THEN Append(ledger[b], k) ELSE ledger[b]
  BY DEF Arrive, Typing, TypeOK
<1>2. \A b \in Addr : \A i \in DOMAIN ledger[b] :
         i \in DOMAIN ledger'[b] /\ ledger'[b][i] = ledger[b][i]
  <2> SUFFICES ASSUME NEW b \in Addr, NEW i \in DOMAIN ledger[b]
               PROVE  i \in DOMAIN ledger'[b] /\ ledger'[b][i] = ledger[b][i]
    OBVIOUS
  <2>1. ledger[b] \in Seq(Kind) /\ k \in Kind
    BY <1>1
  <2>2. i \in DOMAIN Append(ledger[b], k) /\ Append(ledger[b], k)[i] = ledger[b][i]
    BY <2>1
  <2> QED
    BY <1>1, <2>2
<1>3. HandlersHavePayment'
  BY <1>2 DEF CreditInv, HandlersHavePayment, Arrive
<1>4. LedgerBounded'
  <2> SUFFICES ASSUME NEW b \in Addr PROVE Len(ledger'[b]) <= MaxOps
    BY DEF LedgerBounded
  <2>1. CASE b = a
    <3>1. Len(Append(ledger[a], k)) = Len(ledger[a]) + 1 /\ Len(ledger[a]) \in Nat
      BY <1>1
    <3> QED
      BY <1>1, <2>1, <3>1, MaxOpsAssumption DEF Arrive
  <2>2. CASE b # a
    BY <1>1, <2>2 DEF CreditInv, LedgerBounded
  <2> QED
    BY <2>1, <2>2
<1> QED
  BY <1>3, <1>4
  DEF Arrive, CreditInv, dbVars, CreditsFinite, WritersExclude, DoneIsCredited, FreshIsUnique,
      BalanceMatchesCredits, AcknowledgedIsCredited, WebhookAtMostOnce

LEMMA SetAccountCredit ==
  ASSUME Typing, CreditInv, NEW a \in Addr, NEW st \in AccountStatus, SetAccount(a, st)
  PROVE  CreditInv'
<1>1. WritersExclude'
  <2>1. \A h \in Handler : hs[h].pc = "write" => account'[hs[h].addr] = account[hs[h].addr]
    BY DEF SetAccount, RowLocked, Typing, TypeOK, CreditInv, HandlersHavePayment
  <2> QED
    BY <2>1 DEF SetAccount, CreditInv, WritersExclude
<1> QED
  BY <1>1
  DEF SetAccount, CreditInv, LedgerBounded, CreditsFinite, HandlersHavePayment, DoneIsCredited,
      FreshIsUnique, BalanceMatchesCredits, AcknowledgedIsCredited, WebhookAtMostOnce

LEMMA DeliverCredit ==
  ASSUME Typing, CreditInv, NEW s \in StreamId, NEW h \in Handler, Deliver(s, h)
  PROVE  CreditInv'
<1> DEFINE a == obj[s].addr
           i == obj[s].pos + 1
<1>1. a \in Addr /\ i \in DOMAIN ledger[a] /\ ledger[a][i] = "in"
  <2>1. a \in Addr /\ obj[s].pos \in Nat
    BY DEF Deliver, Typing, TypeOK, StreamsHaveAccount, StreamRec
  <2>2. ledger[a] \in Seq(Kind)
    BY <2>1 DEF Typing, TypeOK
  <2> QED
    BY <2>1, <2>2 DEF Deliver
<1>2. /\ hs'[h].pc = "check" /\ hs'[h].addr = a /\ hs'[h].op = i /\ ~hs'[h].fresh
      /\ \A g \in Handler \ {h} : hs'[g] = hs[g]
  BY DEF Deliver, Typing, TypeOK, NoHandler, HandlerRec
<1>3. HandlersHavePayment'
  BY <1>1, <1>2 DEF Deliver, CreditInv, HandlersHavePayment
<1>4. WritersExclude' /\ DoneIsCredited'
  BY <1>2 DEF Deliver, CreditInv, WritersExclude, DoneIsCredited, dbVars
<1>5. FreshIsUnique'
  BY <1>2 DEF Deliver, CreditInv, FreshIsUnique
<1> QED
  BY <1>3, <1>4, <1>5
  DEF Deliver, CreditInv, dbVars, LedgerBounded, CreditsFinite,
      BalanceMatchesCredits, AcknowledgedIsCredited, WebhookAtMostOnce

\* A handler moves inside its transaction: it neither commits nor writes.
LEMMA CheckCredit ==
  ASSUME Typing, CreditInv, NEW h \in Handler, CheckFingerprint(h)
  PROVE  CreditInv'
<1>1. /\ hs'[h].pc \in {"cursor", "lock"} /\ hs'[h].addr = hs[h].addr
      /\ hs'[h].op = hs[h].op /\ hs'[h].fresh = hs[h].fresh
      /\ hs'[h].pc = "cursor" => hs[h].op \in credited[hs[h].addr]
      /\ \A g \in Handler \ {h} : hs'[g] = hs[g]
      /\ hs[h].pc = "check"
  BY DEF CheckFingerprint, Typing, TypeOK, HandlerRec
<1>2. HandlersHavePayment' /\ DoneIsCredited'
  BY <1>1 DEF CheckFingerprint, CreditInv, HandlersHavePayment, DoneIsCredited, dbVars
<1>3. WritersExclude'
  BY <1>1 DEF CheckFingerprint, CreditInv, WritersExclude, dbVars
<1>4. FreshIsUnique'
  BY <1>1 DEF CheckFingerprint, CreditInv, FreshIsUnique
<1> QED
  BY <1>2, <1>3, <1>4
  DEF CheckFingerprint, CreditInv, dbVars, LedgerBounded, CreditsFinite,
      BalanceMatchesCredits, AcknowledgedIsCredited, WebhookAtMostOnce

LEMMA LockCredit ==
  ASSUME Typing, CreditInv, NEW h \in Handler, LockAccount(h)
  PROVE  CreditInv'
<1>1. /\ hs'[h].pc = "write" /\ hs'[h].addr = hs[h].addr /\ hs'[h].op = hs[h].op
      /\ hs'[h].fresh = hs[h].fresh /\ hs'[h].read = balance[hs[h].addr]
      /\ \A g \in Handler \ {h} : hs'[g] = hs[g]
      /\ hs[h].pc = "lock"
  BY DEF LockAccount, Typing, TypeOK, HandlerRec
<1>2. /\ UNCHANGED <<ledger, dbVars, cursor, webhooks>>
      /\ account[hs[h].addr] # "inactive"
      /\ \A g \in Handler : ~(hs[g].pc = "write" /\ hs[g].addr = hs[h].addr)
  BY DEF LockAccount, RowLocked
<1>3. HandlersHavePayment' /\ DoneIsCredited'
  BY <1>1, <1>2 DEF CreditInv, HandlersHavePayment, DoneIsCredited, dbVars
<1>4. WritersExclude'
  BY <1>1, <1>2 DEF CreditInv, WritersExclude, dbVars
<1>5. FreshIsUnique'
  BY <1>1, <1>2 DEF CreditInv, FreshIsUnique
<1> QED
  BY <1>2, <1>3, <1>4, <1>5
  DEF CreditInv, dbVars, LedgerBounded, CreditsFinite,
      BalanceMatchesCredits, AcknowledgedIsCredited, WebhookAtMostOnce

\* The commit adds one operation to the recorded credits and one to the balance
\* that is stored now.
LEMMA CommitEffect ==
  ASSUME Typing, CreditInv, NEW h \in Handler, Commit(h)
  PROVE  LET a == hs[h].addr
             i == hs[h].op
         IN  /\ a \in Addr /\ i \in DOMAIN ledger[a] /\ ledger[a][i] = "in"
             /\ i \in Nat /\ i \notin credited[a] /\ account[a] # "inactive"
             /\ credited' = [credited EXCEPT ![a] = @ \cup {i}]
             /\ balance'  = [balance EXCEPT ![a] = @ + 1]
<1>1. /\ hs[h].pc = "write" /\ hs[h].addr \in Addr
      /\ hs[h].op \in DOMAIN ledger[hs[h].addr] /\ ledger[hs[h].addr][hs[h].op] = "in"
  BY DEF Commit, CreditInv, HandlersHavePayment
<1>2. hs[h].read = balance[hs[h].addr] /\ account[hs[h].addr] # "inactive"
  BY <1>1 DEF CreditInv, WritersExclude
<1>3. hs[h].op \in Nat
  BY DEF Typing, TypeOK, HandlerRec
<1> QED
  BY <1>1, <1>2, <1>3 DEF Commit

LEMMA CommitCredit ==
  ASSUME Typing, CreditInv, NEW h \in Handler, Commit(h)
  PROVE  CreditInv'
<1> DEFINE a == hs[h].addr
           i == hs[h].op
<1>1. /\ a \in Addr /\ i \in DOMAIN ledger[a] /\ ledger[a][i] = "in"
      /\ i \in Nat /\ i \notin credited[a]
      /\ credited' = [credited EXCEPT ![a] = @ \cup {i}]
      /\ balance'  = [balance EXCEPT ![a] = @ + 1]
  BY CommitEffect
<1>2. /\ hs'[h].pc = "cursor" /\ hs'[h].addr = a /\ hs'[h].op = i /\ hs'[h].fresh
      /\ \A g \in Handler \ {h} : hs'[g] = hs[g]
      /\ hs[h].pc = "write"
      /\ UNCHANGED <<ledger, account, cursor, webhooks>>
  BY DEF Commit, Typing, TypeOK, HandlerRec
<1>3. /\ \A b \in Addr : credited'[b] = IF b = a THEN credited[b] \cup {i} ELSE credited[b]
      /\ \A b \in Addr : balance'[b] = IF b = a THEN balance[b] + 1 ELSE balance[b]
  BY <1>1 DEF Typing, TypeOK
<1> HIDE DEF a, i
<1>4. CreditsFinite' /\ BalanceMatchesCredits'
  <2> SUFFICES ASSUME NEW b \in Addr
               PROVE  IsFiniteSet(credited'[b]) /\ balance'[b] = Cardinality(credited'[b])
    BY DEF CreditsFinite, BalanceMatchesCredits
  <2>1. IsFiniteSet(credited[b]) /\ balance[b] = Cardinality(credited[b])
    BY DEF CreditInv, CreditsFinite, BalanceMatchesCredits
  <2>2. CASE b = a
    <3>1. /\ IsFiniteSet(credited[a] \cup {i})
          /\ Cardinality(credited[a] \cup {i}) = Cardinality(credited[a]) + 1
      BY <1>1, <2>1, <2>2, FS_AddElement
    <3> QED
      BY <1>3, <2>1, <2>2, <3>1
  <2>3. CASE b # a
    BY <1>3, <2>1, <2>3
  <2> QED
    BY <2>2, <2>3
<1>5. HandlersHavePayment'
  BY <1>1, <1>2 DEF CreditInv, HandlersHavePayment
<1>6. WritersExclude'
  <2> SUFFICES ASSUME NEW g \in Handler, hs'[g].pc = "write"
               PROVE  /\ hs'[g].read = balance'[hs'[g].addr]
                      /\ account'[hs'[g].addr] # "inactive"
                      /\ \A k \in Handler :
                           hs'[k].pc = "write" /\ hs'[k].addr = hs'[g].addr => k = g
    BY DEF WritersExclude
  <2>1. g # h /\ hs'[g] = hs[g]
    BY <1>2
  <2>2. hs[g].addr \in Addr /\ hs[g].addr # a
    BY <1>2, <2>1 DEF CreditInv, HandlersHavePayment, WritersExclude, a
  <2> QED
    BY <1>2, <1>3, <2>1, <2>2 DEF CreditInv, WritersExclude
<1>7. DoneIsCredited'
  <2> SUFFICES ASSUME NEW g \in Handler, hs'[g].pc \in {"cursor", "notify"}
               PROVE  hs'[g].op \in credited'[hs'[g].addr]
    BY DEF DoneIsCredited
  <2>1. CASE g = h
    <3>1. credited'[a] = credited[a] \cup {i}
      BY <1>1, <1>3
    <3>2. hs'[g].addr = a /\ hs'[g].op = i
      BY <1>2, <2>1
    <3> QED
      BY <3>1, <3>2
  <2>2. CASE g # h
    <3>1. hs'[g] = hs[g]
      BY <1>2, <2>2
    <3>2. hs[g].addr \in Addr /\ hs[g].op \in credited[hs[g].addr]
      BY <3>1 DEF CreditInv, DoneIsCredited, HandlersHavePayment
    <3> QED
      BY <1>3, <3>1, <3>2
  <2> QED
    BY <2>1, <2>2
<1>8. \A g \in Handler : hs[g].fresh => ~(hs[g].addr = a /\ hs[g].op = i)
  BY <1>1 DEF CreditInv, FreshIsUnique, DoneIsCredited
<1>9. webhooks[a][i] = 0
  <2>1. i \in 1..MaxOps
    <3>1. ledger[a] \in Seq(Kind) /\ Len(ledger[a]) <= MaxOps
      BY <1>1 DEF Typing, TypeOK, CreditInv, LedgerBounded
    <3> QED
      BY <1>1, <3>1, MaxOpsAssumption
  <2>2. webhooks[a][i] \in Nat
    BY <1>1, <2>1 DEF Typing, TypeOK
  <2> QED
    BY <1>1, <2>1, <2>2 DEF CreditInv, WebhookAtMostOnce
<1>10. FreshIsUnique'
  <2> SUFFICES ASSUME NEW g \in Handler
               PROVE  /\ hs'[g].pc = "notify" => hs'[g].fresh
                      /\ hs'[g].fresh =>
                           /\ hs'[g].pc \in {"cursor", "notify"}
                           /\ webhooks'[hs'[g].addr][hs'[g].op] = 0
                           /\ \A k \in Handler :
                                hs'[k].fresh /\ hs'[k].addr = hs'[g].addr
                                  /\ hs'[k].op = hs'[g].op => k = g
    BY DEF FreshIsUnique
  <2>1. CASE g = h
    BY <1>2, <1>8, <1>9, <2>1
  <2>2. CASE g # h
    BY <1>2, <1>8, <2>2 DEF CreditInv, FreshIsUnique
  <2> QED
    BY <2>1, <2>2
<1>11. AcknowledgedIsCredited' /\ WebhookAtMostOnce'
  <2>1. \A b \in Addr : credited[b] \subseteq credited'[b]
    BY <1>3
  <2>2. cursor' = cursor /\ webhooks' = webhooks
    BY <1>2
  <2>3. AcknowledgedIsCredited'
    BY <2>1, <2>2 DEF CreditInv, AcknowledgedIsCredited
  <2> QED
    BY <2>1, <2>2, <2>3 DEF CreditInv, WebhookAtMostOnce
<1> QED
  BY <1>2, <1>4, <1>5, <1>6, <1>7, <1>10, <1>11 DEF CreditInv, LedgerBounded

LEMMA SaveCursorCredit ==
  ASSUME Typing, CreditInv, NEW h \in Handler, SaveCursor(h)
  PROVE  CreditInv'
<1>1. /\ hs[h].pc = "cursor" /\ hs[h].op \in Nat /\ hs[h].addr \in Addr
      /\ hs[h].op \in credited[hs[h].addr]
  BY DEF SaveCursor, Typing, TypeOK, HandlerRec, CreditInv, HandlersHavePayment, DoneIsCredited
<1>2. /\ \/ hs'[h] = NoHandler
         \/ /\ hs'[h].pc = "notify" /\ hs[h].fresh /\ hs'[h].fresh
            /\ hs'[h].addr = hs[h].addr /\ hs'[h].op = hs[h].op
      /\ \A g \in Handler \ {h} : hs'[g] = hs[g]
      /\ UNCHANGED <<ledger, dbVars, webhooks>>
  BY DEF SaveCursor, Typing, TypeOK, HandlerRec
<1>3. NoHandler.pc = "idle" /\ ~NoHandler.fresh
  BY DEF NoHandler
<1>4. HandlersHavePayment' /\ DoneIsCredited'
  BY <1>1, <1>2, <1>3 DEF CreditInv, HandlersHavePayment, DoneIsCredited, dbVars
<1>5. WritersExclude'
  BY <1>1, <1>2, <1>3 DEF CreditInv, WritersExclude, dbVars
<1>6. FreshIsUnique'
  BY <1>1, <1>2, <1>3 DEF CreditInv, FreshIsUnique
<1>7. AcknowledgedIsCredited'
  BY <1>1, <1>2 DEF SaveCursor, CreditInv, AcknowledgedIsCredited, dbVars, Typing, TypeOK
<1> QED
  BY <1>2, <1>4, <1>5, <1>6, <1>7
  DEF CreditInv, dbVars, LedgerBounded, CreditsFinite, BalanceMatchesCredits, WebhookAtMostOnce

LEMMA DispatchCredit ==
  ASSUME Typing, CreditInv, NEW h \in Handler, Dispatch(h)
  PROVE  CreditInv'
<1> DEFINE a == hs[h].addr
           i == hs[h].op
<1>1. /\ hs[h].pc = "notify" /\ hs[h].fresh /\ a \in Addr
      /\ i \in credited[a] /\ webhooks[a][i] = 0
  BY DEF Dispatch, CreditInv, HandlersHavePayment, DoneIsCredited, FreshIsUnique
<1>2. /\ hs'[h] = NoHandler /\ \A g \in Handler \ {h} : hs'[g] = hs[g]
      /\ UNCHANGED <<ledger, dbVars, cursor>>
  BY DEF Dispatch, Typing, TypeOK
<1>3. NoHandler.pc = "idle" /\ ~NoHandler.fresh
  BY DEF NoHandler
<1>4. \A b \in Addr : \A j \in 1..MaxOps :
         webhooks'[b][j] = IF b = a /\ j = i THEN 1 ELSE webhooks[b][j]
  BY <1>1 DEF Dispatch, Typing, TypeOK
<1>5. HandlersHavePayment' /\ DoneIsCredited'
  BY <1>2, <1>3 DEF CreditInv, HandlersHavePayment, DoneIsCredited, dbVars
<1>6. WritersExclude'
  BY <1>2, <1>3 DEF CreditInv, WritersExclude, dbVars
<1>7. FreshIsUnique'
  <2>1. ASSUME NEW g \in Handler, hs'[g].fresh
        PROVE  webhooks'[hs'[g].addr][hs'[g].op] = 0
    <3>1. g # h /\ hs'[g] = hs[g]
      BY <1>2, <1>3, <2>1
    <3>2. ~(hs[g].addr = a /\ hs[g].op = i)
      BY <1>1, <2>1, <3>1 DEF CreditInv, FreshIsUnique
    <3>3. hs[g].addr \in Addr /\ hs[g].op \in 1..MaxOps
      <4>1. /\ hs[g].addr \in Addr /\ hs[g].op \in DOMAIN ledger[hs[g].addr]
        BY <2>1, <3>1 DEF CreditInv, FreshIsUnique, HandlersHavePayment
      <4>2. ledger[hs[g].addr] \in Seq(Kind) /\ Len(ledger[hs[g].addr]) <= MaxOps
        BY <4>1 DEF Typing, TypeOK, CreditInv, LedgerBounded
      <4> QED
        BY <4>1, <4>2, MaxOpsAssumption
    <3> QED
      BY <1>4, <2>1, <3>1, <3>2, <3>3 DEF CreditInv, FreshIsUnique
  <2> QED
    BY <1>2, <1>3, <2>1 DEF CreditInv, FreshIsUnique
<1>8. WebhookAtMostOnce'
  BY <1>1, <1>2, <1>4 DEF CreditInv, WebhookAtMostOnce, dbVars
<1> QED
  BY <1>2, <1>5, <1>6, <1>7, <1>8
  DEF CreditInv, dbVars, LedgerBounded, CreditsFinite, BalanceMatchesCredits,
      AcknowledgedIsCredited

LEMMA HandlerCredit ==
  ASSUME Typing, CreditInv, NEW h \in Handler, HandlerStep(h)
  PROVE  CreditInv'
<1>1. ASSUME GiveUp(h), UNCHANGED <<ledger, dbVars, cursor, webhooks>> PROVE CreditInv'
  BY <1>1, GiveUpEnds, EndCredit
<1>2. CASE NoAccount(h)
  BY <1>1, <1>2 DEF NoAccount
<1>3. CASE UniqueViolation(h)
  BY <1>1, <1>3 DEF UniqueViolation
<1>4. CASE DbFails(h)
  BY <1>1, <1>4 DEF DbFails
<1>5. CASE SaveCursorFails(h)
  BY <1>1, <1>5 DEF SaveCursorFails
<1>6. CASE DispatchFails(h)
  BY <1>1, <1>6 DEF DispatchFails
<1> QED
  BY <1>2, <1>3, <1>4, <1>5, <1>6, CheckCredit, LockCredit, CommitCredit, SaveCursorCredit,
     DispatchCredit
  DEF HandlerStep

\* Every step that is not a handler's own.
LEMMA OtherCredit ==
  ASSUME Typing, CreditInv,
         \/ \E r \in Refresher : Start(r)
         \/ Crash \/ Stop \/ ShutDown
         \/ \E r \in Refresher : RefreshStep(r)
         \/ \E s \in StreamId : StreamStep(s)
  PROVE  CreditInv'
<1>1. CASE Exit /\ UNCHANGED <<ledger, dbVars, cursor, webhooks>>
  BY <1>1, ExitEnds, EndCredit
<1>2. Crash \/ ShutDown => CreditInv'
  BY <1>1 DEF Crash, ShutDown
<1>3. ASSUME NEW r \in Refresher, RefreshStep(r) PROVE CreditInv'
  <2>1. CASE RefreshQueryFails(r)
    BY <1>1, <2>1, QuietCredit DEF RefreshQueryFails
  <2>2. CASE RefreshTick(r) \/ RefreshQuery(r) \/ RefreshReconcile(r) \/ RefreshNext(r)
    BY <2>2, QuietCredit DEF RefreshTick, RefreshQuery, RefreshReconcile, RefreshNext
  <2> QED
    BY <1>3, <2>1, <2>2 DEF RefreshStep
<1>4. ASSUME NEW s \in StreamId, StreamStep(s) PROVE CreditInv'
  BY <1>4, QuietCredit
  DEF StreamStep, ConnectSaved, ConnectRedisDown, ConnectThrows, Connect, SseError, TimerFires,
      Ignore
<1>5. (\E r \in Refresher : Start(r)) \/ Stop => CreditInv'
  BY QuietCredit DEF Start, Stop
<1> QED
  BY <1>2, <1>3, <1>4, <1>5

Inv == Typing /\ CreditInv

LEMMA InvStep ==
  ASSUME Inv, [Next]_vars
  PROVE  Inv'
<1>1. \A h \in Handler : hs[h].pc # "idle" => hs[h].addr \in Addr
  BY DEF Inv, CreditInv, HandlersHavePayment
<1>2. CASE UNCHANGED vars
  BY <1>2, QuietCredit
  DEF Inv, vars, dbVars, procVars, Typing, TypeOK, StreamsHaveAccount
<1>3. CASE Next
  <2>1. Typing'
    BY <1>1, <1>3, EnvTyping, RefreshTyping, StreamTyping, DeliverTyping, HandlerTyping
    DEF Inv, Next
  <2>2. CreditInv'
    BY <1>3, ArriveCredit, SetAccountCredit, DeliverCredit, HandlerCredit, OtherCredit
    DEF Inv, Next
  <2> QED
    BY <2>1, <2>2 DEF Inv
<1> QED
  BY <1>2, <1>3

\* The inductive invariant holds in every behaviour.
THEOREM Invariance == Spec => []Inv
<1>1. Init => Inv
  BY InitTyping, InitCredit DEF Inv
<1>2. Inv /\ [Next]_vars => Inv'
  BY InvStep
<1> QED
  BY <1>1, <1>2, PTL DEF Spec

-----------------------------------------------------------------------------
(* The theorems *)

\* Every variable of the stream service keeps its type, for any number of
\* accounts, streams, handlers, refreshes and faults.
THEOREM TypeCorrect == Spec => []TypeOK
<1>1. Inv => TypeOK
  BY DEF Inv, Typing
<1> QED
  BY <1>1, Invariance, PTL

\* The inductive invariant about handlers and credits that StellarStream states.
THEOREM CreditInvariant == Spec => []CreditInv
<1>1. Inv => CreditInv
  BY DEF Inv
<1> QED
  BY <1>1, Invariance, PTL

\* The balance recordIncomingPayment maintains equals the number of recorded
\* credits: concurrent handlers lose no update and replays add none.
THEOREM BalanceTheorem == Spec => []BalanceMatchesCredits
<1>1. Inv => BalanceMatchesCredits
  BY DEF Inv, CreditInv
<1> QED
  BY <1>1, Invariance, PTL

\* saveCursor only ever names an operation whose credit is committed.
THEOREM CursorTheorem == Spec => []AcknowledgedIsCredited
<1>1. Inv => AcknowledgedIsCredited
  BY DEF Inv, CreditInv
<1> QED
  BY <1>1, Invariance, PTL

\* handlePayment announces a credit at most once, and only a committed one.
THEOREM WebhookTheorem == Spec => []WebhookAtMostOnce
<1>1. Inv => WebhookAtMostOnce
  BY DEF Inv, CreditInv
<1> QED
  BY <1>1, Invariance, PTL

\* What a step does to the data.
LEMMA DataStep ==
  ASSUME Inv, [Next]_vars
  PROVE  \/ \E h \in Handler : Commit(h)
         \/ \E a \in Addr, k \in Kind : Arrive(a, k)
         \/ UNCHANGED <<ledger, credited, balance>>
<1> DEFINE Same == UNCHANGED <<ledger, credited, balance>>
<1>1. \A a \in Addr, st \in AccountStatus : SetAccount(a, st) => Same
  BY DEF SetAccount
<1>2. (\A r \in Refresher : Start(r) => Same) /\ (Crash \/ Stop \/ ShutDown => Same)
  BY DEF Start, Crash, Stop, ShutDown, dbVars
<1>3. \A r \in Refresher : RefreshStep(r) => Same
  BY DEF RefreshStep, RefreshTick, RefreshQuery, RefreshQueryFails, RefreshReconcile, RefreshNext,
     dbVars
<1>4. \A s \in StreamId : StreamStep(s) => Same
  BY DEF StreamStep, ConnectSaved, ConnectRedisDown, ConnectThrows, Connect, SseError, TimerFires,
     Ignore, dbVars
<1>5. \A s \in StreamId, h \in Handler : Deliver(s, h) => Same
  BY DEF Deliver, dbVars
<1>6. \A h \in Handler : HandlerStep(h) => Commit(h) \/ Same
  BY DEF HandlerStep, CheckFingerprint, LockAccount, NoAccount, UniqueViolation, DbFails,
     SaveCursor, SaveCursorFails, Dispatch, DispatchFails, dbVars
<1>7. UNCHANGED vars => Same
  BY DEF vars, dbVars
<1> QED
  BY <1>1, <1>2, <1>3, <1>4, <1>5, <1>6, <1>7 DEF Next

\* A credit never commits on an inactive account row: the row lock of
\* recordIncomingPayment keeps the row active from the check to the commit.
THEOREM InactiveTheorem == Spec => NoCreditWhileInactive
<1> DEFINE Safe == \A a \in Addr : credited'[a] # credited[a] => account[a] # "inactive"
<1>1. Inv /\ [Next]_vars => [Safe]_vars
  <2> SUFFICES ASSUME Inv, [Next]_vars PROVE Safe
    OBVIOUS
  <2>1. ASSUME NEW h \in Handler, Commit(h) PROVE Safe
    <3>1. /\ hs[h].addr \in Addr /\ account[hs[h].addr] # "inactive"
          /\ credited' = [credited EXCEPT ![hs[h].addr] = @ \cup {hs[h].op}]
      BY <2>1, CommitEffect DEF Inv
    <3>2. credited \in [Addr -> SUBSET Nat]
      BY DEF Inv, Typing, TypeOK
    <3> QED
      BY <3>1, <3>2
  <2>2. (\E a \in Addr, k \in Kind : Arrive(a, k)) => Safe
    BY DEF Arrive, dbVars
  <2> QED
    BY <2>1, <2>2, DataStep
<1> QED
  BY <1>1, Invariance, PTL DEF Spec, NoCreditWhileInactive

\* The stream service implements CreditOnce: Arrive is Arrive, Commit is Credit
\* and every other step stutters.
THEOREM Refinement == Spec => ImplementsCreditOnce
<1>1. Init => Ledger!Init
  BY DEF Init, Ledger!Init
<1>2. Inv /\ [Next]_vars => [Ledger!Next]_(Ledger!vars)
  <2> SUFFICES ASSUME Inv, [Next]_vars PROVE [Ledger!Next]_(Ledger!vars)
    OBVIOUS
  <2>1. ASSUME NEW h \in Handler, Commit(h) PROVE Ledger!Next
    <3> DEFINE a == hs[h].addr
               i == hs[h].op
    <3>1. /\ a \in Addr /\ i \in DOMAIN ledger[a] /\ ledger[a][i] = "in"
          /\ i \notin credited[a]
          /\ credited' = [credited EXCEPT ![a] = @ \cup {i}]
          /\ balance'  = [balance EXCEPT ![a] = @ + 1]
          /\ ledger' = ledger
      BY <2>1, CommitEffect DEF Inv, Commit
    <3>2. Ledger!Credit(a, i)
      BY <3>1 DEF Ledger!Credit
    <3> QED
      BY <3>1, <3>2 DEF Ledger!Next
  <2>2. ASSUME NEW a \in Addr, NEW k \in Kind, Arrive(a, k) PROVE Ledger!Next
    <3>1. Ledger!Arrive(a, k)
      BY <2>2 DEF Arrive, dbVars, Ledger!Arrive
    <3> QED
      BY <3>1 DEF Ledger!Next, Ledger!Kind, Kind
  <2> QED
    BY <2>1, <2>2, DataStep DEF Ledger!vars
<1> QED
  BY <1>1, <1>2, Invariance, PTL DEF Spec, ImplementsCreditOnce, Ledger!Spec

-----------------------------------------------------------------------------
(* Nothing stalls *)

\* Nothing survives an exit, so that start() begins with an empty map.
DownIsEmpty ==
  ~up => /\ ~refreshTimer
         /\ \A a \in Addr : streams[a] = None
         /\ \A r \in Refresher : refresh[r].pc = "idle"

\* The object this.streams holds for an address carries that address: so
\* scheduleReconnect and connect find it in the map, and no two addresses share
\* one that a refresh could stop.
StreamsKnowTheirAddress ==
  \A a \in Addr : running /\ streams[a] # None => obj[streams[a]].addr = a

StallInv == DownIsEmpty /\ StreamsKnowTheirAddress /\ NothingStalls

\* What the two invariants about streams say of one object.
Named(a, o) == o.addr = a
Moving(o)   == o.sse \/ o.timer \/ o.conn

LEMMA StallParts ==
  StallInv <=> /\ DownIsEmpty /\ RunningIsRefreshed
               /\ \A a \in Addr : running /\ streams[a] # None =>
                    Named(a, obj[streams[a]]) /\ Moving(obj[streams[a]])
BY DEF StallInv, StreamsKnowTheirAddress, NothingStalls, NoStuckStream, Named, Moving

LEMMA StallNext ==
  ASSUME DownIsEmpty', RunningIsRefreshed',
         \A a \in Addr : running' /\ streams'[a] # None =>
           Named(a, obj'[streams'[a]]) /\ Moving(obj'[streams'[a]])
  PROVE  StallInv'
BY DEF StallInv, StreamsKnowTheirAddress, NothingStalls, NoStuckStream, Named, Moving

LEMMA InitStall == Init => StallInv
BY DEF Init, StallInv, DownIsEmpty, StreamsKnowTheirAddress, NothingStalls, NoStuckStream,
       RunningIsRefreshed, NoRefresh

\* An exit leaves nothing to stall.
LEMMA ExitStall ==
  ASSUME Exit
  PROVE  StallInv'
BY DEF Exit, StallInv, DownIsEmpty, StreamsKnowTheirAddress, NothingStalls, NoStuckStream,
       RunningIsRefreshed, NoRefresh

\* An action that leaves the streams and the life cycle alone.
LEMMA QuietStall ==
  ASSUME StallInv,
         UNCHANGED <<up, running, refreshTimer, starter, streams, obj>>,
         ~up => UNCHANGED refresh
  PROVE  StallInv'
BY DEF StallInv, DownIsEmpty, StreamsKnowTheirAddress, NothingStalls, NoStuckStream,
       RunningIsRefreshed

\* An action of one stream object that stays in motion if it is the one its
\* address is registered with.
LEMMA ObjectStall ==
  ASSUME Typing, StallInv, NEW s \in StreamId, NEW x,
         obj' = [obj EXCEPT ![s] = x],
         UNCHANGED <<up, running, refreshTimer, starter, streams>>,
         \A r \in Refresher : refresh'[r].pc = refresh[r].pc,
         x.addr = obj[s].addr,
         running /\ Has(s) /\ Moving(obj[s]) => Moving(x)
  PROVE  StallInv'
<1>1. obj \in [StreamId -> StreamRec] /\ streams \in [Addr -> StreamId \cup {None}]
  BY DEF Typing, TypeOK
<1>2. DownIsEmpty' /\ RunningIsRefreshed'
  BY StallParts DEF DownIsEmpty, RunningIsRefreshed
<1>3. ASSUME NEW a \in Addr, running', streams'[a] # None
      PROVE  Named(a, obj'[streams'[a]]) /\ Moving(obj'[streams'[a]])
  <2>1. PICK t \in StreamId : t = streams[a] /\ streams'[a] = t
    BY <1>1, <1>3
  <2>2. running /\ Named(a, obj[t]) /\ Moving(obj[t])
    BY <1>3, <2>1, StallParts
  <2>3. CASE t = s
    <3>1. Has(s)
      BY <1>3, <2>1, <2>2, <2>3, NoneAssumption DEF Has, Named
    <3>2. Moving(x) /\ obj'[t] = x
      BY <1>1, <2>2, <2>3, <3>1
    <3> QED
      BY <2>1, <2>2, <2>3, <3>2 DEF Named
  <2>4. CASE t # s
    BY <1>1, <2>1, <2>2, <2>4
  <2> QED
    BY <2>3, <2>4
<1> QED
  BY <1>2, <1>3, StallNext

\* A turn of the refresh loop over a map m and objects o that are in order.
LEMMA NextAccountStall ==
  ASSUME Typing, StallInv, up, UNCHANGED <<up, running>>,
         NEW r \in Refresher, NEW todo \in SUBSET Addr,
         NEW m \in [Addr -> StreamId \cup {None}], NEW o \in [StreamId -> StreamRec],
         \A a \in Addr : running /\ m[a] # None => Named(a, o[m[a]]) /\ Moving(o[m[a]]),
         NextAccount(r, todo, m, o)
  PROVE  StallInv'
<1> DEFINE missing == {a \in todo : m[a] = None}
<1>1. running \in BOOLEAN
  BY DEF Typing, TypeOK
<1>2. DownIsEmpty'
  BY DEF DownIsEmpty
<1>3. RunningIsRefreshed'
  BY StallParts DEF NextAccount, RunningIsRefreshed
<1>4. CASE streams' = m /\ obj' = o
  <2>1. \A a \in Addr : running' /\ streams'[a] # None =>
          Named(a, obj'[streams'[a]]) /\ Moving(obj'[streams'[a]])
    BY <1>4
  <2> QED
    BY <1>2, <1>3, <2>1, StallNext
<1>5. ASSUME NEW b \in Addr, NEW s \in StreamId,
             \A a \in Addr : m[a] # s,
             streams' = [m EXCEPT ![b] = s],
             obj' = [o EXCEPT ![s] = [NoStream EXCEPT !.addr = b, !.conn = running]]
      PROVE  StallInv'
  <2> DEFINE x == [NoStream EXCEPT !.addr = b, !.conn = running]
  <2>1. Named(b, x) /\ (running => Moving(x))
    BY DEF NoStream, Named, Moving
  <2> HIDE DEF x
  <2>2. \A a \in Addr : running' /\ streams'[a] # None =>
          Named(a, obj'[streams'[a]]) /\ Moving(obj'[streams'[a]])
    <3> SUFFICES ASSUME NEW a \in Addr, running', streams'[a] # None
                 PROVE  Named(a, obj'[streams'[a]]) /\ Moving(obj'[streams'[a]])
      OBVIOUS
    <3>1. CASE a = b
      <4>1. streams'[a] = s /\ obj'[s] = x
        BY <1>5, <3>1 DEF x
      <4> QED
        BY <2>1, <3>1, <4>1
    <3>2. CASE a # b
      <4>1. streams'[a] = m[a] /\ m[a] \in StreamId /\ m[a] # s
        BY <1>5, <3>2
      <4>2. obj'[m[a]] = o[m[a]]
        BY <1>5, <4>1
      <4> QED
        BY <4>1, <4>2
    <3> QED
      BY <3>1, <3>2
  <2> QED
    BY <1>2, <1>3, <2>2, StallNext
<1>6. \/ streams' = m /\ obj' = o
      \/ \E a \in missing, s \in StreamId :
           /\ \A b \in Addr : m[b] # s
           /\ streams' = [m EXCEPT ![a] = s]
           /\ obj' = [o EXCEPT ![s] = [NoStream EXCEPT !.addr = a, !.conn = running]]
  BY DEF NextAccount
<1> QED
  BY <1>4, <1>5, <1>6

\* Stopping the streams that are no longer wanted does not touch the others:
\* no two addresses share an object.
LEMMA ReconcileStall ==
  ASSUME Typing, StallInv, NEW unwanted \in SUBSET Addr, NEW a \in Addr, running,
         a \notin unwanted, streams[a] # None
  PROVE  LET o == StopAccounts({streams[b] : b \in {c \in unwanted : streams[c] # None}})
         IN  Named(a, o[streams[a]]) /\ Moving(o[streams[a]])
<1> DEFINE S == {streams[b] : b \in {c \in unwanted : streams[c] # None}}
<1>1. streams[a] \in StreamId /\ Named(a, obj[streams[a]]) /\ Moving(obj[streams[a]])
  BY StallParts DEF Typing, TypeOK
<1>2. streams[a] \notin S
  <2>1. ASSUME NEW b \in unwanted, streams[b] # None, streams[b] = streams[a] PROVE FALSE
    <3>1. Named(b, obj[streams[b]])
      BY <2>1, StallParts
    <3> QED
      BY <1>1, <2>1, <3>1 DEF Named
  <2> QED
    BY <2>1
<1> HIDE DEF S
<1>3. StopAccounts(S)[streams[a]] = obj[streams[a]]
  BY <1>1, <1>2 DEF StopAccounts
<1> QED
  BY <1>1, <1>3 DEF S

LEMMA RefreshStall ==
  ASSUME Typing, StallInv, NEW r \in Refresher, RefreshStep(r)
  PROVE  StallInv'
<1>1. up \/ (~refreshTimer /\ refresh[r].pc = "idle")
  BY DEF StallInv, DownIsEmpty
<1>2. CASE RefreshTick(r)
  BY <1>1, <1>2, QuietStall DEF RefreshTick
<1>3. CASE RefreshQuery(r)
  BY <1>1, <1>3, QuietStall DEF RefreshQuery
<1>4. CASE RefreshQueryFails(r)
  <2>1. up
    BY <1>1, <1>4 DEF RefreshQueryFails
  <2>2. CASE Exit
    BY <2>2, ExitStall
  <2>3. CASE /\ ~(r = starter /\ IsProduction)
             /\ starter' = IF r = starter THEN None ELSE starter
             /\ UNCHANGED <<up, running, refreshTimer, streams, obj, hs>>
    <3>1. DownIsEmpty'
      BY <2>1, <2>3 DEF DownIsEmpty
    <3>2. RunningIsRefreshed'
      BY <2>3, StallParts DEF RunningIsRefreshed
    <3>3. \A a \in Addr : running' /\ streams'[a] # None =>
            Named(a, obj'[streams'[a]]) /\ Moving(obj'[streams'[a]])
      BY <2>3, StallParts
    <3> QED
      BY <3>1, <3>2, <3>3, StallNext
  <2> QED
    BY <1>4, <2>2, <2>3 DEF RefreshQueryFails
<1>5. CASE RefreshReconcile(r)
  <2> DEFINE todo == refresh[r].todo
             unwanted == {a \in Addr \ todo : streams[a] # None}
             m == [a \in Addr |-> IF a \in unwanted THEN None ELSE streams[a]]
             o == StopAccounts({streams[a] : a \in unwanted})
  <2>1. todo \in SUBSET Addr /\ m \in [Addr -> StreamId \cup {None}]
    BY DEF Typing, TypeOK, RefreshRec
  <2>2. up /\ NextAccount(r, todo, m, o) /\ UNCHANGED <<up, running>>
    BY <1>1, <1>5 DEF RefreshReconcile
  <2>3. o \in [StreamId -> StreamRec]
    BY StopAccountsTyping
  <2>4. ASSUME NEW a \in Addr, running, m[a] # None
        PROVE  Named(a, o[m[a]]) /\ Moving(o[m[a]])
    <3>1. m[a] = streams[a] /\ a \notin Addr \ todo /\ streams[a] # None
      BY <2>4
    <3> QED
      BY <2>4, <3>1, ReconcileStall
  <2> HIDE DEF todo, m, o, unwanted
  <2> QED
    BY <2>1, <2>2, <2>3, <2>4, NextAccountStall
<1>6. CASE RefreshNext(r)
  <2>1. up /\ NextAccount(r, refresh[r].todo, streams, obj) /\ UNCHANGED <<up, running>>
    BY <1>1, <1>6 DEF RefreshNext
  <2>2. /\ refresh[r].todo \in SUBSET Addr /\ streams \in [Addr -> StreamId \cup {None}]
        /\ obj \in [StreamId -> StreamRec]
    BY DEF Typing, TypeOK, RefreshRec
  <2>3. \A a \in Addr : running /\ streams[a] # None =>
          Named(a, obj[streams[a]]) /\ Moving(obj[streams[a]])
    BY StallParts
  <2> QED
    BY <2>1, <2>2, <2>3, NextAccountStall
<1> QED
  BY <1>2, <1>3, <1>4, <1>5, <1>6 DEF RefreshStep

\* What the actions of a stream do to its object.
LEMMA StreamMoves ==
  ASSUME NEW x \in StreamRec
  PROVE  /\ \A p : LET y == [x EXCEPT !.conn = FALSE, !.sse = TRUE, !.pos = p]
                   IN  y.addr = x.addr /\ Moving(y)
         /\ \A p : LET y == [x EXCEPT !.pos = p]
                   IN  y.addr = x.addr /\ (Moving(x) => Moving(y))
         /\ Rescheduled(x).addr = x.addr /\ Moving(Rescheduled(x))
         /\ LET y == [x EXCEPT !.conn = FALSE]
            IN  /\ y.addr = x.addr /\ (x.timer => Moving(y))
                /\ Rescheduled(y).addr = x.addr /\ Moving(Rescheduled(y))
         /\ \A b \in BOOLEAN : LET y == [x EXCEPT !.timer = FALSE, !.conn = b]
                               IN  y.addr = x.addr /\ (b => Moving(y))
BY DEF StreamRec, Moving, Rescheduled

LEMMA ResumedPc ==
  ASSUME Typing, NEW s, refresh' = Resumed(s)
  PROVE  \A r \in Refresher : refresh'[r].pc = refresh[r].pc
<1>1. \A r \in Refresher : refresh[r] \in RefreshRec
  BY DEF Typing, TypeOK
<1> QED
  BY <1>1 DEF Resumed, RefreshRec

LEMMA StreamStall ==
  ASSUME Typing, StallInv, NEW s \in StreamId,
         StreamStep(s) \/ \E h \in Handler : Deliver(s, h)
  PROVE  StallInv'
<1>1. obj[s] \in StreamRec /\ running \in BOOLEAN
  BY DEF Typing, TypeOK
<1>2. ASSUME NEW p, Connect(s, p) PROVE StallInv'
  <2> DEFINE x == [obj[s] EXCEPT !.conn = FALSE, !.sse = TRUE, !.pos = p]
  <2>1. obj' = [obj EXCEPT ![s] = x] /\ \A r \in Refresher : refresh'[r].pc = refresh[r].pc
    BY <1>2, ResumedPc DEF Connect
  <2>2. x.addr = obj[s].addr /\ Moving(x)
    BY <1>1, StreamMoves
  <2>3. UNCHANGED <<up, running, refreshTimer, starter, streams>>
    BY <1>2 DEF Connect
  <2> HIDE DEF x
  <2> QED
    BY <2>1, <2>2, <2>3, ObjectStall
<1>3. CASE ConnectSaved(s) \/ ConnectRedisDown(s)
  BY <1>2, <1>3 DEF ConnectSaved, ConnectRedisDown
<1>4. CASE ConnectThrows(s)
  <2> DEFINE y == [obj[s] EXCEPT !.conn = FALSE]
             x == IF MayReschedule(s) THEN Rescheduled(y) ELSE y
  <2>1. obj' = [obj EXCEPT ![s] = x] /\ \A r \in Refresher : refresh'[r].pc = refresh[r].pc
    BY <1>4, ResumedPc DEF ConnectThrows
  <2>2. /\ y.addr = obj[s].addr /\ (obj[s].timer => Moving(y))
        /\ Rescheduled(y).addr = obj[s].addr /\ Moving(Rescheduled(y))
    BY <1>1, StreamMoves
  <2>3. x.addr = obj[s].addr /\ (running /\ Has(s) => Moving(x))
    <3> HIDE DEF y
    <3> QED
      BY <2>2 DEF MayReschedule
  <2>4. UNCHANGED <<up, running, refreshTimer, starter, streams>>
    BY <1>4 DEF ConnectThrows
  <2> HIDE DEF x, y
  <2> QED
    BY <2>1, <2>3, <2>4, ObjectStall
<1>5. CASE SseError(s)
  <2> DEFINE x == Rescheduled(obj[s])
  <2>1. obj' = [obj EXCEPT ![s] = x] /\ UNCHANGED refresh
    BY <1>5 DEF SseError
  <2>2. x.addr = obj[s].addr /\ Moving(x)
    BY <1>1, StreamMoves
  <2>3. UNCHANGED <<up, running, refreshTimer, starter, streams>>
    BY <1>5 DEF SseError
  <2> HIDE DEF x
  <2> QED
    BY <2>1, <2>2, <2>3, ObjectStall
<1>6. CASE TimerFires(s)
  <2> DEFINE b == running /\ Has(s)
             x == [obj[s] EXCEPT !.timer = FALSE, !.conn = b]
  <2>1. obj' = [obj EXCEPT ![s] = x] /\ UNCHANGED refresh
    BY <1>6 DEF TimerFires
  <2>2. x.addr = obj[s].addr /\ (b => Moving(x))
    <3>1. b \in BOOLEAN
      BY <1>1
    <3> HIDE DEF b
    <3> QED
      BY <1>1, <3>1, StreamMoves
  <2>3. UNCHANGED <<up, running, refreshTimer, starter, streams>>
    BY <1>6 DEF TimerFires
  <2> HIDE DEF x
  <2> QED
    BY <2>1, <2>2, <2>3, ObjectStall
<1>7. CASE Ignore(s) \/ \E h \in Handler : Deliver(s, h)
  <2> DEFINE x == [obj[s] EXCEPT !.pos = obj[s].pos + 1]
  <2>1. obj' = [obj EXCEPT ![s] = x] /\ UNCHANGED refresh
    BY <1>7 DEF Ignore, Deliver
  <2>2. x.addr = obj[s].addr /\ (Moving(obj[s]) => Moving(x))
    BY <1>1, StreamMoves
  <2>3. UNCHANGED <<up, running, refreshTimer, starter, streams>>
    BY <1>7 DEF Ignore, Deliver
  <2> HIDE DEF x
  <2> QED
    BY <2>1, <2>2, <2>3, ObjectStall
<1> QED
  BY <1>3, <1>4, <1>5, <1>6, <1>7 DEF StreamStep

\* Every step of the system: what starts, starts with an empty map, and what
\* stops is no longer running.
LEMMA StallStep ==
  ASSUME Typing, StallInv, [Next]_vars
  PROVE  StallInv'
<1>1. CASE UNCHANGED procVars
  BY <1>1, QuietStall DEF procVars
<1>2. (\E a \in Addr, k \in Kind : Arrive(a, k))
        \/ (\E a \in Addr, st \in AccountStatus : SetAccount(a, st)) => UNCHANGED procVars
  BY DEF Arrive, SetAccount
<1>3. ASSUME NEW r \in Refresher, Start(r) PROVE StallInv'
  <2>1. up' /\ starter' = r /\ \A a \in Addr : streams'[a] = None
    BY <1>3 DEF Start, StallInv, DownIsEmpty
  <2>2. r # None
    BY NoneAssumption
  <2> QED
    BY <2>1, <2>2
    DEF StallInv, DownIsEmpty, StreamsKnowTheirAddress, NothingStalls, NoStuckStream,
        RunningIsRefreshed
<1>4. CASE Crash \/ ShutDown
  BY <1>4, ExitStall DEF Crash, ShutDown
<1>5. CASE Stop
  BY <1>5
  DEF Stop, StallInv, DownIsEmpty, StreamsKnowTheirAddress, NothingStalls, NoStuckStream,
      RunningIsRefreshed
<1>6. \A h \in Handler : HandlerStep(h) => UNCHANGED procVars
  BY DEF HandlerStep, CheckFingerprint, LockAccount, NoAccount, Commit, UniqueViolation, DbFails,
     SaveCursor, SaveCursorFails, Dispatch, DispatchFails
<1>7. CASE UNCHANGED vars
  BY <1>1, <1>7 DEF vars
<1> QED
  BY <1>1, <1>2, <1>3, <1>4, <1>5, <1>6, <1>7, RefreshStall, StreamStall DEF Next

\* No error path of connect, scheduleReconnect, refreshAccounts or start()
\* leaves a registered stream, or a running service in production, without a
\* next step.
THEOREM NothingStallsTheorem == Spec => []NothingStalls
<1>1. Init => StallInv
  BY InitStall
<1>2. Inv /\ StallInv /\ [Next]_vars => StallInv'
  BY StallStep DEF Inv
<1>3. StallInv => NothingStalls
  BY DEF StallInv
<1> QED
  BY <1>1, <1>2, <1>3, Invariance, PTL DEF Spec
=============================================================================
