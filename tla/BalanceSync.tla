---------------------------- MODULE BalanceSync ----------------------------
(***************************************************************************)
(* One row of the table balances, its three copies in Redis, and those who *)
(* change it while the backend runs: the balance poller (listeners/        *)
(* balance.js), the user's own refresh (updateUserBalance in               *)
(* balanceController.js), the EVM reconciliation                           *)
(* (EvmReconciliationService.js), the debits and credits of the bank       *)
(* withdrawals, all through models/Balance.js, and the swaps               *)
(* (SwapService.js), which write the table themselves and know nothing of  *)
(* the copies.  The CRUD of balanceController.js, the other direct writers *)
(* (workers/starknet.js, starknetPolling.js, BillPaymentService.js) and    *)
(* the end of the row are left out.                                        *)
(*                                                                         *)
(* The poller takes a lock in Redis without an owner, the refresh one with *)
(* an owner, the others none.  A read of the chain that fails is answered  *)
(* with 0.  The copies are written without a lifetime: the TTL is passed   *)
(* to the client in a form that it ignores, so only a DEL removes a copy.  *)
(*                                                                         *)
(* Amounts are whole units.  A reconciliation below Major units writes the *)
(* chain's amount, with or without a flag; at Major or more it alerts.     *)
(* Redis, PostgreSQL (row locks, READ COMMITTED) and the chain are         *)
(* external and modelled by what this code relies on.                      *)
(*                                                                         *)
(* Names that a module about withdrawals has as well are prefixed or       *)
(* chosen apart (SyncNext, Chances, Nil): OffRamp_proofs extends both.     *)
(***************************************************************************)
EXTENDS Integers

CONSTANTS
  Poller,     \* instances of listeners.js
  Refresh,    \* bound: calls of updateUserBalance at once
  Recon,      \* bound: reconciliations of this account at once
  Ledger,     \* bound: withdrawals, refunds and swaps at once
  MaxAmount,  \* bound: the chain's amount
  Major,      \* MAJOR_DISCREPANCY_THRESHOLD_USD, in units
  Chances,    \* bound: chain moves, calls and faults, all together
  Nil

Watcher   == Poller \cup Refresh \cup Recon
Reader    == Refresh \cup Recon \cup Ledger
Proc      == Watcher \cup Ledger
Key       == {"user", "id", "token"}  \* balance:user:{u}, balance:id:{b}, balance:user:{u}:token:{t}

ASSUME KindAssumption ==
  /\ Poller \cap Refresh = {} /\ Poller \cap Recon = {} /\ Refresh \cap Recon = {}
  /\ Watcher \cap Ledger = {}
ASSUME NilAssumption     == Nil \notin Int \cup Proc
ASSUME AmountAssumption  == MaxAmount \in Nat /\ Major \in Nat \ {0}
ASSUME ChancesAssumption == Chances \in Nat

VARIABLES
  chain,     \* the amount the chain holds for the user's tag
  row,       \* balances.amount
  newest,    \* the row is one of the ten that Balance.getAll lists
  rowLock,   \* the transaction that holds the row, or None
  copy,      \* the copies of the row in Redis
  pollLock,  \* balance_poller_lock is set
  userLock,  \* lock:user:{u}:txn: the identifier of its holder, or None
  ps,        \* the processes
  overran,   \* history: the poller's lock expired during a cycle
  tainted,   \* history: why a copy may be stale, see FreshOrExplained
  chances

syncVars == <<chain, row, newest, rowLock, copy, pollLock, userLock, ps, overran, tainted, chances>>

PC == {"idle", "list", "look", "fill", "lock", "read", "compare", "take",
       "dropUser", "dropId", "dropToken", "again", "refill", "unlock", "commit",
       "hold", "swap"}

\* Between Balance.update's UPDATE and its return.
Updating == {"dropUser", "dropId", "dropToken", "again", "refill"}

Idle == [pc |-> "idle", seen |-> Nil, got |-> Nil, lapsed |-> FALSE]

UseChance      == chances > 0 /\ chances' = chances - 1
At(p, pc)      == ps[p].pc = pc
MoveTo(p, pc)  == ps' = [ps EXCEPT ![p] = IF pc = "idle" THEN Idle ELSE [@ EXCEPT !.pc = pc]]
See(p, v, pc)  == ps' = [ps EXCEPT ![p] = IF pc = "idle" THEN Idle ELSE [@ EXCEPT !.seen = v, !.pc = pc]]
Forget(p, pc)  == ps' = [ps EXCEPT ![p] = [@ EXCEPT !.seen = Nil, !.got = Nil, !.pc = pc]]
Get(p, v, pc)  == ps' = [ps EXCEPT ![p] = [@ EXCEPT !.got = v, !.pc = pc]]

KeyOf(p) == IF p \in Refresh THEN "user" ELSE "token"
Dist(a, b) == IF a > b THEN a - b ELSE b - a

\* Inside the section the lock is for.
Polling(p)    == ps[p].pc # "idle"
Refreshing(p) == ps[p].pc \in {"read", "compare", "unlock"} \cup Updating

SyncInit ==
  /\ chain \in 0..MaxAmount
  /\ row      = chain
  /\ newest   = TRUE
  /\ rowLock  = Nil
  /\ copy     = [k \in Key |-> Nil]
  /\ pollLock = FALSE
  /\ userLock = Nil
  /\ ps       = [p \in Proc |-> Idle]
  /\ overran  = FALSE
  /\ tainted  = [k \in Key |-> FALSE]
  /\ chances  = Chances

-----------------------------------------------------------------------------
(* Where each process goes next *)

AfterLook(p) == CASE p \in Refresh -> "lock"
                  [] p \in Recon   -> "compare"
                  [] OTHER         -> "take"
AfterRead(p) == IF p \in Recon THEN "look" ELSE "compare"
Finish(p)    == IF p \in Recon THEN "idle" ELSE "unlock"

-----------------------------------------------------------------------------
(* Balance.findByUserId and findByUserIdAndTokenId: the copy if there is   *)
(* one, else the row, which is then copied.                                *)

Hit(p) ==
  /\ At(p, "look") /\ copy[KeyOf(p)] # Nil
  /\ See(p, copy[KeyOf(p)], AfterLook(p))
  /\ UNCHANGED <<newest, chain, row, rowLock, copy, pollLock, userLock, overran, tainted, chances>>

Select(p) ==
  /\ At(p, "look") /\ copy[KeyOf(p)] = Nil
  /\ See(p, row, "fill")
  /\ UNCHANGED <<newest, chain, row, rowLock, copy, pollLock, userLock, overran, tainted, chances>>

Fill(p) ==
  /\ At(p, "fill")
  /\ copy' = [copy EXCEPT ![KeyOf(p)] = ps[p].seen]
  /\ tainted' = [tainted EXCEPT ![KeyOf(p)] = ps[p].seen # row]
  /\ MoveTo(p, AfterLook(p))
  /\ UNCHANGED <<newest, chain, row, rowLock, pollLock, userLock, overran, chances>>

\* The SET fails: a warning, the copy stays as it was.
FillFails(p) ==
  /\ At(p, "fill") /\ UseChance
  /\ MoveTo(p, AfterLook(p))
  /\ UNCHANGED <<newest, chain, row, rowLock, copy, pollLock, userLock, overran, tainted>>

-----------------------------------------------------------------------------
(* Reading the chain: contracts/services/*.js answer 0 when the call fails *)

ReadChain(p) ==
  /\ At(p, "read")
  /\ \/ Get(p, chain, AfterRead(p)) /\ UNCHANGED chances
     \/ Get(p, 0, AfterRead(p)) /\ UseChance
  /\ UNCHANGED <<newest, chain, row, rowLock, copy, pollLock, userLock, overran, tainted>>

-----------------------------------------------------------------------------
(* Comparing and Balance.update: the row, then the copies one by one       *)

\* Mutant: the threshold of the reconciliation holds for everyone.
WritesBelow(p) == ps[p].got # ps[p].seen /\ Dist(ps[p].got, ps[p].seen) < Major

\* A reconciliation writes only below Major; poller and refresh always write.
Writes(p) == ps[p].got # ps[p].seen /\ (p \in Recon => Dist(ps[p].got, ps[p].seen) < Major)

Leave(p) ==
  /\ p \in Watcher /\ At(p, "compare") /\ ~Writes(p)
  /\ IF p \in Recon THEN MoveTo(p, "idle") ELSE Forget(p, "unlock")
  /\ UNCHANGED <<newest, chain, row, rowLock, copy, pollLock, userLock, overran, tainted, chances>>

Write(p) ==
  /\ p \in Watcher /\ At(p, "compare") /\ Writes(p) /\ rowLock = Nil
  /\ row' = ps[p].got
  /\ Forget(p, "dropUser")
  /\ UNCHANGED <<newest, chain, rowLock, copy, pollLock, userLock, overran, tainted, chances>>

\* What follows the update: the caller, or the commit of the transaction.
AfterUpdate(p) == IF p \in Ledger THEN "commit" ELSE Finish(p)

\* Mutant: update clears what credit and debit clear.
AfterDropIdShort(p) == "again"

\* credit and debit leave the copy under the token's key.
AfterDropId(p) == IF p \in Ledger THEN "again" ELSE "dropToken"

\* invalidateUserCache swallows a failed DEL.
DropUser(p) ==
  /\ At(p, "dropUser")
  /\ \/ /\ copy' = [copy EXCEPT !["user"] = Nil]
        /\ tainted' = [tainted EXCEPT !["user"] = FALSE]
        /\ UNCHANGED chances
     \/ /\ UseChance
        /\ tainted' = [tainted EXCEPT !["user"] = copy["user"] # Nil]
        /\ UNCHANGED copy
  /\ MoveTo(p, "dropId")
  /\ UNCHANGED <<newest, chain, row, rowLock, pollLock, userLock, overran>>

Drop(p, k, pc) ==
  /\ copy' = [copy EXCEPT ![k] = Nil]
  /\ tainted' = [tainted EXCEPT ![k] = FALSE]
  /\ MoveTo(p, pc)
  /\ UNCHANGED <<newest, chain, row, rowLock, pollLock, userLock, overran, chances>>

DropId(p)    == At(p, "dropId") /\ Drop(p, "id", AfterDropId(p))
DropToken(p) == At(p, "dropToken") /\ Drop(p, "token", "again")

\* A failed DEL of the other keys throws: the caller's catch ends the work, a
\* transaction is rolled back.
DropFails(p) ==
  /\ ps[p].pc \in {"dropId", "dropToken"} /\ UseChance
  /\ IF p \in Ledger THEN MoveTo(p, "idle") ELSE MoveTo(p, Finish(p))
  /\ rowLock' = IF rowLock = p THEN Nil ELSE rowLock
  /\ tainted' = [k \in Key |-> tainted[k] \/ copy[k] # Nil]
  /\ UNCHANGED <<newest, chain, row, copy, pollLock, userLock, overran>>

\* return this.findById(id), on a connection of its own: a debit or credit in
\* a transaction copies the row as it was before it.
Again(p) ==
  /\ At(p, "again")
  /\ IF copy["id"] # Nil THEN MoveTo(p, AfterUpdate(p)) ELSE See(p, row, "refill")
  /\ UNCHANGED <<newest, chain, row, rowLock, copy, pollLock, userLock, overran, tainted, chances>>

Refill(p) ==
  /\ At(p, "refill")
  /\ copy' = [copy EXCEPT !["id"] = ps[p].seen]
  /\ tainted' = [tainted EXCEPT !["id"] = ps[p].seen # row]
  /\ See(p, Nil, AfterUpdate(p))
  /\ UNCHANGED <<newest, chain, row, rowLock, pollLock, userLock, overran, chances>>

-----------------------------------------------------------------------------
(* listeners/balance.js: startBalancePoller *)

PollLock(p) ==
  /\ p \in Poller /\ At(p, "idle") /\ ~pollLock
  /\ pollLock' = TRUE
  /\ MoveTo(p, "list")
  /\ UNCHANGED <<newest, chain, row, rowLock, copy, userLock, overran, tainted, chances>>

\* Balance.getAll reads rows, not copies, and only the ten newest: its caller
\* names no limit.
PollList(p) ==
  /\ p \in Poller /\ At(p, "list")
  /\ IF newest THEN See(p, row, "read") ELSE Forget(p, "unlock")
  /\ UNCHANGED <<newest, chain, row, rowLock, copy, pollLock, userLock, overran, tainted, chances>>

\* finally: the DEL does not ask whose lock it is.
PollUnlock(p) ==
  /\ p \in Poller /\ At(p, "unlock")
  /\ pollLock' = FALSE
  /\ MoveTo(p, "idle")
  /\ UNCHANGED <<newest, chain, row, rowLock, copy, userLock, overran, tainted, chances>>

\* LOCK_TTL, whatever the cycle takes.
PollLockExpires ==
  /\ pollLock
  /\ pollLock' = FALSE
  /\ overran' = (overran \/ \E p \in Poller : Polling(p))
  /\ UNCHANGED <<newest, chain, row, rowLock, copy, userLock, ps, tainted, chances>>

-----------------------------------------------------------------------------
(* balanceController.js: updateUserBalance with LockService *)

RefreshStart(p) ==
  /\ p \in Refresh /\ At(p, "idle") /\ UseChance
  /\ MoveTo(p, "look")
  /\ UNCHANGED <<newest, chain, row, rowLock, copy, pollLock, userLock, overran, tainted>>

RefreshLock(p) ==
  /\ p \in Refresh /\ At(p, "lock") /\ userLock = Nil
  /\ userLock' = p
  /\ MoveTo(p, "read")
  /\ UNCHANGED <<newest, chain, row, rowLock, copy, pollLock, overran, tainted, chances>>

\* Ten attempts met a held lock: the row is skipped.
RefreshGivesUp(p) ==
  /\ p \in Refresh /\ At(p, "lock") /\ userLock # Nil
  /\ MoveTo(p, "idle")
  /\ UNCHANGED <<newest, chain, row, rowLock, copy, pollLock, userLock, overran, tainted, chances>>

\* Mutant: DEL without asking whose lock it is.
ReleasedAnyway(p) == Nil

\* releaseUserLock deletes the key only when it still holds our identifier.
Released(p) == IF userLock = p THEN Nil ELSE userLock

RefreshUnlock(p) ==
  /\ p \in Refresh /\ At(p, "unlock")
  /\ userLock' = Released(p)
  /\ MoveTo(p, "idle")
  /\ UNCHANGED <<newest, chain, row, rowLock, copy, pollLock, overran, tainted, chances>>

\* PX of the user's lock; its holder, when it still works, has lost it.
UserLockExpires ==
  /\ userLock # Nil
  /\ userLock' = Nil
  /\ ps' = [ps EXCEPT ![userLock] = IF Refreshing(userLock) THEN [@ EXCEPT !.lapsed = TRUE] ELSE @]
  /\ UNCHANGED <<newest, chain, row, rowLock, copy, pollLock, overran, tainted, chances>>

-----------------------------------------------------------------------------
(* EvmReconciliationService.js: reconcileAccount for the native token *)

ReconStart(p) ==
  /\ p \in Recon /\ At(p, "idle") /\ UseChance
  /\ MoveTo(p, "read")
  /\ UNCHANGED <<newest, chain, row, rowLock, copy, pollLock, userLock, overran, tainted>>

-----------------------------------------------------------------------------
(* OffRampService.js: one unit leaves or returns in a transaction.  debit  *)
(* and credit clear the user's copy before the commit, and never the       *)
(* token's.                                                                *)

LedgerStart(p) ==
  /\ p \in Ledger /\ At(p, "idle") /\ UseChance
  /\ \E d \in {-1, 1} : ps' = [ps EXCEPT ![p] = [@ EXCEPT !.pc = "look", !.got = d]]
  /\ UNCHANGED <<newest, chain, row, rowLock, copy, pollLock, userLock, overran, tainted>>

LedgerRefuse(p) ==
  /\ p \in Ledger /\ At(p, "take") /\ ps[p].got = -1 /\ ps[p].seen < 1
  /\ MoveTo(p, "idle")
  /\ UNCHANGED <<newest, chain, row, rowLock, copy, pollLock, userLock, overran, tainted, chances>>

LedgerTake(p) ==
  /\ p \in Ledger /\ At(p, "take") /\ (ps[p].got = -1 => ps[p].seen >= 1)
  /\ rowLock = Nil
  /\ rowLock' = p
  /\ MoveTo(p, "dropUser")
  /\ UNCHANGED <<newest, chain, row, copy, pollLock, userLock, overran, tainted, chances>>

LedgerCommit(p) ==
  /\ p \in Ledger /\ At(p, "commit")
  /\ row' = row + ps[p].got
  /\ rowLock' = Nil
  /\ tainted' = [k \in Key |-> tainted[k] \/ copy[k] # Nil]
  /\ MoveTo(p, "idle")
  /\ UNCHANGED <<newest, chain, copy, pollLock, userLock, overran, chances>>

-----------------------------------------------------------------------------
(* SwapService.js: applyLedgerSwap, one unit of this token given or taken. *)
(* It reads the row FOR UPDATE and clears no copy.                         *)

SwapStart(p) ==
  /\ p \in Ledger /\ At(p, "idle") /\ UseChance
  /\ \E d \in {-1, 1} : ps' = [ps EXCEPT ![p] = [@ EXCEPT !.pc = "hold", !.got = d]]
  /\ UNCHANGED <<newest, chain, row, rowLock, copy, pollLock, userLock, overran, tainted>>

SwapRefuse(p) ==
  /\ p \in Ledger /\ At(p, "hold") /\ rowLock = Nil /\ ps[p].got = -1 /\ row < 1
  /\ MoveTo(p, "idle")
  /\ UNCHANGED <<newest, chain, row, rowLock, copy, pollLock, userLock, overran, tainted, chances>>

SwapHold(p) ==
  /\ p \in Ledger /\ At(p, "hold") /\ rowLock = Nil /\ (ps[p].got = -1 => row >= 1)
  /\ rowLock' = p
  /\ See(p, row, "swap")
  /\ UNCHANGED <<newest, chain, row, copy, pollLock, userLock, overran, tainted, chances>>

SwapCommit(p) ==
  /\ p \in Ledger /\ At(p, "swap")
  /\ row' = ps[p].seen + ps[p].got
  /\ rowLock' = Nil
  /\ tainted' = [k \in Key |-> tainted[k] \/ copy[k] # Nil]
  /\ MoveTo(p, "idle")
  /\ UNCHANGED <<newest, chain, copy, pollLock, userLock, overran, chances>>

-----------------------------------------------------------------------------
(* The environment *)

\* Rows are created, and deleted, by others: this one leaves the ten newest or
\* comes back among them.
ListMoves ==
  /\ UseChance
  /\ newest' = ~newest
  /\ UNCHANGED <<chain, row, rowLock, copy, pollLock, userLock, ps, overran, tainted>>

\* The user is paid, or pays, on the chain.
ChainMoves ==
  /\ UseChance
  /\ \E v \in 0..MaxAmount \ {chain} : chain' = v
  /\ UNCHANGED <<newest, row, rowLock, copy, pollLock, userLock, ps, overran, tainted>>

\* p's process dies; its locks in Redis stay, its transaction is rolled back.
Dies(p) ==
  /\ ~At(p, "idle") /\ UseChance
  /\ MoveTo(p, "idle")
  /\ rowLock' = IF rowLock = p THEN Nil ELSE rowLock
  /\ tainted' = [k \in Key |-> \/ tainted[k]
                               \/ p \in Watcher /\ copy[k] # Nil
                                  /\ ps[p].pc \in Updating]
  /\ UNCHANGED <<newest, chain, row, copy, pollLock, userLock, overran>>

Step(p) ==
  \/ Hit(p) \/ Select(p) \/ Fill(p) \/ FillFails(p)
  \/ ReadChain(p) \/ Leave(p) \/ Write(p)
  \/ DropUser(p) \/ DropId(p) \/ DropToken(p) \/ DropFails(p) \/ Again(p) \/ Refill(p)
  \/ PollLock(p) \/ PollList(p) \/ PollUnlock(p)
  \/ RefreshLock(p) \/ RefreshGivesUp(p) \/ RefreshUnlock(p)
  \/ LedgerRefuse(p) \/ LedgerTake(p) \/ LedgerCommit(p)
  \/ SwapRefuse(p) \/ SwapHold(p) \/ SwapCommit(p)

Start(p) == RefreshStart(p) \/ ReconStart(p) \/ LedgerStart(p) \/ SwapStart(p)

SyncNext ==
  \/ \E p \in Proc : Step(p) \/ Start(p) \/ Dies(p)
  \/ PollLockExpires \/ UserLockExpires \/ ChainMoves \/ ListMoves

SyncSpec == SyncInit /\ [][SyncNext]_syncVars

\* Calls return, timers fire, Redis expires keys: every process that can take
\* a step takes one.
FairSyncSpec ==
  /\ SyncSpec
  /\ \A p \in Proc : WF_syncVars(Step(p))
  /\ WF_syncVars(PollLockExpires)

-----------------------------------------------------------------------------
(* Properties *)

\* Every variable has its type.
SyncTypeOK ==
  /\ chain \in 0..MaxAmount
  /\ row \in Int
  /\ newest \in BOOLEAN
  /\ rowLock \in Ledger \cup {Nil}
  /\ copy \in [Key -> Int \cup {Nil}]
  /\ pollLock \in BOOLEAN
  /\ userLock \in Refresh \cup {Nil}
  /\ ps \in [Proc -> [pc : PC, seen : Int \cup {Nil}, got : Int \cup {Nil}, lapsed : BOOLEAN]]
  /\ overran \in BOOLEAN
  /\ tainted \in [Key -> BOOLEAN]
  /\ chances \in Nat

\* Two instances of the poller work in the same cycle only after the lock's
\* lifetime ran out under one of them (startBalancePoller's NX lock).
PollersExclude ==
  \A p, q \in Poller : p # q /\ Polling(p) /\ Polling(q) => overran

\* A refresh inside its section whose lock did not run out still holds it:
\* nobody else's release frees it, so two refreshes never overlap otherwise.
LockIsKept ==
  \A p \in Refresh : Refreshing(p) /\ ~ps[p].lapsed => userLock = p

\* What the two kinds of lock keep apart.
LockInv == SyncTypeOK /\ PollersExclude /\ LockIsKept

\* When no Balance.update is under way, a copy that differs from the row was
\* written by a reader that had read an older row, or was there when a debit,
\* a credit or a swap committed, or a DEL was lost with a fault or a crash.  No
\* poller, refresh or reconciliation that ends its Balance.update leaves one:
\* it clears all three.
FreshOrExplained ==
  (\A p \in Watcher : ps[p].pc \notin Updating)
    => \A k \in Key : copy[k] \notin {Nil, row} => tainted[k]

\* Once the chain is quiet and its reads succeed, a row that stays among the ten
\* newest ends up equal to the chain's amount and stays so, whatever writes
\* overlapped and crashed before.  An older row is never polled.
Converges == <>[]newest => <>[](row = chain)

\* A debit or credit leaves no old amount in the copies (docs/
\* BALANCE_QUERY_GUIDE.md: "All methods automatically invalidate cache").
LedgerLeavesNoOldCopy ==
  [][\A p \in Ledger : LedgerCommit(p) => \A k \in Key : copy'[k] \in {Nil, row'}]_syncVars

=============================================================================
