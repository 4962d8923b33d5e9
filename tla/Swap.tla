-------------------------------- MODULE Swap ---------------------------------
(***************************************************************************)
(* Confirmation of the token swaps of one user (SwapService): quotes in    *)
(* the memory of the process, the provider called before the ledger        *)
(* transaction, row locks taken in the order of the swap.  Requests        *)
(* interleave at every await; the process may crash, the provider may not  *)
(* answer, the database may fail.                                          *)
(***************************************************************************)
EXTENDS Integers, Sequences, TLC

CONSTANTS
  Token, Quote,
  From, To,   \* the tokens of each quote
  In, Out,    \* amountIn and amountOut of each quote
  Keyed,      \* quotes whose confirmations carry an idempotency key
  Funds,      \* the balance rows the user starts with, a sequence per token
  Call,       \* concurrent requests
  Requests,   \* how many confirmations are requested
  Faults      \* how many faults may happen

ASSUME SwapAssumption ==
  /\ Quote # {}
  /\ From \in [Quote -> Token] /\ To \in [Quote -> Token]
  /\ \A q \in Quote : From[q] # To[q]
  /\ In \in [Quote -> Nat \ {0}] /\ Out \in [Quote -> Nat \ {0}]
  /\ Keyed \subseteq Quote
  /\ Funds \in [Token -> Seq(Nat)]
  /\ Requests \in Nat /\ Faults \in Nat

VARIABLES
  quote,    \* "none", "open" (in the map, not expired) or "gone"
  bal,      \* committed rows of balances, per token: no unique index keeps it at one
  keys,     \* quotes whose idempotency key a transactions row has
  call,     \* the requests: where they are, their quote, and the rows they hold
  swapped,  \* how often the provider has executed a quote
  booked,   \* transactions rows of a quote
  asked,    \* confirmations requested so far
  cause,    \* per quote, why its ledger transaction did not happen or was repeated
  faults

vars == <<quote, bal, keys, call, swapped, booked, asked, cause, faults>>

Cause == {"unanswered", "crash", "db", "deadlock", "insufficient", "duplicate", "overlap"}

Resting == [pc |-> "idle", quote |-> CHOOSE q \in Quote : TRUE,
            from |-> 0, to |-> 0, had |-> 0, hadTo |-> 0]

Init ==
  /\ quote   = [q \in Quote |-> "none"]
  /\ bal     = Funds
  /\ keys    = {}
  /\ call    = [c \in Call |-> Resting]
  /\ swapped = [q \in Quote |-> 0]
  /\ booked  = [q \in Quote |-> 0]
  /\ asked   = 0
  /\ cause   = [q \in Quote |-> {}]
  /\ faults  = Faults

At(c, pc) == call[c].pc = pc
GoTo(c, pc) == call' = [call EXCEPT ![c].pc = pc]
Blame(q, why) == cause' = [cause EXCEPT ![q] = @ \cup {why}]
Fault == faults > 0 /\ faults' = faults - 1

\* Rows of token t that call c has locked: index 0 is no row, or one it inserted.
Held(c, t) ==
  LET q == call[c].quote IN
  {i \in {call[c].from} : From[q] = t} \cup {i \in {call[c].to} : To[q] = t}

Free(c, t, i) == \A d \in Call \ {c} : At(d, "idle") \/ i \notin Held(d, t)

\* ROLLBACK: the locks go with the request, which reports SWAP_FAILED.
Abort(c) == call' = [call EXCEPT ![c] = Resting]

-----------------------------------------------------------------------------
CreateQuote(q) ==
  /\ quote[q] = "none"
  /\ quote' = [quote EXCEPT ![q] = "open"]
  /\ UNCHANGED <<bal, keys, call, swapped, booked, asked, cause, faults>>

\* The time to live is over: the next call prunes the quote.
ExpireQuote(q) ==
  /\ quote[q] = "open"
  /\ quote' = [quote EXCEPT ![q] = "gone"]
  /\ UNCHANGED <<bal, keys, call, swapped, booked, asked, cause, faults>>

Confirming(q) == \E d \in Call : ~At(d, "idle") /\ call[d].quote = q

\* confirmSwap, getStoredQuote
Confirm(c, q) ==
  /\ At(c, "idle")
  /\ asked < Requests /\ asked' = asked + 1
  /\ quote[q] = "open"
  /\ call' = [call EXCEPT ![c] = [Resting EXCEPT !.pc = "provider", !.quote = q]]
  /\ IF Confirming(q) THEN Blame(q, "overlap") ELSE UNCHANGED cause
  /\ UNCHANGED <<quote, bal, keys, swapped, booked, faults>>

ExecuteWithProvider(c) ==
  /\ At(c, "provider")
  /\ swapped' = [swapped EXCEPT ![call[c].quote] = @ + 1]
  /\ GoTo(c, "from")
  /\ UNCHANGED <<quote, bal, keys, booked, asked, cause, faults>>

ProviderRefuses(c) ==
  /\ At(c, "provider")
  /\ Abort(c)
  /\ UNCHANGED <<quote, bal, keys, swapped, booked, asked, cause, faults>>

\* The request times out; the provider may have executed it.
ProviderUnanswered(c) ==
  /\ At(c, "provider")
  /\ Fault
  /\ swapped' = [swapped EXCEPT ![call[c].quote] = @ + 1]
  /\ Blame(call[c].quote, "unanswered")
  /\ Abort(c)
  /\ UNCHANGED <<quote, bal, keys, booked, asked>>

-----------------------------------------------------------------------------
(* applyLedgerSwap: one database transaction *)

\* SELECT ... FOR UPDATE LIMIT 1 waits for a locked row and reads it anew.
LockFrom(c) ==
  LET q == call[c].quote
      t == From[q] IN
  /\ At(c, "from")
  /\ \E i \in DOMAIN bal[t] :
       /\ Free(c, t, i)
       /\ bal[t][i] >= In[q]
       /\ call' = [call EXCEPT ![c].pc = "to", ![c].from = i, ![c].had = bal[t][i]]
  /\ UNCHANGED <<quote, bal, keys, swapped, booked, asked, cause, faults>>

\* Mutant: the request waits for funds.
InsufficientWaits(c) ==
  LET q == call[c].quote
      t == From[q] IN
  /\ At(c, "from")
  /\ bal[t] = <<>> \/ \E i \in DOMAIN bal[t] : Free(c, t, i) /\ bal[t][i] < In[q]
  /\ Blame(q, "insufficient")
  /\ UNCHANGED <<quote, bal, keys, call, swapped, booked, asked, faults>>

\* No row, or a row that does not cover the amount.
Insufficient(c) ==
  LET q == call[c].quote
      t == From[q] IN
  /\ At(c, "from")
  /\ \/ bal[t] = <<>>
     \/ \E i \in DOMAIN bal[t] : Free(c, t, i) /\ bal[t][i] < In[q]
  /\ Blame(q, "insufficient")
  /\ Abort(c)
  /\ UNCHANGED <<quote, bal, keys, swapped, booked, asked, faults>>

\* Mutant: the target row is read without FOR UPDATE.
ReadTo(c) ==
  LET t == To[call[c].quote] IN
  /\ At(c, "to")
  /\ \/ bal[t] = <<>> /\ GoTo(c, "commit")
     \/ \E i \in DOMAIN bal[t] :
          call' = [call EXCEPT ![c].pc = "commit", ![c].to = i, ![c].hadTo = bal[t][i]]
  /\ UNCHANGED <<quote, bal, keys, swapped, booked, asked, cause, faults>>

\* Without a row of the target token that is committed, one is inserted.
LockTo(c) ==
  LET t == To[call[c].quote] IN
  /\ At(c, "to")
  /\ \/ bal[t] = <<>> /\ GoTo(c, "commit")
     \/ \E i \in DOMAIN bal[t] :
          /\ Free(c, t, i)
          /\ call' = [call EXCEPT ![c].pc = "commit", ![c].to = i, ![c].hadTo = bal[t][i]]
  /\ UNCHANGED <<quote, bal, keys, swapped, booked, asked, cause, faults>>

\* PostgreSQL aborts one of two transactions that wait for each other's row.
Deadlock(c) ==
  /\ At(c, "to")
  /\ \E d \in Call \ {c} :
       /\ At(d, "to")
       /\ \E i \in DOMAIN bal[To[call[c].quote]] : i \in Held(d, To[call[c].quote])
       /\ \E i \in DOMAIN bal[To[call[d].quote]] : i \in Held(c, To[call[d].quote])
  /\ Blame(call[c].quote, "deadlock")
  /\ Abort(c)
  /\ UNCHANGED <<quote, bal, keys, swapped, booked, asked, faults>>

Booked(c) ==
  LET q == call[c].quote
      paid == [bal EXCEPT ![From[q]][call[c].from] = call[c].had - In[q]] IN
  /\ bal' = IF call[c].to = 0 THEN [paid EXCEPT ![To[q]] = Append(@, Out[q])]
            ELSE [paid EXCEPT ![To[q]][call[c].to] = call[c].hadTo + Out[q]]
  /\ booked' = [booked EXCEPT ![q] = @ + 1]
  /\ keys' = keys \cup {k \in {q} : q \in Keyed}

KeyTaken(c) == call[c].quote \in keys

\* Mutant: the quote is looked up again, and one that has expired is left alone.
CommitIfOpen(c) ==
  /\ At(c, "commit")
  /\ ~KeyTaken(c)
  /\ IF quote[call[c].quote] = "open" THEN Booked(c) ELSE UNCHANGED <<bal, booked, keys>>
  /\ call' = [call EXCEPT ![c] = [Resting EXCEPT !.pc = "used", !.quote = call[c].quote]]
  /\ UNCHANGED <<quote, swapped, asked, cause, faults>>

\* Both rows are updated, the transactions row is inserted, COMMIT.
Commit(c) ==
  /\ At(c, "commit")
  /\ ~KeyTaken(c)
  /\ Booked(c)
  /\ call' = [call EXCEPT ![c] = [Resting EXCEPT !.pc = "used", !.quote = call[c].quote]]
  /\ UNCHANGED <<quote, swapped, asked, cause, faults>>

\* The unique idempotency_key refuses the insert.
RefuseKey(c) ==
  /\ At(c, "commit")
  /\ KeyTaken(c)
  /\ Blame(call[c].quote, "duplicate")
  /\ Abort(c)
  /\ UNCHANGED <<quote, bal, keys, swapped, booked, asked, faults>>

\* COMMIT succeeds and its answer is lost: the request fails.
CommitUnanswered(c) ==
  /\ At(c, "commit")
  /\ ~KeyTaken(c)
  /\ Fault
  /\ Booked(c)
  /\ Blame(call[c].quote, "unanswered")
  /\ Abort(c)
  /\ UNCHANGED <<quote, swapped, asked>>

QueryFails(c) ==
  /\ call[c].pc \in {"from", "to", "commit"}
  /\ Fault
  /\ Blame(call[c].quote, "db")
  /\ Abort(c)
  /\ UNCHANGED <<quote, bal, keys, swapped, booked, asked>>

\* quote.used, and the quote leaves the map.
MarkUsed(c) ==
  /\ At(c, "used")
  /\ quote' = [quote EXCEPT ![call[c].quote] = "gone"]
  /\ call' = [call EXCEPT ![c] = Resting]
  /\ UNCHANGED <<bal, keys, swapped, booked, asked, cause, faults>>

-----------------------------------------------------------------------------
\* The quotes are lost with the process, and open transactions roll back.
Crash ==
  /\ Fault
  /\ quote' = [q \in Quote |-> IF quote[q] = "open" THEN "gone" ELSE quote[q]]
  /\ call' = [c \in Call |-> Resting]
  /\ cause' = [q \in Quote |-> cause[q] \cup {w \in {"crash"} : Confirming(q)}]
  /\ UNCHANGED <<bal, keys, swapped, booked, asked>>

Proceed(c) ==
  \/ ExecuteWithProvider(c) \/ ProviderRefuses(c) \/ LockFrom(c) \/ Insufficient(c)
  \/ LockTo(c) \/ Deadlock(c) \/ Commit(c) \/ RefuseKey(c) \/ MarkUsed(c)

Next ==
  \/ \E q \in Quote : CreateQuote(q) \/ ExpireQuote(q)
  \/ \E c \in Call : \/ Proceed(c) \/ ProviderUnanswered(c)
                     \/ CommitUnanswered(c) \/ QueryFails(c)
                     \/ \E q \in Quote : Confirm(c, q)
  \/ Crash

Spec == Init /\ [][Next]_vars

\* A request runs on when it can; PostgreSQL breaks deadlocks and hands on rows.
FairSpec == Spec /\ \A c \in Call : WF_vars(Proceed(c))

-----------------------------------------------------------------------------
\* Every variable has its type: in particular no row is ever below zero.
TypeOK ==
  /\ quote \in [Quote -> {"none", "open", "gone"}]
  /\ bal \in [Token -> Seq(Nat)]
  /\ call \in [Call -> [pc : {"idle", "provider", "from", "to", "commit", "used"}, quote : Quote,
                        from : Nat, to : Nat, had : Nat, hadTo : Nat]]
  /\ keys \subseteq Quote
  /\ swapped \in [Quote -> Nat] /\ booked \in [Quote -> Nat]
  /\ asked \in 0..Requests
  /\ cause \in [Quote -> SUBSET Cause]
  /\ faults \in 0..Faults

\* A swap the provider executed is in the ledger once its confirmation is over,
\* unless one of the known causes kept it out: the balance did not cover it any
\* more, a deadlock, a key used before, a failed query, a lost answer, a crash.
ProviderIsBooked ==
  \A q \in Quote : ~Confirming(q) /\ swapped[q] > booked[q] => cause[q] \ {"overlap"} # {}

\* A quote is booked once, unless two confirmations without a key overlapped or
\* the answer to COMMIT was lost.
BookedOnce ==
  \A q \in Quote : booked[q] > 1 => cause[q] \cap {"overlap", "unanswered"} # {}

\* What the ledger says of the provider's swaps.
BookingInv == TypeOK /\ ProviderIsBooked /\ BookedOnce

\* Whatever locks it waits for and whatever fails, a confirmation ends.
EveryConfirmationEnds == \A c \in Call : ~At(c, "idle") ~> At(c, "idle")

\* The rows of each token together change by whole swaps only.
SumOf(rows) ==
  LET sum[i \in 0..Len(rows)] == IF i = 0 THEN 0 ELSE sum[i - 1] + rows[i] IN sum[Len(rows)]

Atomic == INSTANCE AtomicSwap WITH
  Start <- [t \in Token |-> SumOf(Funds[t])],
  total <- [t \in Token |-> SumOf(bal[t])]

ImplementsAtomicSwap == Atomic!Spec
=============================================================================
