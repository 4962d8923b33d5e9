----------------------------- MODULE Swap_proofs -----------------------------
(***************************************************************************)
(* Theorems about Swap for any tokens, quotes, amounts, balance rows,      *)
(* concurrent requests and faults.                                         *)
(*                                                                         *)
(* The argument: a row that a request has locked is nobody else's, so what *)
(* the request read is still there when it commits, and the sums of the    *)
(* rows move by a whole swap.  A request between the provider's answer and *)
(* its COMMIT accounts for one swap that is not booked, and leaves that    *)
(* stretch only by booking it or by a cause.  After the first booking the  *)
(* quote is kept open by its own request only.                             *)
(*                                                                         *)
(* Sums are recursive functions.  The induction they take is stated over   *)
(* a set of naturals, as the provers take no operator for a parameter.     *)
(***************************************************************************)
EXTENDS Swap, FiniteSetTheorems, WellFoundedInduction, TLAPS

-----------------------------------------------------------------------------
(* Sums of rows *)

LEMMA Induction ==
  ASSUME NEW G, 0 \in G, \A n \in Nat : n \in G => n + 1 \in G
  PROVE  \A n \in Nat : n \in G
<1> SUFFICES ASSUME NEW m \in Nat, m \notin G PROVE FALSE
  OBVIOUS
<1> DEFINE Bad == {n \in Nat : n \notin G}
           Less == OpToRel(<, Nat)
<1>1. IsWellFoundedOn(Less, Nat)
  BY NatLessThanWellFounded
<1>2. Bad \subseteq Nat /\ Bad # {}
  OBVIOUS
<1> HIDE DEF Less
<1>3. PICK x \in Bad : \A y \in Bad : <<y, x>> \notin Less
  <2> HIDE DEF Bad
  <2> QED
    BY <1>1, <1>2, WFMin
<1>4. x \in Nat /\ x # 0 /\ x - 1 \in Nat
  BY <1>3
<1>5. <<x - 1, x>> \in Less
  <2>1. <<x - 1, x>> \in Nat \X Nat /\ <<x - 1, x>>[1] < <<x - 1, x>>[2]
    BY <1>4
  <2> QED
    BY <2>1 DEF Less, OpToRel
<1>6. x - 1 \in G
  BY <1>3, <1>4, <1>5
<1> QED
  BY <1>3, <1>4, <1>6

\* f holds the sums of the first n rows.
IsSum(f, rows, n) == f = [i \in 0..n |-> IF i = 0 THEN 0 ELSE f[i - 1] + rows[i]]

LEMMA SumsExist ==
  ASSUME NEW rows \in Seq(Nat)
  PROVE  \E f : IsSum(f, rows, Len(rows))
<1> DEFINE G == {n \in Nat : n <= Len(rows) => \E f : IsSum(f, rows, n)}
<1>1. 0 \in G
  <2> DEFINE f == [i \in 0..0 |-> 0]
  <2>1. IsSum(f, rows, 0)
    BY DEF IsSum
  <2> QED
    BY <2>1
<1>2. ASSUME NEW n \in Nat, n \in G PROVE n + 1 \in G
  <2> SUFFICES ASSUME n + 1 <= Len(rows) PROVE \E g : IsSum(g, rows, n + 1)
    OBVIOUS
  <2>1. PICK f : IsSum(f, rows, n)
    BY <1>2
  <2> DEFINE g == [i \in 0..(n + 1) |-> IF i = n + 1 THEN f[n] + rows[n + 1] ELSE f[i]]
  <2>2. \A i \in 0..n : f[i] = IF i = 0 THEN 0 ELSE f[i - 1] + rows[i]
    BY <2>1 DEF IsSum
  <2>3. \A i \in 0..(n + 1) : g[i] = IF i = 0 THEN 0 ELSE g[i - 1] + rows[i]
    BY <2>2
  <2>4. IsSum(g, rows, n + 1)
    BY <2>3 DEF IsSum
  <2> QED
    BY <2>4
<1>3. \A n \in Nat : n \in G
  <2> HIDE DEF G
  <2> QED
    BY <1>1, <1>2, Induction
<1> QED
  BY <1>3

\* The sums that SumOf computes.
Sums(rows) == CHOOSE f : IsSum(f, rows, Len(rows))

LEMMA SumOfIs == ASSUME NEW rows PROVE SumOf(rows) = Sums(rows)[Len(rows)]
BY DEF SumOf, Sums, IsSum

LEMMA SumsAre ==
  ASSUME NEW rows \in Seq(Nat)
  PROVE  /\ Sums(rows) \in [0..Len(rows) -> Nat]
         /\ Sums(rows)[0] = 0
         /\ \A i \in 1..Len(rows) : Sums(rows)[i] = Sums(rows)[i - 1] + rows[i]
<1> DEFINE s == Sums(rows)
<1>1. s = [i \in 0..Len(rows) |-> IF i = 0 THEN 0 ELSE s[i - 1] + rows[i]]
  BY SumsExist DEF Sums, IsSum
<1> HIDE DEF s
<1>2. s[0] = 0 /\ \A i \in 1..Len(rows) : s[i] = s[i - 1] + rows[i]
  BY <1>1
<1> DEFINE G == {n \in Nat : n <= Len(rows) => s[n] \in Nat}
<1>3. 0 \in G
  BY <1>2
<1>4. ASSUME NEW n \in Nat, n \in G PROVE n + 1 \in G
  BY <1>2, <1>4
<1>5. \A n \in Nat : n \in G
  <2> HIDE DEF G
  <2> QED
    BY <1>3, <1>4, Induction
<1>6. \A i \in 0..Len(rows) : s[i] \in Nat
  BY <1>5
<1> QED
  BY <1>1, <1>2, <1>6 DEF s

\* A sum covers each of its rows.
LEMMA SumCovers ==
  ASSUME NEW rows \in Seq(Nat)
  PROVE  /\ SumOf(rows) \in Nat
         /\ \A i \in DOMAIN rows : SumOf(rows) >= rows[i]
<1> DEFINE s == Sums(rows)
<1>1. /\ s \in [0..Len(rows) -> Nat] /\ s[0] = 0
      /\ \A i \in 1..Len(rows) : s[i] = s[i - 1] + rows[i]
  BY SumsAre
<1>2. Len(rows) \in Nat /\ \A i \in 1..Len(rows) : rows[i] \in Nat
  OBVIOUS
<1> HIDE DEF s
<1>3. ASSUME NEW i \in 1..Len(rows) PROVE s[Len(rows)] >= rows[i]
  <2> DEFINE G == {n \in Nat : n \in i..Len(rows) => s[n] >= rows[i]}
  <2>1. 0 \in G
    OBVIOUS
  <2>2. ASSUME NEW n \in Nat, n \in G PROVE n + 1 \in G
    <3> SUFFICES ASSUME n + 1 \in i..Len(rows) PROVE s[n + 1] >= rows[i]
      OBVIOUS
    <3>0. n + 1 \in 1..Len(rows) /\ n \in 0..Len(rows) /\ (n + 1) - 1 = n
      BY <1>2
    <3>1. /\ s[n + 1] = s[n] + rows[n + 1]
          /\ s[n] \in Nat /\ rows[n + 1] \in Nat /\ rows[i] \in Nat
      BY <1>1, <1>2, <3>0
    <3>2. n + 1 = i \/ s[n] >= rows[i]
      BY <1>2, <2>2
    <3> QED
      BY <3>1, <3>2
  <2>3. \A n \in Nat : n \in G
    <3> HIDE DEF G
    <3> QED
      BY <2>1, <2>2, Induction
  <2> QED
    BY <1>2, <2>3
<1> QED
  BY <1>1, <1>2, <1>3, SumOfIs DEF s

\* One row changes, and the sum with it.
LEMMA SumOfUpdate ==
  ASSUME NEW rows \in Seq(Nat), NEW k \in DOMAIN rows, NEW v \in Nat
  PROVE  SumOf([rows EXCEPT ![k] = v]) = SumOf(rows) - rows[k] + v
<1> DEFINE new == [rows EXCEPT ![k] = v]
           s == Sums(rows)
           z == Sums(new)
<1>1. /\ new \in Seq(Nat) /\ Len(new) = Len(rows) /\ Len(rows) \in Nat
      /\ \A i \in 1..Len(rows) : new[i] = IF i = k THEN v ELSE rows[i]
      /\ \A i \in 1..Len(rows) : rows[i] \in Nat
      /\ k \in 1..Len(rows)
  OBVIOUS
<1>2. /\ s \in [0..Len(rows) -> Nat] /\ s[0] = 0
      /\ \A i \in 1..Len(rows) : s[i] = s[i - 1] + rows[i]
  BY SumsAre
<1>3. /\ z \in [0..Len(rows) -> Nat] /\ z[0] = 0
      /\ \A i \in 1..Len(rows) : z[i] = z[i - 1] + new[i]
  <2> HIDE DEF new
  <2> QED
    BY <1>1, SumsAre
<1>4. SumOf(rows) = s[Len(rows)] /\ SumOf(new) = z[Len(rows)]
  BY <1>1, SumOfIs
<1> HIDE DEF new, s, z
<1> DEFINE G == {n \in Nat : n <= Len(rows) =>
                   z[n] = IF n < k THEN s[n] ELSE s[n] - rows[k] + v}
<1>5. 0 \in G
  BY <1>1, <1>2, <1>3
<1>6. ASSUME NEW n \in Nat, n \in G PROVE n + 1 \in G
  <2> SUFFICES ASSUME n + 1 <= Len(rows)
               PROVE  z[n + 1] = IF n + 1 < k THEN s[n + 1] ELSE s[n + 1] - rows[k] + v
    OBVIOUS
  <2>0. n + 1 \in 1..Len(rows) /\ n \in 0..Len(rows) /\ (n + 1) - 1 = n
    BY <1>1
  <2>1. /\ s[n + 1] = s[n] + rows[n + 1] /\ z[n + 1] = z[n] + new[n + 1]
        /\ s[n] \in Nat /\ z[n] \in Nat /\ rows[n + 1] \in Nat /\ rows[k] \in Nat
        /\ new[n + 1] = IF n + 1 = k THEN v ELSE rows[n + 1]
    BY <1>1, <1>2, <1>3, <2>0
  <2>2. z[n] = IF n < k THEN s[n] ELSE s[n] - rows[k] + v
    BY <1>1, <1>6
  <2>3. k \in Nat
    BY <1>1
  <2> QED
    BY <2>1, <2>2, <2>3
<1>7. \A n \in Nat : n \in G
  <2> HIDE DEF G
  <2> QED
    BY <1>5, <1>6, Induction
<1>8. z[Len(rows)] = s[Len(rows)] - rows[k] + v
  BY <1>1, <1>7
<1> QED
  BY <1>4, <1>8 DEF new

\* A row is added, and the sum grows by it.
LEMMA SumOfAppend ==
  ASSUME NEW rows \in Seq(Nat), NEW v \in Nat
  PROVE  SumOf(Append(rows, v)) = SumOf(rows) + v
<1> DEFINE new == Append(rows, v)
           s == Sums(rows)
           z == Sums(new)
<1>1. /\ new \in Seq(Nat) /\ Len(new) = Len(rows) + 1 /\ Len(rows) \in Nat
      /\ \A i \in 1..Len(rows) : new[i] = rows[i]
      /\ \A i \in 1..Len(rows) : rows[i] \in Nat
      /\ new[Len(rows) + 1] = v
  OBVIOUS
<1>2. /\ s \in [0..Len(rows) -> Nat] /\ s[0] = 0
      /\ \A i \in 1..Len(rows) : s[i] = s[i - 1] + rows[i]
  BY SumsAre
<1>3. /\ z \in [0..(Len(rows) + 1) -> Nat] /\ z[0] = 0
      /\ \A i \in 1..(Len(rows) + 1) : z[i] = z[i - 1] + new[i]
  <2> HIDE DEF new
  <2> QED
    BY <1>1, SumsAre
<1>4. SumOf(rows) = s[Len(rows)] /\ SumOf(new) = z[Len(rows) + 1]
  BY <1>1, SumOfIs
<1> HIDE DEF new, s, z
<1> DEFINE G == {n \in Nat : n <= Len(rows) => z[n] = s[n]}
<1>5. 0 \in G
  BY <1>2, <1>3
<1>6. ASSUME NEW n \in Nat, n \in G PROVE n + 1 \in G
  BY <1>1, <1>2, <1>3, <1>6
<1>7. \A n \in Nat : n \in G
  <2> HIDE DEF G
  <2> QED
    BY <1>5, <1>6, Induction
<1>8. z[Len(rows)] = s[Len(rows)]
  BY <1>1, <1>7
<1>9. z[Len(rows) + 1] = z[Len(rows)] + v
  BY <1>1, <1>3
<1> QED
  BY <1>4, <1>8, <1>9 DEF new

-----------------------------------------------------------------------------
(* The inductive invariant *)

CallRecord ==
  [pc : {"idle", "provider", "from", "to", "commit", "used"}, quote : Quote,
   from : Nat, to : Nat, had : Nat, hadTo : Nat]

\* The rows of token t that a request in state x has locked.
HeldBy(x, t) ==
  {i \in {x.from} : From[x.quote] = t} \cup {i \in {x.to} : To[x.quote] = t}

\* What a request in state x has read is what the rows say.
Fresh(x, rows) ==
  /\ x.pc \in {"idle", "provider", "from", "used"} => x.from = 0 /\ x.to = 0
  /\ x.pc \in {"to", "commit"} =>
       /\ x.from \in DOMAIN rows[From[x.quote]]
       /\ x.had = rows[From[x.quote]][x.from]
       /\ x.had >= In[x.quote]
  /\ x.pc = "to" => x.to = 0
  /\ x.pc = "commit" /\ x.to # 0 =>
       x.to \in DOMAIN rows[To[x.quote]] /\ x.hadTo = rows[To[x.quote]][x.to]

\* Locked rows are nobody else's.
LocksExclude ==
  \A c, d \in Call : c # d =>
    \A t \in Token : HeldBy(call[c], t) \cap HeldBy(call[d], t) \subseteq {0}

RowsInv == (\A c \in Call : Fresh(call[c], bal)) /\ LocksExclude

\* A request in state x has the provider's answer and has not booked it yet.
Pending(x) == x.pc \in {"from", "to", "commit"}

Owing(q) == {c \in Call : Pending(call[c]) /\ call[c].quote = q}

SwapsOwed(q) ==
  /\ IsFiniteSet(Owing(q))
  /\ cause[q] \ {"overlap"} # {} \/ swapped[q] <= booked[q] + Cardinality(Owing(q))

SwappedIsOwed == \A q \in Quote : SwapsOwed(q)

\* No two confirmations of q overlapped, and the provider's and the database's
\* answers arrived.
Clean(q) == cause[q] \cap {"overlap", "unanswered"} = {}

On(c, q) == call[c].pc # "idle" /\ call[c].quote = q

\* A quote of which a clean confirmation is booked is gone, or about to go.
OnceIfClean(q) ==
  Clean(q) =>
    /\ \A c, d \in Call : On(c, q) /\ On(d, q) => c = d
    /\ booked[q] <= 1
    /\ booked[q] = 1 => \/ quote[q] = "gone" /\ \A c \in Call : ~On(c, q)
                        \/ \E c \in Call : On(c, q) /\ call[c].pc = "used"

CleanIsOnce == \A q \in Quote : OnceIfClean(q)

QuotesAreKnown == \A c \in Call : call[c].pc # "idle" => quote[call[c].quote] # "none"

Inv == TypeOK /\ RowsInv /\ SwappedIsOwed /\ CleanIsOnce /\ QuotesAreKnown

-----------------------------------------------------------------------------
(* Facts about the data *)

LEMMA RestingType == Resting \in CallRecord /\ Resting.pc = "idle"
                     /\ Resting.from = 0 /\ Resting.to = 0
<1>1. (CHOOSE q \in Quote : TRUE) \in Quote
  BY SwapAssumption
<1> QED
  BY <1>1 DEF Resting, CallRecord

LEMMA Types ==
  ASSUME TypeOK
  PROVE  /\ call \in [Call -> CallRecord]
         /\ bal \in [Token -> Seq(Nat)]
         /\ quote \in [Quote -> {"none", "open", "gone"}]
         /\ swapped \in [Quote -> Nat] /\ booked \in [Quote -> Nat]
         /\ cause \in [Quote -> SUBSET Cause] /\ keys \subseteq Quote
         /\ asked \in 0..Requests /\ faults \in 0..Faults
BY DEF TypeOK, CallRecord

LEMMA QuoteTypes ==
  ASSUME NEW q \in Quote
  PROVE  /\ From[q] \in Token /\ To[q] \in Token /\ From[q] # To[q]
         /\ In[q] \in Nat /\ Out[q] \in Nat
BY SwapAssumption

\* Each variable may be shown to keep its type on its own.
LEMMA TypesBut ==
  ASSUME call' \in [Call -> CallRecord], bal' \in [Token -> Seq(Nat)],
         quote' \in [Quote -> {"none", "open", "gone"}],
         swapped' \in [Quote -> Nat], booked' \in [Quote -> Nat],
         cause' \in [Quote -> SUBSET Cause], keys' \subseteq Quote,
         asked' \in 0..Requests, faults' \in 0..Faults
  PROVE  TypeOK'
BY DEF TypeOK, CallRecord

LEMMA FaultType == ASSUME TypeOK, Fault PROVE faults' \in 0..Faults
BY SwapAssumption DEF TypeOK, Fault

LEMMA HeldIs == \A c \in Call, t \in Token : Held(c, t) = HeldBy(call[c], t)
BY DEF Held, HeldBy

\* Blaming a quote leaves the others.
LEMMA Blaming ==
  ASSUME TypeOK, NEW q \in Quote, NEW why \in Cause, Blame(q, why)
  PROVE  /\ cause' \in [Quote -> SUBSET Cause]
         /\ why \in cause'[q]
         /\ \A p \in Quote : cause[p] \subseteq cause'[p]
         /\ \A p \in Quote \ {q} : cause'[p] = cause[p]
BY DEF TypeOK, Blame

-----------------------------------------------------------------------------
(* Row locks *)

LEMMA RowsSame == ASSUME RowsInv, UNCHANGED <<call, bal>> PROVE RowsInv'
<1>1. ASSUME NEW c \in Call PROVE Fresh(call'[c], bal')
  BY DEF RowsInv
<1>2. ASSUME NEW c \in Call, NEW d \in Call, c # d, NEW t \in Token
      PROVE  HeldBy(call'[c], t) \cap HeldBy(call'[d], t) \subseteq {0}
  BY <1>2 DEF RowsInv, LocksExclude
<1>3. LocksExclude'
  BY <1>2 DEF LocksExclude, HeldBy
<1> QED
  BY <1>1, <1>3 DEF RowsInv, Fresh

\* A request that moves keeps the rows it has, or locks free ones.
LEMMA RowsKept ==
  ASSUME Inv, NEW c \in Call, NEW x \in CallRecord, call' = [call EXCEPT ![c] = x],
         bal' = bal, Fresh(x, bal),
         \A t \in Token : \A i \in HeldBy(x, t) \ {0} :
           i \in HeldBy(call[c], t) \/ Free(c, t, i)
  PROVE  RowsInv'
<1>1. /\ call'[c] = x /\ \A d \in Call \ {c} : call'[d] = call[d]
      /\ call \in [Call -> CallRecord]
  BY Types DEF Inv
<1>2. \A d \in Call : Fresh(call[d], bal)'
  <2> SUFFICES ASSUME NEW d \in Call PROVE Fresh(call'[d], bal)
    BY DEF Fresh
  <2> QED
    BY <1>1 DEF Inv, RowsInv
<1>3. ASSUME NEW d \in Call \ {c}, NEW t \in Token
      PROVE  HeldBy(x, t) \cap HeldBy(call[d], t) \subseteq {0}
  <2> SUFFICES ASSUME NEW i \in HeldBy(x, t), i \in HeldBy(call[d], t), i # 0 PROVE FALSE
    OBVIOUS
  <2>1. CASE i \in HeldBy(call[c], t)
    BY <2>1 DEF Inv, RowsInv, LocksExclude
  <2>2. CASE Free(c, t, i)
    <3>1. At(d, "idle")
      BY <2>2, HeldIs DEF Free
    <3>2. call[d].from = 0 /\ call[d].to = 0
      BY <3>1 DEF At, Inv, RowsInv, Fresh
    <3> QED
      BY <3>2 DEF HeldBy
  <2> QED
    BY <2>1, <2>2
<1>4. LocksExclude'
  <2> SUFFICES ASSUME NEW d \in Call, NEW e \in Call, d # e, NEW t \in Token
               PROVE  HeldBy(call'[d], t) \cap HeldBy(call'[e], t) \subseteq {0}
    BY DEF LocksExclude, HeldBy
  <2>1. CASE d # c /\ e # c
    BY <1>1, <2>1 DEF Inv, RowsInv, LocksExclude
  <2>2. CASE d = c
    BY <1>1, <1>3, <2>2
  <2>3. CASE e = c
    BY <1>1, <1>3, <2>3
  <2> QED
    BY <2>1, <2>2, <2>3
<1> QED
  BY <1>2, <1>4 DEF RowsInv

\* A request that gives up its rows, or has none.
LEMMA RowsFreed ==
  ASSUME Inv, NEW c \in Call, NEW x \in CallRecord, call' = [call EXCEPT ![c] = x],
         bal' = bal, x.pc \in {"idle", "provider", "from", "used"}, x.from = 0, x.to = 0
  PROVE  RowsInv'
<1>1. Fresh(x, bal) /\ \A t \in Token : HeldBy(x, t) \subseteq {0}
  BY DEF Fresh, HeldBy
<1> QED
  BY <1>1, RowsKept

\* What Commit writes.
LEMMA BookedIs ==
  ASSUME Inv, NEW c \in Call, At(c, "commit"), Booked(c), NEW q \in Quote, q = call[c].quote
  PROVE  /\ bal' \in [Token -> Seq(Nat)]
         /\ \A t \in Token \ {From[q], To[q]} : bal'[t] = bal[t]
         /\ call[c].from \in DOMAIN bal[From[q]] /\ bal[From[q]][call[c].from] >= In[q]
         /\ bal'[From[q]] = [bal[From[q]] EXCEPT ![call[c].from] =
                               bal[From[q]][call[c].from] - In[q]]
         /\ IF call[c].to = 0 THEN bal'[To[q]] = Append(bal[To[q]], Out[q])
            ELSE /\ call[c].to \in DOMAIN bal[To[q]]
                 /\ bal'[To[q]] = [bal[To[q]] EXCEPT ![call[c].to] =
                                     bal[To[q]][call[c].to] + Out[q]]
         /\ bal[From[q]][call[c].from] - In[q] \in Nat
         /\ booked' = [booked EXCEPT ![q] = @ + 1]
         /\ keys' \subseteq Quote
<1> DEFINE x == call[c]
           f == From[q]
           t == To[q]
           paid == [bal EXCEPT ![f] = [bal[f] EXCEPT ![x.from] = x.had - In[q]]]
<1>1. f \in Token /\ t \in Token /\ f # t /\ In[q] \in Nat /\ Out[q] \in Nat
  BY QuoteTypes
<1>2. bal \in [Token -> Seq(Nat)] /\ x \in CallRecord
  BY Types DEF Inv
<1>3. /\ x.from \in DOMAIN bal[f] /\ x.had = bal[f][x.from] /\ x.had >= In[q]
      /\ x.to # 0 => x.to \in DOMAIN bal[t] /\ x.hadTo = bal[t][x.to]
  <2>1. Fresh(x, bal) /\ x.pc = "commit"
    BY DEF Inv, RowsInv, At
  <2> QED
    BY <2>1 DEF Fresh
<1>4. x.had \in Nat /\ x.hadTo \in Nat /\ x.had - In[q] \in Nat /\ x.hadTo + Out[q] \in Nat
  <2>1. x.had \in Nat /\ x.hadTo \in Nat
    BY <1>2 DEF CallRecord
  <2>2. x.had >= In[q]
    BY <1>3
  <2> QED
    BY <1>1, <2>1, <2>2
<1>5. [bal[f] EXCEPT ![x.from] = x.had - In[q]] \in Seq(Nat)
  <2>1. bal[f] \in Seq(Nat)
    BY <1>1, <1>2
  <2>2. \A s \in Seq(Nat), i, n \in Nat : i \in DOMAIN s => [s EXCEPT ![i] = n] \in Seq(Nat)
    OBVIOUS
  <2>3. x.from \in Nat
    BY <1>2 DEF CallRecord
  <2> QED
    BY <1>3, <1>4, <2>1, <2>2, <2>3
<1>6. /\ paid \in [Token -> Seq(Nat)]
      /\ paid[f] = [bal[f] EXCEPT ![x.from] = x.had - In[q]]
      /\ \A u \in Token \ {f} : paid[u] = bal[u]
  BY <1>1, <1>2, <1>5
<1>7. bal' = IF x.to = 0 THEN [paid EXCEPT ![t] = Append(@, Out[q])]
             ELSE [paid EXCEPT ![t][x.to] = x.hadTo + Out[q]]
  BY DEF Booked
<1>8. booked' = [booked EXCEPT ![q] = @ + 1] /\ keys' \subseteq Quote
  BY Types DEF Booked, Inv
<1> HIDE DEF paid
<1>9. CASE x.to = 0
  <2>1. bal' = [paid EXCEPT ![t] = Append(bal[t], Out[q])]
    BY <1>1, <1>6, <1>7, <1>9
  <2>2. Append(bal[t], Out[q]) \in Seq(Nat)
    BY <1>1, <1>2
  <2> QED
    BY <1>1, <1>3, <1>4, <1>6, <1>8, <1>9, <2>1, <2>2
<1>10. CASE x.to # 0
  <2>1. bal' = [paid EXCEPT ![t] = [bal[t] EXCEPT ![x.to] = x.hadTo + Out[q]]]
    BY <1>1, <1>6, <1>7, <1>10
  <2>2. [bal[t] EXCEPT ![x.to] = x.hadTo + Out[q]] \in Seq(Nat)
    <3>1. bal[t] \in Seq(Nat) /\ x.to \in Nat
      BY <1>1, <1>2 DEF CallRecord
    <3>2. \A s \in Seq(Nat), i, n \in Nat : i \in DOMAIN s => [s EXCEPT ![i] = n] \in Seq(Nat)
      OBVIOUS
    <3> QED
      BY <1>3, <1>4, <1>10, <3>1, <3>2
  <2> QED
    BY <1>1, <1>3, <1>4, <1>6, <1>8, <1>10, <2>1, <2>2
<1> QED
  BY <1>9, <1>10

\* Rows that others have locked are not written.
LEMMA BookingLeavesRows ==
  ASSUME Inv, NEW c \in Call, At(c, "commit"), Booked(c),
         NEW x \in CallRecord, call' = [call EXCEPT ![c] = x],
         x.pc \in {"idle", "used"}, x.from = 0, x.to = 0
  PROVE  RowsInv'
<1>1. PICK q \in Quote : q = call[c].quote
  BY Types DEF Inv, CallRecord
<1>2. /\ bal' \in [Token -> Seq(Nat)]
      /\ \A t \in Token \ {From[q], To[q]} : bal'[t] = bal[t]
      /\ call[c].from \in DOMAIN bal[From[q]]
      /\ bal'[From[q]] = [bal[From[q]] EXCEPT ![call[c].from] =
                            bal[From[q]][call[c].from] - In[q]]
      /\ IF call[c].to = 0 THEN bal'[To[q]] = Append(bal[To[q]], Out[q])
         ELSE /\ call[c].to \in DOMAIN bal[To[q]]
              /\ bal'[To[q]] = [bal[To[q]] EXCEPT ![call[c].to] =
                                  bal[To[q]][call[c].to] + Out[q]]
  BY <1>1, BookedIs
<1>3. From[q] \in Token /\ To[q] \in Token /\ From[q] # To[q]
  BY QuoteTypes
<1>4. call'[c] = x /\ \A d \in Call \ {c} : call'[d] = call[d]
  BY Types DEF Inv
<1>5. ASSUME NEW t \in Token, NEW i \in DOMAIN bal[t], i \notin HeldBy(call[c], t)
      PROVE  i \in DOMAIN bal'[t] /\ bal'[t][i] = bal[t][i]
  <2>1. bal[t] \in Seq(Nat)
    BY Types DEF Inv
  <2>2. CASE t = From[q]
    BY <1>1, <1>2, <1>3, <1>5, <2>1, <2>2 DEF HeldBy
  <2>3. CASE t = To[q] /\ call[c].to = 0
    <3>1. bal'[t] = Append(bal[t], Out[q])
      BY <1>2, <2>3
    <3> QED
      BY <1>5, <2>1, <3>1
  <2>4. CASE t = To[q] /\ call[c].to # 0
    BY <1>1, <1>2, <1>3, <1>5, <2>1, <2>4 DEF HeldBy
  <2>5. CASE t \notin {From[q], To[q]}
    BY <1>2, <1>5, <2>5
  <2> QED
    BY <2>2, <2>3, <2>4, <2>5
<1>6. ASSUME NEW d \in Call \ {c} PROVE Fresh(call[d], bal')
  <2> DEFINE y == call[d]
  <2>1. Fresh(y, bal) /\ y \in CallRecord
    BY Types DEF Inv, RowsInv
  <2>2. y.quote \in Quote /\ From[y.quote] \in Token /\ To[y.quote] \in Token
    BY <2>1, QuoteTypes DEF CallRecord
  <2>3. \A t \in Token : HeldBy(call[c], t) \cap HeldBy(y, t) \subseteq {0}
    BY DEF Inv, RowsInv, LocksExclude
  <2>4. \A t \in Token : 0 \notin DOMAIN bal[t]
    BY Types DEF Inv
  <2>5. y.pc \in {"to", "commit"} =>
          y.from \in DOMAIN bal'[From[y.quote]]
          /\ bal'[From[y.quote]][y.from] = bal[From[y.quote]][y.from]
    <3> SUFFICES ASSUME y.pc \in {"to", "commit"}
                 PROVE  y.from \notin HeldBy(call[c], From[y.quote])
                        /\ y.from \in DOMAIN bal[From[y.quote]]
      BY <1>5, <2>2
    <3>1. y.from \in DOMAIN bal[From[y.quote]]
      BY <2>1 DEF Fresh
    <3>2. y.from \in HeldBy(y, From[y.quote]) /\ y.from # 0
      BY <2>2, <2>4, <3>1 DEF HeldBy
    <3> QED
      BY <2>2, <2>3, <3>1, <3>2
  <2>6. y.pc = "commit" /\ y.to # 0 =>
          y.to \in DOMAIN bal'[To[y.quote]]
          /\ bal'[To[y.quote]][y.to] = bal[To[y.quote]][y.to]
    <3> SUFFICES ASSUME y.pc = "commit", y.to # 0
                 PROVE  y.to \notin HeldBy(call[c], To[y.quote])
                        /\ y.to \in DOMAIN bal[To[y.quote]]
      BY <1>5, <2>2
    <3>1. y.to \in DOMAIN bal[To[y.quote]] /\ y.to \in HeldBy(y, To[y.quote])
      BY <2>1 DEF Fresh, HeldBy
    <3> QED
      BY <2>2, <2>3, <3>1
  <2> QED
    BY <2>1, <2>5, <2>6 DEF Fresh
<1>7. \A d \in Call : Fresh(call'[d], bal')
  BY <1>4, <1>6 DEF Fresh
<1>8. LocksExclude'
  <2> SUFFICES ASSUME NEW d \in Call, NEW e \in Call, d # e, NEW t \in Token
               PROVE  HeldBy(call'[d], t) \cap HeldBy(call'[e], t) \subseteq {0}
    BY DEF LocksExclude, HeldBy
  <2>1. HeldBy(x, t) \subseteq {0}
    BY DEF HeldBy
  <2> QED
    BY <1>4, <2>1 DEF Inv, RowsInv, LocksExclude
<1> QED
  BY <1>7, <1>8 DEF RowsInv, Fresh

-----------------------------------------------------------------------------
(* Swaps owed to the ledger *)

LEMMA OwingStep ==
  ASSUME TypeOK, NEW c \in Call, NEW x \in CallRecord, call' = [call EXCEPT ![c] = x],
         NEW q \in Quote
  PROVE  Owing(q)' = IF Pending(x) /\ x.quote = q THEN Owing(q) \cup {c} ELSE Owing(q) \ {c}
<1>1. call'[c] = x /\ \A d \in Call \ {c} : call'[d] = call[d]
  BY Types
<1>2. \A d \in Call : d \in Owing(q)' <=> Pending(call'[d]) /\ call'[d].quote = q
  BY DEF Owing, Pending
<1>3. \A d \in Call : d \in Owing(q) <=> Pending(call[d]) /\ call[d].quote = q
  BY DEF Owing
<1>4. Owing(q)' \subseteq Call /\ Owing(q) \subseteq Call
  BY DEF Owing
<1> QED
  BY <1>1, <1>2, <1>3, <1>4

\* What is owed of a quote that a step leaves alone.
LEMMA OwedSame ==
  ASSUME TypeOK, NEW q \in Quote, SwapsOwed(q), Owing(q)' = Owing(q),
         cause[q] \subseteq cause'[q], swapped'[q] = swapped[q], booked'[q] = booked[q]
  PROVE  SwapsOwed(q)'
BY DEF SwapsOwed

\* Of a quote that is blamed nothing is promised any more.
LEMMA OwedBlamed ==
  ASSUME TypeOK, NEW q \in Quote, SwapsOwed(q), Owing(q)' \subseteq Owing(q),
         NEW why \in cause'[q], why # "overlap"
  PROVE  SwapsOwed(q)'
<1>1. IsFiniteSet(Owing(q)')
  BY FS_Subset DEF SwapsOwed
<1> QED
  BY <1>1 DEF SwapsOwed

\* A request that goes on without the provider or the ledger being changed, or
\* gives up and leaves a cause.
LEMMA OwedKept ==
  ASSUME Inv, NEW c \in Call, NEW x \in CallRecord, call' = [call EXCEPT ![c] = x],
         swapped' = swapped, booked' = booked,
         \A p \in Quote : cause[p] \subseteq cause'[p],
         \/ Pending(x) /\ Pending(call[c]) /\ x.quote = call[c].quote
         \/ ~Pending(x) /\ ~Pending(call[c])
         \/ ~Pending(x) /\ \E why \in cause'[call[c].quote] : why # "overlap"
  PROVE  SwappedIsOwed'
<1> SUFFICES ASSUME NEW p \in Quote PROVE SwapsOwed(p)'
  BY DEF SwappedIsOwed
<1>0. SwapsOwed(p) /\ TypeOK
  BY DEF Inv, SwappedIsOwed
<1>1. Owing(p)' = IF Pending(x) /\ x.quote = p THEN Owing(p) \cup {c} ELSE Owing(p) \ {c}
  BY <1>0, OwingStep
<1>2. c \in Owing(p) <=> Pending(call[c]) /\ call[c].quote = p
  BY DEF Owing
<1>3. CASE Owing(p)' = Owing(p)
  BY <1>0, <1>3, OwedSame
<1>4. CASE Owing(p)' # Owing(p)
  <2>1. /\ ~Pending(x) /\ call[c].quote = p
        /\ \E why \in cause'[call[c].quote] : why # "overlap"
    BY <1>1, <1>2, <1>4
  <2>2. PICK why \in cause'[p] : why # "overlap"
    BY <2>1
  <2>3. Owing(p)' \subseteq Owing(p)
    BY <1>1, <2>1
  <2> QED
    BY <1>0, <2>2, <2>3, OwedBlamed
<1> QED
  BY <1>3, <1>4

-----------------------------------------------------------------------------
(* Quotes that are confirmed once *)

LEMMA OnStep ==
  ASSUME TypeOK, NEW c \in Call, NEW x \in CallRecord, call' = [call EXCEPT ![c] = x],
         NEW q \in Quote
  PROVE  /\ On(c, q)' <=> x.pc # "idle" /\ x.quote = q
         /\ \A d \in Call \ {c} : On(d, q)' <=> On(d, q)
         /\ call'[c] = x /\ \A d \in Call \ {c} : call'[d] = call[d]
<1>1. call'[c] = x /\ \A d \in Call \ {c} : call'[d] = call[d]
  BY Types
<1> QED
  BY <1>1 DEF On

\* A request that goes on with its quote, or ends and has marked a booked one.
LEMMA CleanKept ==
  ASSUME Inv, NEW c \in Call, NEW x \in CallRecord, call' = [call EXCEPT ![c] = x],
         booked' = booked, \A p \in Quote : cause[p] \subseteq cause'[p],
         \A p \in Quote : quote[p] = "gone" => quote'[p] = "gone",
         x.pc # "idle" => call[c].pc # "idle" /\ x.quote = call[c].quote,
         call[c].pc = "used" => x.pc = "idle" /\ quote'[call[c].quote] = "gone"
  PROVE  CleanIsOnce'
<1> SUFFICES ASSUME NEW p \in Quote, Clean(p)' PROVE OnceIfClean(p)'
  BY DEF CleanIsOnce, OnceIfClean
<1>0. TypeOK /\ OnceIfClean(p) /\ Clean(p)
  BY DEF Inv, CleanIsOnce, Clean
<1>1. /\ On(c, p)' <=> x.pc # "idle" /\ x.quote = p
      /\ \A d \in Call \ {c} : On(d, p)' <=> On(d, p)
      /\ call'[c] = x /\ \A d \in Call \ {c} : call'[d] = call[d]
  BY <1>0, OnStep
<1>2. \A d \in Call : On(d, p)' => On(d, p)
  BY <1>1 DEF On
<1>3. /\ \A d, e \in Call : On(d, p) /\ On(e, p) => d = e
      /\ booked[p] <= 1
      /\ booked[p] = 1 => \/ quote[p] = "gone" /\ \A d \in Call : ~On(d, p)
                          \/ \E d \in Call : On(d, p) /\ call[d].pc = "used"
  BY <1>0 DEF OnceIfClean
<1>4. ASSUME booked[p] = 1
      PROVE  \/ quote'[p] = "gone" /\ \A d \in Call : ~On(d, p)'
             \/ \E d \in Call : On(d, p)' /\ call'[d].pc = "used"
  <2>1. CASE quote[p] = "gone" /\ \A d \in Call : ~On(d, p)
    BY <1>2, <2>1
  <2>2. CASE \E d \in Call : On(d, p) /\ call[d].pc = "used"
    <3>1. PICK d \in Call : On(d, p) /\ call[d].pc = "used"
      BY <2>2
    <3>2. CASE d # c
      BY <1>1, <3>1, <3>2
    <3>3. CASE d = c
      <4>1. x.pc = "idle" /\ quote'[p] = "gone"
        BY <3>1, <3>3 DEF On
      <4>2. \A e \in Call : ~On(e, p)'
        BY <1>1, <1>2, <1>3, <3>1, <3>3, <4>1
      <4> QED
        BY <4>1, <4>2
    <3> QED
      BY <3>2, <3>3
  <2> QED
    BY <1>3, <1>4, <2>1, <2>2
<1>5. \A d, e \in Call : On(d, p)' /\ On(e, p)' => d = e
  BY <1>2, <1>3
<1> QED
  BY <1>3, <1>4, <1>5 DEF OnceIfClean

LEMMA KnownKept ==
  ASSUME Inv, NEW c \in Call, NEW x \in CallRecord, call' = [call EXCEPT ![c] = x],
         \A p \in Quote : quote[p] # "none" => quote'[p] # "none",
         x.pc # "idle" => quote'[x.quote] # "none"
  PROVE  QuotesAreKnown'
<1>1. call'[c] = x /\ \A d \in Call \ {c} : call'[d] = call[d]
  BY Types DEF Inv
<1>2. \A d \in Call : call[d].quote \in Quote
  BY Types DEF Inv, CallRecord
<1>3. ASSUME NEW d \in Call, call'[d].pc # "idle" PROVE quote'[call'[d].quote] # "none"
  BY <1>1, <1>2, <1>3 DEF Inv, QuotesAreKnown
<1> QED
  BY <1>3 DEF QuotesAreKnown

\* A request that goes on with its quote, without the provider or the ledger
\* being changed, or gives up and leaves a cause where it owes one.
LEMMA MoveKeepsInv ==
  ASSUME Inv, NEW c \in Call, NEW x \in CallRecord, call' = [call EXCEPT ![c] = x],
         RowsInv', UNCHANGED <<bal, swapped, booked>>, keys' \subseteq Quote,
         asked' \in 0..Requests, faults' \in 0..Faults,
         quote' \in [Quote -> {"none", "open", "gone"}],
         cause' \in [Quote -> SUBSET Cause],
         \A p \in Quote : cause[p] \subseteq cause'[p],
         \A p \in Quote : quote[p] = "gone" => quote'[p] = "gone",
         \A p \in Quote : quote[p] # "none" => quote'[p] # "none",
         x.pc # "idle" => call[c].pc # "idle" /\ x.quote = call[c].quote,
         call[c].pc = "used" => x.pc = "idle" /\ quote'[call[c].quote] = "gone",
         \/ Pending(x) /\ Pending(call[c])
         \/ ~Pending(x) /\ ~Pending(call[c])
         \/ ~Pending(x) /\ \E why \in cause'[call[c].quote] : why # "overlap"
  PROVE  Inv'
<1>1. TypeOK'
  <2>1. call' \in [Call -> CallRecord]
    BY Types DEF Inv
  <2> QED
    BY <2>1, Types, TypesBut DEF Inv
<1>2. SwappedIsOwed'
  BY OwedKept DEF Pending
<1>3. CleanIsOnce'
  BY CleanKept
<1>4. QuotesAreKnown'
  <2>1. x.pc # "idle" => quote[call[c].quote] # "none" /\ call[c].quote \in Quote
    BY Types DEF Inv, QuotesAreKnown, CallRecord
  <2> QED
    BY <2>1, KnownKept
<1> QED
  BY <1>1, <1>2, <1>3, <1>4 DEF Inv

-----------------------------------------------------------------------------
(* The invariant, step by step *)

\* The request ends, and what it owed has a cause.
LEMMA AbortKeepsInv ==
  ASSUME Inv, NEW c \in Call, Abort(c),
         UNCHANGED <<quote, bal, keys, swapped, booked, asked>>,
         faults' \in 0..Faults, call[c].pc # "used",
         \/ call[c].pc \in {"idle", "provider"} /\ UNCHANGED cause
         \/ \E why \in Cause \ {"overlap"} : Blame(call[c].quote, why)
  PROVE  Inv'
<1>0. TypeOK /\ call[c].quote \in Quote
  BY Types DEF Inv, CallRecord
<1>1. call' = [call EXCEPT ![c] = Resting] /\ Resting \in CallRecord
      /\ Resting.pc = "idle" /\ Resting.from = 0 /\ Resting.to = 0 /\ ~Pending(Resting)
  BY RestingType DEF Abort, Pending
<1>2. RowsInv'
  BY <1>1, RowsFreed
<1>3. /\ cause' \in [Quote -> SUBSET Cause]
      /\ \A p \in Quote : cause[p] \subseteq cause'[p]
      /\ ~Pending(call[c]) \/ \E why \in cause'[call[c].quote] : why # "overlap"
  <2>1. CASE call[c].pc \in {"idle", "provider"} /\ UNCHANGED cause
    BY <1>0, <2>1, Types DEF Pending
  <2>2. CASE \E why \in Cause \ {"overlap"} : Blame(call[c].quote, why)
    <3>1. PICK why \in Cause \ {"overlap"} : Blame(call[c].quote, why)
      BY <2>2
    <3> QED
      BY <1>0, <3>1, Blaming
  <2> QED
    BY <2>1, <2>2
<1> HIDE DEF Abort
<1> QED
  BY <1>0, <1>1, <1>2, <1>3, Types, MoveKeepsInv

LEMMA CreateQuoteInv == ASSUME Inv, NEW q \in Quote, CreateQuote(q) PROVE Inv'
<1>1. TypeOK' /\ RowsInv' /\ SwappedIsOwed'
  <2>1. UNCHANGED <<bal, keys, call, swapped, booked, asked, cause, faults>>
    BY DEF CreateQuote
  <2>2. quote' \in [Quote -> {"none", "open", "gone"}]
    BY Types DEF Inv, CreateQuote
  <2>3. TypeOK'
    BY <2>1, <2>2, Types, TypesBut DEF Inv
  <2>4. RowsInv'
    BY <2>1, RowsSame DEF Inv
  <2> QED
    BY <2>3, <2>4 DEF Inv, CreateQuote, SwappedIsOwed, SwapsOwed, Owing, Pending
<1>2. \A p \in Quote : p # q => quote'[p] = quote[p]
  BY DEF Inv, TypeOK, CreateQuote
<1>3. quote'[q] = "open" /\ quote[q] = "none"
  BY DEF Inv, TypeOK, CreateQuote
<1>4. \A c \in Call : ~On(c, q)
  BY <1>3 DEF Inv, QuotesAreKnown, On
<1>5. ASSUME NEW p \in Quote PROVE OnceIfClean(p)'
  <2>1. OnceIfClean(p) /\ UNCHANGED <<call, cause, booked>>
    BY DEF Inv, CleanIsOnce, CreateQuote
  <2>2. \A c \in Call : On(c, p)' <=> On(c, p)
    BY <2>1 DEF On
  <2>3. CASE p = q
    BY <1>3, <1>4, <2>1, <2>2, <2>3 DEF OnceIfClean, Clean
  <2>4. CASE p # q
    BY <1>2, <2>1, <2>2, <2>4 DEF OnceIfClean, Clean
  <2> QED
    BY <2>3, <2>4
<1>6. QuotesAreKnown'
  BY <1>2, <1>3, Types DEF Inv, QuotesAreKnown, CreateQuote, CallRecord
<1> QED
  BY <1>1, <1>5, <1>6 DEF Inv, CleanIsOnce

LEMMA ExpireQuoteInv == ASSUME Inv, NEW q \in Quote, ExpireQuote(q) PROVE Inv'
<1>1. TypeOK' /\ RowsInv' /\ SwappedIsOwed'
  <2>1. UNCHANGED <<bal, keys, call, swapped, booked, asked, cause, faults>>
    BY DEF ExpireQuote
  <2>2. quote' \in [Quote -> {"none", "open", "gone"}]
    BY Types DEF Inv, ExpireQuote
  <2>3. TypeOK'
    BY <2>1, <2>2, Types, TypesBut DEF Inv
  <2>4. RowsInv'
    BY <2>1, RowsSame DEF Inv
  <2> QED
    BY <2>3, <2>4 DEF Inv, ExpireQuote, SwappedIsOwed, SwapsOwed, Owing, Pending
<1>2. \A p \in Quote : quote'[p] = quote[p] \/ quote'[p] = "gone"
  BY DEF Inv, TypeOK, ExpireQuote
<1>3. ASSUME NEW p \in Quote PROVE OnceIfClean(p)'
  <2>1. OnceIfClean(p) /\ UNCHANGED <<call, cause, booked>>
    BY DEF Inv, CleanIsOnce, ExpireQuote
  <2>2. \A c \in Call : On(c, p)' <=> On(c, p)
    BY <2>1 DEF On
  <2> QED
    BY <1>2, <2>1, <2>2 DEF OnceIfClean, Clean
<1>4. QuotesAreKnown'
  BY <1>2, Types DEF Inv, QuotesAreKnown, ExpireQuote, CallRecord
<1> QED
  BY <1>1, <1>3, <1>4 DEF Inv, CleanIsOnce

LEMMA ConfirmInv ==
  ASSUME Inv, NEW c \in Call, NEW q \in Quote, Confirm(c, q) PROVE Inv'
<1>1. PICK x \in CallRecord :
        /\ call' = [call EXCEPT ![c] = x]
        /\ x.pc = "provider" /\ x.quote = q /\ x.from = 0 /\ x.to = 0
  <2>1. [Resting EXCEPT !.pc = "provider", !.quote = q] \in CallRecord
    BY RestingType DEF CallRecord
  <2>2. /\ [Resting EXCEPT !.pc = "provider", !.quote = q].pc = "provider"
        /\ [Resting EXCEPT !.pc = "provider", !.quote = q].quote = q
        /\ [Resting EXCEPT !.pc = "provider", !.quote = q].from = 0
        /\ [Resting EXCEPT !.pc = "provider", !.quote = q].to = 0
    BY RestingType DEF CallRecord
  <2> QED
    BY <2>1, <2>2 DEF Confirm
<1>2. /\ call[c].pc = "idle" /\ quote[q] = "open" /\ asked < Requests /\ asked' = asked + 1
      /\ IF Confirming(q) THEN Blame(q, "overlap") ELSE UNCHANGED cause
      /\ UNCHANGED <<quote, bal, keys, swapped, booked, faults>>
  BY DEF Confirm, At
<1>3. /\ cause' \in [Quote -> SUBSET Cause]
      /\ \A p \in Quote : cause[p] \subseteq cause'[p]
      /\ Confirming(q) => "overlap" \in cause'[q]
  <2>1. "overlap" \in Cause /\ TypeOK
    BY DEF Cause, Inv
  <2>2. CASE Confirming(q)
    BY <1>2, <2>1, <2>2, Blaming
  <2>3. CASE ~Confirming(q)
    BY <1>2, <2>1, <2>3, Types
  <2> QED
    BY <2>2, <2>3
<1>4. TypeOK'
  <2>1. call' \in [Call -> CallRecord]
    BY <1>1, Types DEF Inv
  <2>2. asked' \in 0..Requests
    <3>1. asked \in 0..Requests /\ Requests \in Nat
      BY Types, SwapAssumption DEF Inv
    <3> QED
      BY <1>2, <3>1
  <2> QED
    BY <1>2, <1>3, <2>1, <2>2, Types, TypesBut DEF Inv
<1>5. RowsInv'
  BY <1>1, <1>2, RowsFreed
<1>6. SwappedIsOwed'
  <2>1. ~Pending(x) /\ ~Pending(call[c])
    BY <1>1, <1>2 DEF Pending
  <2> QED
    BY <1>1, <1>2, <1>3, <2>1, OwedKept
<1>7. ASSUME NEW p \in Quote, Clean(p)' PROVE OnceIfClean(p)'
  <2>1. OnceIfClean(p) /\ Clean(p) /\ TypeOK
    BY <1>3, <1>7 DEF Inv, CleanIsOnce, Clean
  <2>2. /\ On(c, p)' <=> x.pc # "idle" /\ x.quote = p
        /\ \A d \in Call \ {c} : On(d, p)' <=> On(d, p)
        /\ call'[c] = x /\ \A d \in Call \ {c} : call'[d] = call[d]
    BY <1>1, <2>1, OnStep
  <2>3. CASE p = q
    <3>1. \A d \in Call : ~On(d, p)
      <4>1. ~Confirming(q)
        BY <1>3, <1>7, <2>3 DEF Clean
      <4> QED
        BY <2>3, <4>1 DEF Confirming, On, At
    <3>2. booked[p] <= 1 /\ booked[p] # 1
      BY <1>2, <2>1, <2>3, <3>1 DEF OnceIfClean
    <3> QED
      BY <1>2, <2>2, <3>1, <3>2 DEF OnceIfClean
  <2>4. CASE p # q
    <3>1. ~On(c, p) /\ ~On(c, p)'
      BY <1>1, <1>2, <2>2, <2>4 DEF On
    <3> QED
      BY <1>2, <2>1, <2>2, <3>1 DEF OnceIfClean
  <2> QED
    BY <2>3, <2>4
<1>8. CleanIsOnce'
  BY <1>7 DEF CleanIsOnce, OnceIfClean
<1>9. QuotesAreKnown'
  BY <1>1, <1>2, KnownKept
<1> QED
  BY <1>4, <1>5, <1>6, <1>8, <1>9 DEF Inv

\* A move that changes the request alone.
LEMMA AloneKeepsInv ==
  ASSUME Inv, NEW c \in Call, NEW x \in CallRecord, call' = [call EXCEPT ![c] = x],
         RowsInv', UNCHANGED <<quote, bal, keys, swapped, booked, asked, cause, faults>>,
         x.quote = call[c].quote, Pending(x), Pending(call[c])
  PROVE  Inv'
<1>1. call[c].pc \notin {"idle", "used"}
  BY DEF Pending
<1>2. \A p \in Quote : cause[p] \subseteq cause'[p]
  OBVIOUS
<1> QED
  BY <1>1, <1>2, Types, MoveKeepsInv DEF Inv

LEMMA ExecuteInv == ASSUME Inv, NEW c \in Call, ExecuteWithProvider(c) PROVE Inv'
<1>1. PICK q \in Quote : q = call[c].quote
  BY Types DEF Inv, CallRecord
<1>2. PICK x \in CallRecord :
        /\ call' = [call EXCEPT ![c] = x]
        /\ x.pc = "from" /\ x.quote = q /\ x.from = 0 /\ x.to = 0
  <2>1. call[c] \in CallRecord /\ call[c].pc = "provider"
    BY Types DEF Inv, ExecuteWithProvider, At
  <2>2. call[c].from = 0 /\ call[c].to = 0
    BY <2>1 DEF Inv, RowsInv, Fresh
  <2>3. /\ [call[c] EXCEPT !.pc = "from"] \in CallRecord
        /\ [call[c] EXCEPT !.pc = "from"].pc = "from"
        /\ [call[c] EXCEPT !.pc = "from"].quote = q
        /\ [call[c] EXCEPT !.pc = "from"].from = 0
        /\ [call[c] EXCEPT !.pc = "from"].to = 0
    BY <1>1, <2>1, <2>2 DEF CallRecord
  <2>4. call' = [call EXCEPT ![c] = [call[c] EXCEPT !.pc = "from"]]
    BY DEF ExecuteWithProvider, GoTo
  <2> QED
    BY <2>3, <2>4
<1>3. /\ call[c].pc = "provider" /\ swapped' = [swapped EXCEPT ![q] = swapped[q] + 1]
      /\ UNCHANGED <<quote, bal, keys, booked, asked, cause, faults>>
  BY <1>1 DEF ExecuteWithProvider, At
<1>4. /\ swapped' \in [Quote -> Nat] /\ swapped'[q] = swapped[q] + 1
      /\ \A p \in Quote \ {q} : swapped'[p] = swapped[p]
  BY <1>3, Types DEF Inv
<1>5. TypeOK'
  <2>1. call' \in [Call -> CallRecord]
    BY <1>2, Types DEF Inv
  <2> QED
    BY <1>3, <1>4, <2>1, Types, TypesBut DEF Inv
<1>6. RowsInv'
  BY <1>2, <1>3, RowsFreed
<1>7. ASSUME NEW p \in Quote PROVE SwapsOwed(p)'
  <2>1. SwapsOwed(p) /\ TypeOK
    BY DEF Inv, SwappedIsOwed
  <2>2. Owing(p)' = IF Pending(x) /\ x.quote = p THEN Owing(p) \cup {c} ELSE Owing(p) \ {c}
    BY <1>2, <2>1, OwingStep
  <2>3. c \notin Owing(p)
    BY <1>3 DEF Owing, Pending
  <2>4. CASE p = q
    <3>1. Owing(p)' = Owing(p) \cup {c}
      BY <1>2, <2>2, <2>4 DEF Pending
    <3>2. /\ IsFiniteSet(Owing(p)') /\ Cardinality(Owing(p)') = Cardinality(Owing(p)) + 1
          /\ Cardinality(Owing(p)) \in Nat
      BY <2>1, <2>3, <3>1, FS_AddElement, FS_CardinalityType DEF SwapsOwed
    <3>3. swapped[p] \in Nat /\ booked[p] \in Nat
      BY Types DEF Inv
    <3> QED
      BY <1>3, <1>4, <2>1, <2>4, <3>2, <3>3 DEF SwapsOwed
  <2>5. CASE p # q
    <3>1. Owing(p)' = Owing(p)
      BY <1>2, <2>2, <2>3, <2>5
    <3> QED
      BY <1>3, <1>4, <2>1, <2>5, <3>1, OwedSame
  <2> QED
    BY <2>4, <2>5
<1>8. CleanIsOnce'
  BY <1>1, <1>2, <1>3, CleanKept
<1>9. QuotesAreKnown'
  <2>1. quote[q] # "none"
    BY <1>1, <1>3 DEF Inv, QuotesAreKnown
  <2> QED
    BY <1>2, <1>3, <2>1, KnownKept
<1> QED
  BY <1>5, <1>6, <1>7, <1>8, <1>9 DEF Inv, SwappedIsOwed

LEMMA UnansweredInv == ASSUME Inv, NEW c \in Call, ProviderUnanswered(c) PROVE Inv'
<1>1. PICK q \in Quote : q = call[c].quote
  BY Types DEF Inv, CallRecord
<1>2. /\ call' = [call EXCEPT ![c] = Resting] /\ Resting \in CallRecord
      /\ Resting.pc = "idle" /\ Resting.from = 0 /\ Resting.to = 0 /\ ~Pending(Resting)
  BY RestingType DEF ProviderUnanswered, Abort, Pending
<1>3. /\ call[c].pc = "provider" /\ swapped' = [swapped EXCEPT ![q] = swapped[q] + 1]
      /\ UNCHANGED <<quote, bal, keys, booked, asked>> /\ Fault /\ Blame(q, "unanswered")
  BY <1>1 DEF ProviderUnanswered, At
<1>4. /\ swapped' \in [Quote -> Nat]
      /\ \A p \in Quote \ {q} : swapped'[p] = swapped[p]
  BY <1>3, Types DEF Inv
<1>5. /\ cause' \in [Quote -> SUBSET Cause] /\ "unanswered" \in cause'[q]
      /\ \A p \in Quote : cause[p] \subseteq cause'[p]
  BY <1>3, Blaming DEF Inv, Cause
<1>6. TypeOK'
  <2>1. call' \in [Call -> CallRecord]
    BY <1>2, Types DEF Inv
  <2> QED
    BY <1>3, <1>4, <1>5, <2>1, Types, FaultType, TypesBut DEF Inv
<1>7. RowsInv'
  BY <1>2, <1>3, RowsFreed
<1>8. ASSUME NEW p \in Quote PROVE SwapsOwed(p)'
  <2>1. SwapsOwed(p) /\ TypeOK
    BY DEF Inv, SwappedIsOwed
  <2>2. Owing(p)' = IF Pending(Resting) /\ Resting.quote = p
                    THEN Owing(p) \cup {c} ELSE Owing(p) \ {c}
    BY <1>2, <2>1, OwingStep
  <2>3. c \notin Owing(p)
    BY <1>3 DEF Owing, Pending
  <2>4. Owing(p)' = Owing(p)
    BY <1>2, <2>2, <2>3
  <2>5. CASE p = q
    BY <1>5, <2>1, <2>4, <2>5, OwedBlamed
  <2>6. CASE p # q
    BY <1>3, <1>4, <1>5, <2>1, <2>4, <2>6, OwedSame
  <2> QED
    BY <2>5, <2>6
<1>9. CleanIsOnce'
  BY <1>2, <1>3, <1>5, CleanKept
<1>10. QuotesAreKnown'
  BY <1>2, <1>3, KnownKept
<1> QED
  BY <1>6, <1>7, <1>8, <1>9, <1>10 DEF Inv, SwappedIsOwed

LEMMA GiveUpInv ==
  ASSUME Inv, NEW c \in Call,
         \/ ProviderRefuses(c) \/ Insufficient(c) \/ Deadlock(c) \/ RefuseKey(c)
         \/ QueryFails(c)
  PROVE  Inv'
<1>1. "insufficient" # "overlap" /\ "deadlock" # "overlap" /\ "duplicate" # "overlap"
      /\ "db" # "overlap"
      /\ {"insufficient", "deadlock", "duplicate", "db"} \subseteq Cause
  BY DEF Cause
<1>2. faults \in 0..Faults
  BY Types DEF Inv
<1>3. CASE ProviderRefuses(c)
  BY <1>2, <1>3, AbortKeepsInv DEF ProviderRefuses, At
<1>4. CASE Insufficient(c)
  BY <1>1, <1>2, <1>4, AbortKeepsInv DEF Insufficient, At
<1>5. CASE Deadlock(c)
  BY <1>1, <1>2, <1>5, AbortKeepsInv DEF Deadlock, At
<1>6. CASE RefuseKey(c)
  BY <1>1, <1>2, <1>6, AbortKeepsInv DEF RefuseKey, At
<1>7. CASE QueryFails(c)
  <2>1. faults' \in 0..Faults
    BY <1>7, FaultType DEF QueryFails, Inv
  <2> QED
    BY <1>1, <1>7, <2>1, AbortKeepsInv DEF QueryFails
<1> QED
  BY <1>3, <1>4, <1>5, <1>6, <1>7

LEMMA LockFromInv == ASSUME Inv, NEW c \in Call, LockFrom(c) PROVE Inv'
<1>1. PICK q \in Quote : q = call[c].quote
  BY Types DEF Inv, CallRecord
<1>2. From[q] \in Token /\ To[q] \in Token /\ From[q] # To[q] /\ bal[From[q]] \in Seq(Nat)
  BY QuoteTypes, Types DEF Inv
<1>3. PICK i \in DOMAIN bal[From[q]] :
        /\ Free(c, From[q], i) /\ bal[From[q]][i] >= In[q]
        /\ call' = [call EXCEPT ![c].pc = "to", ![c].from = i, ![c].had = bal[From[q]][i]]
  BY <1>1 DEF LockFrom
<1>4. PICK n : n = bal[From[q]][i]
  OBVIOUS
<1> DEFINE x == [call[c] EXCEPT !.pc = "to", !.from = i, !.had = n]
<1>5. call[c] \in CallRecord /\ call[c].pc = "from" /\ call[c].to = 0
  BY Types DEF Inv, LockFrom, At, RowsInv, Fresh
<1>6. /\ x \in CallRecord /\ x.pc = "to" /\ x.quote = q /\ x.from = i /\ x.to = 0 /\ x.had = n
      /\ i \in Nat /\ i # 0
  <2>1. i \in Nat /\ i # 0 /\ n \in Nat
    BY <1>2, <1>4
  <2> QED
    BY <1>1, <1>5, <2>1 DEF CallRecord
<1>7. call' = [call EXCEPT ![c] = x]
  BY <1>3, <1>4
<1> HIDE DEF x
<1>8. Fresh(x, bal)
  BY <1>3, <1>4, <1>6 DEF Fresh
<1>9. \A t \in Token : \A j \in HeldBy(x, t) \ {0} :
        j \in HeldBy(call[c], t) \/ Free(c, t, j)
  BY <1>3, <1>6 DEF HeldBy
<1>10. UNCHANGED <<quote, bal, keys, swapped, booked, asked, cause, faults>>
  BY DEF LockFrom
<1>11. RowsInv'
  BY <1>6, <1>7, <1>8, <1>9, <1>10, RowsKept
<1>12. Pending(x) /\ Pending(call[c])
  BY <1>5, <1>6 DEF Pending
<1> QED
  BY <1>1, <1>6, <1>7, <1>10, <1>11, <1>12, AloneKeepsInv

LEMMA LockToInv == ASSUME Inv, NEW c \in Call, LockTo(c) PROVE Inv'
<1>1. PICK q \in Quote : q = call[c].quote
  BY Types DEF Inv, CallRecord
<1>2. From[q] \in Token /\ To[q] \in Token /\ From[q] # To[q] /\ bal[To[q]] \in Seq(Nat)
  BY QuoteTypes, Types DEF Inv
<1>3. call[c] \in CallRecord /\ call[c].pc = "to" /\ call[c].to = 0 /\ Fresh(call[c], bal)
  BY Types DEF Inv, LockTo, At, RowsInv, Fresh
<1>4. UNCHANGED <<quote, bal, keys, swapped, booked, asked, cause, faults>>
  BY DEF LockTo
<1>5. Pending(call[c])
  BY <1>3 DEF Pending
<1>6. CASE bal[To[q]] = <<>> /\ GoTo(c, "commit")
  <2> DEFINE x == [call[c] EXCEPT !.pc = "commit"]
  <2>1. /\ x \in CallRecord /\ x.pc = "commit" /\ x.quote = q /\ x.from = call[c].from
        /\ x.to = 0 /\ x.had = call[c].had
    BY <1>1, <1>3 DEF CallRecord
  <2>2. call' = [call EXCEPT ![c] = x]
    BY <1>6 DEF GoTo
  <2> HIDE DEF x
  <2>3. Fresh(x, bal)
    BY <1>1, <1>3, <2>1 DEF Fresh
  <2>4. \A t \in Token : \A j \in HeldBy(x, t) \ {0} :
          j \in HeldBy(call[c], t) \/ Free(c, t, j)
    BY <1>1, <2>1 DEF HeldBy
  <2>5. RowsInv'
    BY <1>4, <2>1, <2>2, <2>3, <2>4, RowsKept
  <2>6. Pending(x)
    BY <2>1 DEF Pending
  <2> QED
    BY <1>1, <1>4, <1>5, <2>1, <2>2, <2>5, <2>6, AloneKeepsInv
<1>7. CASE \E i \in DOMAIN bal[To[q]] :
             /\ Free(c, To[q], i)
             /\ call' = [call EXCEPT ![c].pc = "commit", ![c].to = i, ![c].hadTo = bal[To[q]][i]]
  <2>1. PICK i \in DOMAIN bal[To[q]] :
          /\ Free(c, To[q], i)
          /\ call' = [call EXCEPT ![c].pc = "commit", ![c].to = i, ![c].hadTo = bal[To[q]][i]]
    BY <1>7
  <2>2. PICK n : n = bal[To[q]][i]
    OBVIOUS
  <2> DEFINE x == [call[c] EXCEPT !.pc = "commit", !.to = i, !.hadTo = n]
  <2>3. /\ x \in CallRecord /\ x.pc = "commit" /\ x.quote = q /\ x.from = call[c].from
        /\ x.to = i /\ x.had = call[c].had /\ x.hadTo = n
    <3>1. i \in Nat /\ n \in Nat
      BY <1>2, <2>2
    <3> QED
      BY <1>1, <1>3, <3>1 DEF CallRecord
  <2>4. call' = [call EXCEPT ![c] = x]
    BY <2>1, <2>2
  <2> HIDE DEF x
  <2>5. Fresh(x, bal)
    BY <1>1, <1>3, <2>2, <2>3 DEF Fresh
  <2>6. \A t \in Token : \A j \in HeldBy(x, t) \ {0} :
          j \in HeldBy(call[c], t) \/ Free(c, t, j)
    BY <1>1, <2>1, <2>3 DEF HeldBy
  <2>7. RowsInv'
    BY <1>4, <2>3, <2>4, <2>5, <2>6, RowsKept
  <2>8. Pending(x)
    BY <2>3 DEF Pending
  <2> QED
    BY <1>1, <1>4, <1>5, <2>3, <2>4, <2>7, <2>8, AloneKeepsInv
<1> QED
  BY <1>1, <1>6, <1>7 DEF LockTo

LEMMA MarkUsedInv == ASSUME Inv, NEW c \in Call, MarkUsed(c) PROVE Inv'
<1>1. PICK q \in Quote : q = call[c].quote
  BY Types DEF Inv, CallRecord
<1>2. /\ call' = [call EXCEPT ![c] = Resting] /\ Resting \in CallRecord
      /\ Resting.pc = "idle" /\ Resting.from = 0 /\ Resting.to = 0
      /\ ~Pending(Resting) /\ ~Pending(call[c])
  BY RestingType DEF MarkUsed, At, Pending
<1>3. quote' = [quote EXCEPT ![q] = "gone"]
      /\ UNCHANGED <<bal, keys, swapped, booked, asked, cause, faults>>
  BY <1>1 DEF MarkUsed
<1>4. /\ quote' \in [Quote -> {"none", "open", "gone"}] /\ quote'[q] = "gone"
      /\ \A p \in Quote : quote[p] = "gone" => quote'[p] = "gone"
      /\ \A p \in Quote : quote[p] # "none" => quote'[p] # "none"
  BY <1>3, Types DEF Inv
<1>5. RowsInv'
  BY <1>2, <1>3, RowsFreed
<1>6. \A p \in Quote : cause[p] \subseteq cause'[p]
  BY <1>3
<1> QED
  BY <1>1, <1>2, <1>3, <1>4, <1>5, <1>6, Types, MoveKeepsInv DEF Inv

\* What Commit and a commit whose answer is lost have in common.
LEMMA BookingKeepsInv ==
  ASSUME Inv, NEW c \in Call, NEW q \in Quote, q = call[c].quote,
         At(c, "commit"), Booked(c), UNCHANGED <<quote, swapped, asked>>,
         faults' \in 0..Faults,
         cause' \in [Quote -> SUBSET Cause],
         \A p \in Quote : cause[p] \subseteq cause'[p],
         NEW x \in CallRecord, call' = [call EXCEPT ![c] = x], x.from = 0, x.to = 0,
         \/ x.pc = "used" /\ x.quote = q
         \/ x.pc = "idle" /\ "unanswered" \in cause'[q]
  PROVE  Inv'
<1>1. /\ bal' \in [Token -> Seq(Nat)] /\ keys' \subseteq Quote
      /\ booked' = [booked EXCEPT ![q] = booked[q] + 1]
  BY BookedIs
<1>2. /\ booked' \in [Quote -> Nat] /\ booked'[q] = booked[q] + 1
      /\ \A p \in Quote \ {q} : booked'[p] = booked[p]
  BY <1>1, Types DEF Inv
<1>3. TypeOK'
  <2>1. call' \in [Call -> CallRecord]
    BY Types DEF Inv
  <2> QED
    BY <1>1, <1>2, <2>1, Types, TypesBut DEF Inv
<1>4. RowsInv'
  BY BookingLeavesRows
<1>5. call[c].pc = "commit" /\ Pending(call[c]) /\ ~Pending(x)
  BY DEF At, Pending
<1>6. ASSUME NEW p \in Quote PROVE SwapsOwed(p)'
  <2>1. SwapsOwed(p) /\ TypeOK
    BY DEF Inv, SwappedIsOwed
  <2>2. Owing(p)' = IF Pending(x) /\ x.quote = p THEN Owing(p) \cup {c} ELSE Owing(p) \ {c}
    BY <2>1, OwingStep
  <2>3. c \in Owing(p) <=> p = q
    BY <1>5 DEF Owing
  <2>4. CASE p = q
    <3>1. Owing(p)' = Owing(p) \ {c} /\ c \in Owing(p)
      BY <1>5, <2>2, <2>3, <2>4
    <3>2. /\ IsFiniteSet(Owing(p)') /\ Cardinality(Owing(p)') = Cardinality(Owing(p)) - 1
          /\ Cardinality(Owing(p)) \in Nat
      BY <2>1, <3>1, FS_RemoveElement, FS_CardinalityType DEF SwapsOwed
    <3>3. swapped[p] \in Nat /\ booked[p] \in Nat
      BY Types DEF Inv
    <3>4. CASE cause[p] \ {"overlap"} # {}
      <4>1. cause'[p] \ {"overlap"} # {}
        BY <3>4
      <4> QED
        BY <3>2, <4>1 DEF SwapsOwed
    <3>5. CASE swapped[p] <= booked[p] + Cardinality(Owing(p))
      <4>1. swapped'[p] <= booked'[p] + Cardinality(Owing(p)')
        BY <1>2, <2>4, <3>2, <3>3, <3>5
      <4> QED
        BY <3>2, <4>1 DEF SwapsOwed
    <3> QED
      BY <2>1, <3>4, <3>5 DEF SwapsOwed
  <2>5. CASE p # q
    <3>1. Owing(p)' = Owing(p)
      BY <1>5, <2>2, <2>3, <2>5
    <3> QED
      BY <1>2, <2>1, <2>5, <3>1, OwedSame
  <2> QED
    BY <2>4, <2>5
<1>7. ASSUME NEW p \in Quote, Clean(p)' PROVE OnceIfClean(p)'
  <2>1. OnceIfClean(p) /\ Clean(p) /\ TypeOK
    BY <1>7 DEF Inv, CleanIsOnce, Clean
  <2>2. /\ On(c, p)' <=> x.pc # "idle" /\ x.quote = p
        /\ \A d \in Call \ {c} : On(d, p)' <=> On(d, p)
        /\ call'[c] = x /\ \A d \in Call \ {c} : call'[d] = call[d]
    BY <2>1, OnStep
  <2>3. CASE p = q
    <3>1. x.pc = "used" /\ x.quote = q
      BY <1>7, <2>3 DEF Clean
    <3>2. On(c, p) /\ On(c, p)' /\ \A d \in Call \ {c} : ~On(d, p)
      BY <1>5, <2>1, <2>2, <2>3, <3>1 DEF On, OnceIfClean
    <3>3. booked[p] # 1 /\ booked[p] <= 1 /\ booked[p] \in Nat
      BY <1>5, <2>1, <3>2, Types DEF OnceIfClean
    <3>4. booked'[p] = 1
      BY <1>2, <2>3, <3>3
    <3> QED
      BY <2>2, <3>1, <3>2, <3>4 DEF OnceIfClean
  <2>4. CASE p # q
    <3>1. ~On(c, p) /\ ~On(c, p)'
      BY <2>2, <2>4 DEF On
    <3> QED
      BY <1>2, <2>1, <2>2, <2>4, <3>1 DEF OnceIfClean
  <2> QED
    BY <2>3, <2>4
<1>8. QuotesAreKnown'
  <2>1. quote[q] # "none"
    BY <1>5 DEF Inv, QuotesAreKnown
  <2> QED
    BY <2>1, KnownKept
<1> QED
  BY <1>3, <1>4, <1>6, <1>7, <1>8 DEF Inv, SwappedIsOwed, CleanIsOnce, OnceIfClean

LEMMA CommitInv == ASSUME Inv, NEW c \in Call, Commit(c) PROVE Inv'
<1>1. PICK q \in Quote : q = call[c].quote
  BY Types DEF Inv, CallRecord
<1> DEFINE x == [Resting EXCEPT !.pc = "used", !.quote = q]
<1>2. x \in CallRecord /\ x.pc = "used" /\ x.quote = q /\ x.from = 0 /\ x.to = 0
  BY RestingType DEF CallRecord
<1>3. call' = [call EXCEPT ![c] = x]
  BY <1>1 DEF Commit
<1> HIDE DEF x
<1>4. /\ At(c, "commit") /\ Booked(c)
      /\ UNCHANGED <<quote, swapped, asked, cause, faults>>
  BY DEF Commit
<1>5. /\ cause' \in [Quote -> SUBSET Cause] /\ faults' \in 0..Faults
      /\ \A p \in Quote : cause[p] \subseteq cause'[p]
  BY <1>4, Types DEF Inv
<1>6. UNCHANGED <<quote, swapped, asked>>
  BY <1>4
<1> QED
  BY <1>1, <1>2, <1>3, <1>4, <1>5, <1>6, BookingKeepsInv

LEMMA CommitUnansweredInv == ASSUME Inv, NEW c \in Call, CommitUnanswered(c) PROVE Inv'
<1>1. PICK q \in Quote : q = call[c].quote
  BY Types DEF Inv, CallRecord
<1>2. call' = [call EXCEPT ![c] = Resting] /\ Resting \in CallRecord
      /\ Resting.pc = "idle" /\ Resting.from = 0 /\ Resting.to = 0
  BY RestingType DEF CommitUnanswered, Abort
<1>3. /\ At(c, "commit") /\ Booked(c) /\ UNCHANGED <<quote, swapped, asked>>
      /\ Fault /\ Blame(q, "unanswered")
  BY <1>1 DEF CommitUnanswered
<1>4. /\ cause' \in [Quote -> SUBSET Cause] /\ "unanswered" \in cause'[q]
      /\ \A p \in Quote : cause[p] \subseteq cause'[p]
  BY <1>3, Blaming DEF Inv, Cause
<1>5. faults' \in 0..Faults
  BY <1>3, FaultType DEF Inv
<1> QED
  BY <1>1, <1>2, <1>3, <1>4, <1>5, BookingKeepsInv

LEMMA CrashInv == ASSUME Inv, Crash PROVE Inv'
<1>1. /\ \A c \in Call : call'[c] = Resting
      /\ call' \in [Call -> CallRecord]
      /\ Resting.pc = "idle" /\ Resting.from = 0 /\ Resting.to = 0
  BY RestingType DEF Crash
<1>2. /\ UNCHANGED <<bal, keys, swapped, booked, asked>> /\ Fault
      /\ quote' = [q \in Quote |-> IF quote[q] = "open" THEN "gone" ELSE quote[q]]
      /\ cause' = [q \in Quote |-> cause[q] \cup {w \in {"crash"} : Confirming(q)}]
  BY DEF Crash
<1>3. quote' \in [Quote -> {"none", "open", "gone"}]
  BY <1>2, Types DEF Inv
<1>4. /\ cause' \in [Quote -> SUBSET Cause]
      /\ \A p \in Quote : cause[p] \subseteq cause'[p]
      /\ \A p \in Quote : Confirming(p) => "crash" \in cause'[p]
  BY <1>2, Types DEF Inv, Cause
<1>5. TypeOK'
  BY <1>1, <1>2, <1>3, <1>4, Types, FaultType, TypesBut DEF Inv
<1>6. RowsInv'
  <2>1. \A c \in Call : Fresh(call'[c], bal')
    BY <1>1 DEF Fresh
  <2>2. LocksExclude'
    <3>1. \A t \in Token : HeldBy(Resting, t) \subseteq {0}
      BY <1>1 DEF HeldBy
    <3>2. ASSUME NEW c \in Call, NEW d \in Call, NEW t \in Token
          PROVE  HeldBy(call'[c], t) \cap HeldBy(call'[d], t) \subseteq {0}
      BY <1>1, <3>1
    <3> QED
      BY <3>2 DEF LocksExclude, HeldBy
  <2> QED
    BY <2>1, <2>2 DEF RowsInv, Fresh
<1>7. ASSUME NEW p \in Quote PROVE SwapsOwed(p)'
  <2>1. SwapsOwed(p)
    BY DEF Inv, SwappedIsOwed
  <2>2. Owing(p)' = {}
    BY <1>1 DEF Owing, Pending
  <2>3. IsFiniteSet(Owing(p)')
    BY <2>2, FS_EmptySet
  <2>4. CASE Confirming(p)
    <3>1. "crash" # "overlap" /\ "crash" \in cause'[p]
      BY <1>4, <2>4
    <3> QED
      BY <2>3, <3>1 DEF SwapsOwed
  <2>5. CASE ~Confirming(p)
    <3>1. Owing(p) = {}
      BY <2>5 DEF Owing, Pending, Confirming, At
    <3>2. Owing(p)' = Owing(p)
      BY <2>2, <3>1
    <3> QED
      BY <1>2, <1>4, <2>1, <3>2, OwedSame DEF Inv
  <2> QED
    BY <2>4, <2>5
<1>8. ASSUME NEW p \in Quote, Clean(p)' PROVE OnceIfClean(p)'
  <2>1. OnceIfClean(p) /\ Clean(p)
    BY <1>4, <1>8 DEF Inv, CleanIsOnce, Clean
  <2>2. \A c \in Call : ~On(c, p)'
    BY <1>1 DEF On
  <2>3. booked[p] = 1 => quote'[p] = "gone"
    <3>1. quote[p] # "none" => quote'[p] = "gone"
      BY <1>2, Types DEF Inv
    <3>2. \A c \in Call : On(c, p) => quote[p] # "none"
      BY DEF Inv, QuotesAreKnown, On
    <3> QED
      BY <2>1, <3>1, <3>2 DEF OnceIfClean
  <2> QED
    BY <1>2, <2>1, <2>2, <2>3 DEF OnceIfClean
<1>9. QuotesAreKnown'
  BY <1>1 DEF QuotesAreKnown
<1> QED
  BY <1>5, <1>6, <1>7, <1>8, <1>9 DEF Inv, SwappedIsOwed, CleanIsOnce, OnceIfClean

LEMMA InitInv == Init => Inv
<1> SUFFICES ASSUME Init PROVE Inv
  OBVIOUS
<1>1. /\ \A c \in Call : call[c] = Resting
      /\ call \in [Call -> CallRecord]
      /\ Resting.pc = "idle" /\ Resting.from = 0 /\ Resting.to = 0
  BY RestingType DEF Init
<1>2. TypeOK
  BY <1>1, SwapAssumption DEF Init, TypeOK, CallRecord
<1>3. RowsInv
  <2>1. \A t \in Token : HeldBy(Resting, t) \subseteq {0}
    BY <1>1 DEF HeldBy
  <2> QED
    BY <1>1, <2>1 DEF RowsInv, Fresh, LocksExclude
<1>4. ASSUME NEW p \in Quote PROVE SwapsOwed(p)
  <2>1. Owing(p) = {}
    BY <1>1 DEF Owing, Pending
  <2>2. IsFiniteSet(Owing(p)) /\ Cardinality(Owing(p)) = 0
    BY <2>1, FS_EmptySet
  <2> QED
    BY <2>2 DEF SwapsOwed, Init
<1>5. CleanIsOnce
  BY <1>1 DEF CleanIsOnce, OnceIfClean, On, Init
<1>6. QuotesAreKnown
  BY <1>1 DEF QuotesAreKnown
<1> QED
  BY <1>2, <1>3, <1>4, <1>5, <1>6 DEF Inv, SwappedIsOwed

LEMMA NextInv == Inv /\ [Next]_vars => Inv'
<1> SUFFICES ASSUME Inv, [Next]_vars PROVE Inv'
  OBVIOUS
<1>1. ASSUME NEW q \in Quote, CreateQuote(q) \/ ExpireQuote(q) PROVE Inv'
  BY <1>1, CreateQuoteInv, ExpireQuoteInv
<1>2. ASSUME NEW c \in Call, Proceed(c) PROVE Inv'
  BY <1>2, ExecuteInv, GiveUpInv, LockFromInv, LockToInv, CommitInv, MarkUsedInv DEF Proceed
<1>3. ASSUME NEW c \in Call,
             ProviderUnanswered(c) \/ CommitUnanswered(c) \/ QueryFails(c)
      PROVE  Inv'
  BY <1>3, UnansweredInv, CommitUnansweredInv, GiveUpInv
<1>4. ASSUME NEW c \in Call, NEW q \in Quote, Confirm(c, q) PROVE Inv'
  BY <1>4, ConfirmInv
<1>5. CASE Crash
  BY <1>5, CrashInv
<1>6. CASE UNCHANGED vars
  <2>1. UNCHANGED <<quote, bal, keys, call, swapped, booked, asked, cause, faults>>
    BY <1>6 DEF vars
  <2>2. TypeOK'
    BY <2>1 DEF Inv, TypeOK
  <2>3. RowsInv'
    BY <2>1, RowsSame DEF Inv
  <2>4. SwappedIsOwed'
    BY <2>1 DEF Inv, SwappedIsOwed, SwapsOwed, Owing, Pending
  <2>5. CleanIsOnce' /\ QuotesAreKnown'
    BY <2>1 DEF Inv, CleanIsOnce, OnceIfClean, Clean, On, QuotesAreKnown
  <2> QED
    BY <2>2, <2>3, <2>4, <2>5 DEF Inv
<1> QED
  BY <1>1, <1>2, <1>3, <1>4, <1>5, <1>6 DEF Next

\* Locked rows are nobody else's and still hold what was read, each swap the
\* provider executed is booked, owed by a request or excused, and a quote that is
\* confirmed once is booked once: the inductive invariant of confirmSwap.
THEOREM SwapInvariant == Spec => []Inv
BY InitInv, NextInv, PTL DEF Spec

\* A swap the provider executed is booked once its confirmation is over, or one
\* of the known causes kept it out; and it is booked once, unless two
\* confirmations without a key overlapped or COMMIT was not answered.
THEOREM BookingTheorem == Spec => []BookingInv
<1>1. Inv => BookingInv
  <2> SUFFICES ASSUME Inv PROVE BookingInv
    OBVIOUS
  <2>1. ASSUME NEW q \in Quote, ~Confirming(q), swapped[q] > booked[q]
        PROVE  cause[q] \ {"overlap"} # {}
    <3>1. SwapsOwed(q)
      BY DEF Inv, SwappedIsOwed
    <3>2. Owing(q) = {}
      BY <2>1 DEF Owing, Pending, Confirming, At
    <3>3. Cardinality(Owing(q)) = 0 /\ swapped[q] \in Nat /\ booked[q] \in Nat
      BY <3>2, FS_EmptySet, Types DEF Inv
    <3> QED
      BY <2>1, <3>1, <3>3 DEF SwapsOwed
  <2>2. ASSUME NEW q \in Quote, booked[q] > 1
        PROVE  cause[q] \cap {"overlap", "unanswered"} # {}
    <3>1. OnceIfClean(q) /\ booked[q] \in Nat
      BY Types DEF Inv, CleanIsOnce
    <3> QED
      BY <2>2, <3>1 DEF OnceIfClean, Clean
  <2> QED
    BY <2>1, <2>2 DEF Inv, BookingInv, ProviderIsBooked, BookedOnce
<1> QED
  BY <1>1, SwapInvariant, PTL

-----------------------------------------------------------------------------
(* Refinement *)

LEMMA BookingIsSwap ==
  ASSUME Inv, NEW c \in Call, NEW q \in Quote, q = call[c].quote,
         At(c, "commit"), Booked(c)
  PROVE  Atomic!Swap(q)
<1>1. PICK f \in Token, t \in Token : f = From[q] /\ t = To[q] /\ f # t
  BY QuoteTypes
<1>2. PICK paid \in Seq(Nat), given \in Seq(Nat) : paid = bal[f] /\ given = bal[t]
  BY <1>1, Types DEF Inv
<1>3. PICK i, k : i = call[c].from /\ k = call[c].to
  OBVIOUS
<1>4. /\ \A u \in Token \ {f, t} : bal'[u] = bal[u]
      /\ i \in DOMAIN paid /\ paid[i] >= In[q] /\ paid[i] - In[q] \in Nat
      /\ bal'[f] = [paid EXCEPT ![i] = paid[i] - In[q]]
      /\ IF k = 0 THEN bal'[t] = Append(given, Out[q])
         ELSE k \in DOMAIN given /\ bal'[t] = [given EXCEPT ![k] = given[k] + Out[q]]
      /\ booked' = [booked EXCEPT ![q] = @ + 1]
  BY <1>1, <1>2, <1>3, BookedIs
<1>5. In[q] \in Nat /\ Out[q] \in Nat
  BY QuoteTypes
<1>6. SumOf(paid) \in Nat /\ SumOf(given) \in Nat /\ SumOf(paid) >= paid[i] /\ paid[i] \in Nat
  <2>1. i \in 1..Len(paid)
    BY <1>4
  <2> QED
    BY <1>4, <2>1, SumCovers
<1>7. SumOf(bal'[f]) = SumOf(paid) - In[q]
  <2>1. SumOf(bal'[f]) = SumOf(paid) - paid[i] + (paid[i] - In[q])
    BY <1>4, SumOfUpdate
  <2> QED
    BY <1>5, <1>6, <2>1
<1>8. SumOf(bal'[t]) = SumOf(given) + Out[q]
  <2>1. CASE k = 0
    BY <1>4, <1>5, <2>1, SumOfAppend
  <2>2. CASE k # 0
    <3>1. k \in DOMAIN given /\ bal'[t] = [given EXCEPT ![k] = given[k] + Out[q]]
      BY <1>4, <2>2
    <3>2. given[k] \in Nat /\ given[k] + Out[q] \in Nat
      BY <1>5, <3>1
    <3>3. SumOf(bal'[t]) = SumOf(given) - given[k] + (given[k] + Out[q])
      BY <3>1, <3>2, SumOfUpdate
    <3> QED
      BY <1>5, <1>6, <3>2, <3>3
  <2> QED
    BY <2>1, <2>2
<1> DEFINE total == [u \in Token |-> SumOf(bal[u])]
<1>9. [u \in Token |-> SumOf(bal'[u])]
        = [total EXCEPT ![f] = total[f] - In[q], ![t] = total[t] + Out[q]]
  <2>1. \A u \in Token \ {f, t} : SumOf(bal'[u]) = SumOf(bal[u])
    BY <1>4
  <2> QED
    BY <1>1, <1>2, <1>7, <1>8, <2>1
<1>10. total[f] >= In[q]
  BY <1>2, <1>4, <1>5, <1>6
<1> QED
  BY <1>1, <1>4, <1>9, <1>10 DEF Atomic!Swap, SumOf

\* The rows of each token together change by whole swaps only, and a swap is
\* never taken from a balance that does not cover it.
THEOREM SwapRefinement == Spec => ImplementsAtomicSwap
<1>1. Init => Atomic!Init
  BY DEF Init, Atomic!Init
<1>2. Inv /\ [Next]_vars => [Atomic!Next]_<<[t \in Token |-> SumOf(bal[t])], booked>>
  <2> SUFFICES ASSUME Inv, [Next]_vars
               PROVE  \/ \E q \in Quote : Atomic!Swap(q)
                      \/ UNCHANGED <<bal, booked>>
    <3>1. CASE \E q \in Quote : Atomic!Swap(q)
      BY <3>1 DEF Atomic!Next
    <3>2. CASE UNCHANGED <<bal, booked>>
      BY <3>2 DEF SumOf
    <3> QED
      BY <3>1, <3>2
  <2>1. ASSUME NEW c \in Call, Commit(c) \/ CommitUnanswered(c)
        PROVE  \E q \in Quote : Atomic!Swap(q)
    <3>1. PICK q \in Quote : q = call[c].quote
      BY Types DEF Inv, CallRecord
    <3>2. At(c, "commit") /\ Booked(c)
      BY <2>1 DEF Commit, CommitUnanswered
    <3> QED
      BY <3>1, <3>2, BookingIsSwap
  <2>2. ASSUME NEW q \in Quote, CreateQuote(q) \/ ExpireQuote(q)
        PROVE  UNCHANGED <<bal, booked>>
    BY <2>2 DEF CreateQuote, ExpireQuote
  <2>3. ASSUME NEW c \in Call, Proceed(c), ~Commit(c) PROVE UNCHANGED <<bal, booked>>
    BY <2>3 DEF Proceed, ExecuteWithProvider, ProviderRefuses, LockFrom, Insufficient,
                LockTo, Deadlock, RefuseKey, MarkUsed
  <2>4. ASSUME NEW c \in Call, ProviderUnanswered(c) \/ QueryFails(c)
        PROVE  UNCHANGED <<bal, booked>>
    BY <2>4 DEF ProviderUnanswered, QueryFails
  <2>5. ASSUME NEW c \in Call, NEW q \in Quote, Confirm(c, q) PROVE UNCHANGED <<bal, booked>>
    BY <2>5 DEF Confirm
  <2>6. CASE Crash \/ UNCHANGED vars
    BY <2>6 DEF Crash, vars
  <2> QED
    BY <2>1, <2>2, <2>3, <2>4, <2>5, <2>6 DEF Next
<1> QED
  BY <1>1, <1>2, SwapInvariant, PTL DEF Spec, ImplementsAtomicSwap, Atomic!Spec
=============================================================================
