--------------------------- MODULE SessionProofs ----------------------------
(***************************************************************************)
(* Proofs about what a session relies on: the ledger that it spends from   *)
(* (Ledger) and the lock under which no other session runs (AdvisoryLock). *)
(***************************************************************************)
EXTENDS AdvisoryLock, Ledger, WellFoundedInduction, TLAPS

(***************************************************************************)
(* The ledger, for any number of nodes, waivers, periods, allocations,     *)
(* entries, sessions and changes by the founder.  First the sums: what     *)
(* sumWaiverPeriodSpend and the books add up is defined by recursion over  *)
(* the entries, and a least counterexample stands in for induction.        *)
(***************************************************************************)

(* A set of numbers has a least element: what induction over data rests on. *)
LEMMA LeastElement ==
    ASSUME NEW T, T \subseteq Nat, T # {}
    PROVE  \E x \in T : \A y \in T : x <= y
<1> DEFINE R == {ss \in Nat \X Nat : ss[1] < ss[2]}
<1>0. IsWellFoundedOn(R, Nat)
  BY NatLessThanWellFounded DEF OpToRel
<1> HIDE DEF R
<1>1. \E x \in T : \A y \in T : ~ (<<y, x>> \in R)
  BY <1>0, WFMin
<1>2. PICK x \in T : \A y \in T : ~ (<<y, x>> \in R)
  BY <1>1
<1>3. \A y \in T : <<y, x>> \in Nat \X Nat
  OBVIOUS
<1>4. \A y \in T : ~(y < x)
  BY <1>2, <1>3 DEF R
<1>5. QED
  BY <1>4

\* f holds the sums of the first numbers of a, up to n of them.
Sums(a, f, n) == f = [i \in 0..n |-> IF i = 0 THEN 0 ELSE f[i - 1] + a[i]]

(* Every sequence has such a table of sums ... *)
LEMMA SumsExist ==
    ASSUME NEW N \in Nat, NEW a \in [1..N -> Nat]
    PROVE  \E f \in [0..N -> Nat] : Sums(a, f, N)
<1> DEFINE Good(m) == \E f \in [0..m -> Nat] : Sums(a, f, m)
           Bad == {m \in 0..N : ~Good(m)}
<1>1. Good(0)
  <2>1. [i \in 0..0 |-> 0] \in [0..0 -> Nat] /\ Sums(a, [i \in 0..0 |-> 0], 0)
    BY DEF Sums
  <2>2. QED
    BY <2>1
<1>2. ASSUME NEW m \in 1..N, Good(m - 1) PROVE Good(m)
  <2>1. PICK f \in [0..(m-1) -> Nat] : Sums(a, f, m - 1)
    BY <1>2
  <2> DEFINE g == [i \in 0..m |-> IF i = m THEN f[m - 1] + a[m] ELSE f[i]]
  <2>2. g \in [0..m -> Nat]
    OBVIOUS
  <2>3. \A i \in 0..m : g[i] = IF i = 0 THEN 0 ELSE g[i - 1] + a[i]
    BY <2>1 DEF Sums
  <2>4. Sums(a, g, m)
    BY <2>2, <2>3 DEF Sums
  <2>5. QED
    BY <2>2, <2>4
<1> HIDE DEF Good
<1>3. Bad \subseteq Nat
  OBVIOUS
<1>4. ASSUME Bad # {} PROVE FALSE
  <2>1. PICK m \in Bad : \A k \in Bad : m <= k
    BY ONLY <1>3, <1>4, LeastElement
  <2>2. m \in 1..N
    BY <1>1
  <2>3. m - 1 \in 0..N /\ m - 1 \notin Bad
    BY <2>1, <2>2
  <2>4. QED
    BY <2>2, <2>3, <1>2
<1>5. Good(N)
  BY <1>4
<1>6. QED
  BY <1>5 DEF Good

(* ... and two of them agree as far as both go. *)
LEMMA SumsUnique ==
    ASSUME NEW N \in Nat, NEW n \in 0..N, NEW a, NEW f, NEW g, Sums(a, f, N), Sums(a, g, n)
    PROVE  \A i \in 0..n : f[i] = g[i]
<1> DEFINE Bad == {i \in 0..n : f[i] # g[i]}
<1>1. Bad \subseteq Nat
  OBVIOUS
<1>2. /\ \A i \in 0..N : f[i] = IF i = 0 THEN 0 ELSE f[i - 1] + a[i]
      /\ \A i \in 0..n : g[i] = IF i = 0 THEN 0 ELSE g[i - 1] + a[i]
  BY DEF Sums
<1>3. ASSUME Bad # {} PROVE FALSE
  <2>1. PICK m \in Bad : \A k \in Bad : m <= k
    BY ONLY <1>1, <1>3, LeastElement
  <2>2. m \in 1..n /\ m - 1 \in 0..n /\ m - 1 \notin Bad
    BY <1>2, <2>1
  <2>3. m \in 0..N /\ m # 0
    BY <2>2
  <2>4. f[m] = f[m - 1] + a[m] /\ g[m] = g[m - 1] + a[m]
    BY <1>2, <2>2, <2>3
  <2>5. QED
    BY <2>1, <2>2, <2>4
<1>4. QED
  BY <1>3

\* The sum of the first n numbers.
UpTo(a, n) == (CHOOSE f : Sums(a, f, n))[n]

(* The table holds the sums. *)
LEMMA UpToIs ==
    ASSUME NEW N \in Nat, NEW a \in [1..N -> Nat], NEW f, Sums(a, f, N)
    PROVE  \A n \in 0..N : f[n] = UpTo(a, n)
<1> TAKE n \in 0..N
<1>1. n \in Nat /\ [i \in 1..n |-> a[i]] \in [1..n -> Nat]
  OBVIOUS
<1>2. PICK g \in [0..n -> Nat] : Sums([i \in 1..n |-> a[i]], g, n)
  BY <1>1, SumsExist
<1>3. Sums(a, g, n)
  <2>1. g = [i \in 0..n |-> IF i = 0 THEN 0 ELSE g[i - 1] + [j \in 1..n |-> a[j]][i]]
    BY <1>2 DEF Sums
  <2>2. \A i \in 0..n : i # 0 => [j \in 1..n |-> a[j]][i] = a[i]
    BY <1>1
  <2>3. [i \in 0..n |-> IF i = 0 THEN 0 ELSE g[i - 1] + [j \in 1..n |-> a[j]][i]]
          = [i \in 0..n |-> IF i = 0 THEN 0 ELSE g[i - 1] + a[i]]
    BY <2>2
  <2>4. QED
    BY <2>1, <2>3 DEF Sums
<1>4. Sums(a, CHOOSE h : Sums(a, h, n), n)
  BY <1>3
<1>5. QED
  BY <1>4, SumsUnique DEF UpTo

(* The sums of the first numbers satisfy the recursion that defines them. *)
LEMMA UpToType ==
    ASSUME NEW N \in Nat, NEW a \in [1..N -> Nat]
    PROVE  /\ \A n \in 0..N : UpTo(a, n) \in Nat
           /\ UpTo(a, 0) = 0
           /\ \A n \in 1..N : UpTo(a, n) = UpTo(a, n - 1) + a[n]
<1>1. PICK f \in [0..N -> Nat] : Sums(a, f, N)
  BY SumsExist
<1>2. \A n \in 0..N : f[n] = UpTo(a, n)
  BY <1>1, UpToIs
<1>3. \A n \in 0..N : f[n] = IF n = 0 THEN 0 ELSE f[n - 1] + a[n]
  BY <1>1 DEF Sums
<1>4. QED
  BY <1>2, <1>3

(* Sequences that agree up to n have the same sums up to n. *)
LEMMA UpToAgrees ==
    ASSUME NEW A \in Nat, NEW B \in Nat, NEW n \in Nat, n <= A, n <= B,
           NEW a \in [1..A -> Nat], NEW b \in [1..B -> Nat], \A i \in 1..n : a[i] = b[i]
    PROVE  UpTo(a, n) = UpTo(b, n)
<1> DEFINE Bad == {i \in 0..n : UpTo(a, i) # UpTo(b, i)}
<1>1. Bad \subseteq Nat
  OBVIOUS
<1>2. ASSUME Bad # {} PROVE FALSE
  <2>1. PICK m \in Bad : \A k \in Bad : m <= k
    BY ONLY <1>1, <1>2, LeastElement
  <2>2. m \in 1..n
    <3>1. UpTo(a, 0) = 0 /\ UpTo(b, 0) = 0
      BY UpToType
    <3>2. QED
      BY <2>1, <3>1
  <2>3. m - 1 \in 0..n /\ m - 1 \notin Bad
    BY <2>1, <2>2
  <2>4. m \in 1..A /\ m \in 1..B
    BY <2>2
  <2>5. UpTo(a, m) = UpTo(a, m - 1) + a[m] /\ UpTo(b, m) = UpTo(b, m - 1) + b[m]
    BY <2>4, UpToType
  <2>6. QED
    BY <2>1, <2>2, <2>3, <2>5
<1>3. n \in 0..n
  OBVIOUS
<1>4. QED
  BY <1>2, <1>3

(* Sums of sequences that differ at k only differ by what they have there. *)
LEMMA UpToDiffers ==
    ASSUME NEW N \in Nat, NEW a \in [1..N -> Nat], NEW b \in [1..N -> Nat], NEW k \in 1..N,
           \A i \in 1..N : i # k => b[i] = a[i]
    PROVE  UpTo(b, N) + a[k] = UpTo(a, N) + b[k]
<1> DEFINE Bad == {i \in k..N : UpTo(b, i) + a[k] # UpTo(a, i) + b[k]}
<1>1. Bad \subseteq Nat
  OBVIOUS
<1>2. UpTo(a, k - 1) = UpTo(b, k - 1)
  <2> DEFINE j == k - 1
  <2>1. j \in Nat /\ j <= N /\ \A i \in 1..j : a[i] = b[i]
    OBVIOUS
  <2> HIDE DEF j
  <2>2. UpTo(a, j) = UpTo(b, j)
    BY <2>1, UpToAgrees
  <2>3. QED
    BY <2>2 DEF j
<1>3. ASSUME Bad # {} PROVE FALSE
  <2>1. PICK m \in Bad : \A i \in Bad : m <= i
    BY ONLY <1>1, <1>3, LeastElement
  <2>2. m \in 1..N /\ m - 1 \in 0..N
    BY <2>1
  <2>3. UpTo(a, m) = UpTo(a, m - 1) + a[m] /\ UpTo(b, m) = UpTo(b, m - 1) + b[m]
    BY <2>2, UpToType
  <2>4. UpTo(a, m - 1) \in Nat /\ UpTo(b, m - 1) \in Nat /\ a[m] \in Nat /\ b[m] \in Nat
        /\ a[k] \in Nat /\ b[k] \in Nat
    BY <2>2, UpToType
  <2>5. m # k
    BY <1>2, <2>1, <2>3, <2>4
  <2>6. UpTo(b, m - 1) + a[k] = UpTo(a, m - 1) + b[k] /\ a[m] = b[m]
    BY <2>1, <2>2, <2>5
  <2>7. UpTo(b, m) + a[k] # UpTo(a, m) + b[k]
    BY <2>1
  <2> DEFINE p == UpTo(b, m - 1)
             q == UpTo(a, m - 1)
             x == a[k]
             y == b[k]
             z == b[m]
  <2>8. p \in Nat /\ q \in Nat /\ x \in Nat /\ y \in Nat /\ z \in Nat /\ p + x = q + y
    BY <2>4, <2>6
  <2>9. (p + z) + x # (q + z) + y
    BY ONLY <2>3, <2>6, <2>7
  <2> HIDE DEF p, q, x, y, z
  <2>10. QED
    BY ONLY <2>8, <2>9
<1>4. N \in k..N
  OBVIOUS
<1>5. QED
  BY <1>3, <1>4

(* The sum of nothing but zeros is zero. *)
LEMMA UpToOfNone ==
    ASSUME NEW N \in Nat, NEW a \in [1..N -> Nat], \A i \in 1..N : a[i] = 0
    PROVE  UpTo(a, N) = 0
<1> DEFINE Bad == {i \in 0..N : UpTo(a, i) # 0}
<1>1. Bad \subseteq Nat
  OBVIOUS
<1>2. ASSUME Bad # {} PROVE FALSE
  <2>1. PICK m \in Bad : \A i \in Bad : m <= i
    BY ONLY <1>1, <1>2, LeastElement
  <2>2. m \in 1..N
    BY <2>1, UpToType
  <2>3. m - 1 \in 0..N /\ m - 1 \notin Bad
    BY <2>1, <2>2
  <2>4. UpTo(a, m) = UpTo(a, m - 1) + a[m]
    BY <2>2, UpToType
  <2>5. QED
    BY <2>1, <2>2, <2>3, <2>4
<1>3. N \in 0..N
  OBVIOUS
<1>4. QED
  BY <1>2, <1>3

(* The total of a sequence is its last sum. *)
LEMMA TotalIs ==
    ASSUME NEW a \in Seq(Nat)
    PROVE  Total(a) = UpTo(a, Len(a)) /\ Len(a) \in Nat /\ a \in [1..Len(a) -> Nat]
<1> DEFINE u == CHOOSE f : Sums(a, f, Len(a))
<1>1. Len(a) \in Nat /\ a \in [1..Len(a) -> Nat]
  OBVIOUS
<1>2. Total(a) = u[Len(a)]
  BY DEF Total, Sums
<1>3. QED
  BY <1>1, <1>2 DEF UpTo

(* A total is a number. *)
LEMMA TotalType == ASSUME NEW a \in Seq(Nat) PROVE Total(a) \in Nat
<1>1. Len(a) \in 0..Len(a)
  BY TotalIs
<1>2. QED
  BY <1>1, TotalIs, UpToType

(* A number more adds itself to the total. *)
LEMMA TotalAppend ==
    ASSUME NEW a \in Seq(Nat), NEW x \in Nat
    PROVE  Total(Append(a, x)) = Total(a) + x
<1> DEFINE b == Append(a, x)
           n == Len(a)
           m == n + 1
<1>1. /\ b \in Seq(Nat) /\ n \in Nat /\ m \in Nat /\ Len(b) = m /\ b[m] = x /\ m = n + 1
      /\ n <= n /\ n <= m /\ \A i \in 1..n : a[i] = b[i]
  OBVIOUS
<1>2. /\ Total(a) = UpTo(a, n) /\ a \in [1..n -> Nat]
      /\ Total(b) = UpTo(b, m) /\ b \in [1..m -> Nat]
  BY <1>1, TotalIs
<1> HIDE DEF b, n, m
<1>3. UpTo(a, n) = UpTo(b, n)
  <2>1. a \in [1..n -> Nat] /\ b \in [1..m -> Nat] /\ n \in Nat /\ m \in Nat
        /\ n <= n /\ n <= m /\ \A i \in 1..n : a[i] = b[i]
    BY <1>1, <1>2
  <2>2. QED
    BY <2>1, UpToAgrees, SMTT(30)
<1>4. m \in 1..m /\ m - 1 = n
  BY <1>1
<1>5. UpTo(b, m) = UpTo(b, m - 1) + b[m]
  BY <1>1, <1>2, <1>4, UpToType
<1>6. QED
  BY <1>1, <1>2, <1>3, <1>4, <1>5 DEF b

(* The totals of two sequences that differ at k only. *)
LEMMA TotalDiffers ==
    ASSUME NEW a \in Seq(Nat), NEW b \in Seq(Nat), Len(b) = Len(a), NEW k \in 1..Len(a),
           \A i \in 1..Len(a) : i # k => b[i] = a[i]
    PROVE  Total(b) + a[k] = Total(a) + b[k]
<1> DEFINE N == Len(a)
<1>1. /\ N \in Nat /\ a \in [1..N -> Nat] /\ b \in [1..N -> Nat]
      /\ Total(a) = UpTo(a, N) /\ Total(b) = UpTo(b, N)
  BY TotalIs
<1>2. QED
  BY <1>1, UpToDiffers

(* The total of nothing but zeros is zero. *)
LEMMA TotalOfNone ==
    ASSUME NEW a \in Seq(Nat), \A i \in 1..Len(a) : a[i] = 0
    PROVE  Total(a) = 0
BY TotalIs, UpToOfNone

(* The entries, balances and ledgers that control/budget-ledger.json holds. *)
Entry == [amount : Nat, period : Periods, waiver : Waivers, status : {"estimated", "actualized"}]

Balance == [allocated : Nat, committed : Nat, spent : Nat, remaining : Int]

Book == [balances : [Periods -> Balance \cup {Unfunded}], entries : Seq(Entry)]

(* What sumWaiverPeriodSpend and the books add up are numbers. *)
LEMMA AmountsType ==
    ASSUME NEW es \in Seq(Entry)
    PROVE  /\ \A w, p : OnWaiver(es, w, p) \in Seq(Nat) /\ Len(OnWaiver(es, w, p)) = Len(es)
           /\ \A p, s : Standing(es, p, s) \in Seq(Nat) /\ Len(Standing(es, p, s)) = Len(es)
<1> DEFINE n == Len(es)
<1>1. n \in Nat /\ DOMAIN es = 1..n /\ \A i \in 1..n : es[i] \in Entry
  OBVIOUS
<1> HIDE DEF n
<1>2. \A i \in 1..n : es[i].amount \in Nat
  BY <1>1 DEF Entry
<1>3. \A w, p : OnWaiver(es, w, p) \in [1..n -> Nat]
  BY <1>1, <1>2 DEF OnWaiver
<1>4. \A p, s : Standing(es, p, s) \in [1..n -> Nat]
  BY <1>1, <1>2 DEF Standing
<1>5. \A f \in [1..n -> Nat] : f \in Seq(Nat) /\ Len(f) = n
  BY <1>1
<1>6. QED
  BY <1>3, <1>4, <1>5 DEF n

(* A new entry adds its amount to what its waiver has booked in its period. *)
LEMMA BookedAppend ==
    ASSUME NEW es \in Seq(Entry), NEW e \in Entry, NEW w, NEW p
    PROVE  Total(OnWaiver(Append(es, e), w, p))
             = Total(OnWaiver(es, w, p)) + (IF e.waiver = w /\ e.period = p THEN e.amount ELSE 0)
<1> DEFINE x == IF e.waiver = w /\ e.period = p THEN e.amount ELSE 0
           n == Len(es)
           a == Append(es, e)
           f == OnWaiver(es, w, p)
           g == OnWaiver(a, w, p)
<1>1. x \in Nat
  BY DEF Entry
<1>2. /\ n \in Nat /\ DOMAIN es = 1..n
      /\ a \in Seq(Entry) /\ Len(a) = n + 1 /\ DOMAIN a = 1..(n + 1)
      /\ a[n + 1] = e /\ \A i \in 1..n : a[i] = es[i]
  OBVIOUS
<1>3. f \in Seq(Nat) /\ Len(f) = n /\ g \in Seq(Nat) /\ Len(g) = n + 1
  BY <1>2, AmountsType
<1>4. g[n + 1] = x /\ \A i \in 1..n : g[i] = f[i]
  BY <1>2 DEF OnWaiver
<1> HIDE DEF x, a, n, f, g
<1>5. g = Append(f, x)
  BY <1>1, <1>2, <1>3, <1>4
<1>6. Total(g) = Total(f) + x
  BY <1>1, <1>3, <1>5, TotalAppend
<1>7. QED
  BY <1>6 DEF x, a, f, g

(* The same of what stands in a period with a status. *)
LEMMA StandingAppend ==
    ASSUME NEW es \in Seq(Entry), NEW e \in Entry, NEW p, NEW s
    PROVE  Total(Standing(Append(es, e), p, s))
             = Total(Standing(es, p, s)) + (IF e.period = p /\ e.status = s THEN e.amount ELSE 0)
<1> DEFINE x == IF e.period = p /\ e.status = s THEN e.amount ELSE 0
           n == Len(es)
           a == Append(es, e)
           f == Standing(es, p, s)
           g == Standing(a, p, s)
<1>1. x \in Nat
  BY DEF Entry
<1>2. /\ n \in Nat /\ DOMAIN es = 1..n
      /\ a \in Seq(Entry) /\ Len(a) = n + 1 /\ DOMAIN a = 1..(n + 1)
      /\ a[n + 1] = e /\ \A i \in 1..n : a[i] = es[i]
  OBVIOUS
<1>3. f \in Seq(Nat) /\ Len(f) = n /\ g \in Seq(Nat) /\ Len(g) = n + 1
  BY <1>2, AmountsType
<1>4. g[n + 1] = x /\ \A i \in 1..n : g[i] = f[i]
  BY <1>2 DEF Standing
<1> HIDE DEF x, a, n, f, g
<1>5. g = Append(f, x)
  BY <1>1, <1>2, <1>3, <1>4
<1>6. Total(g) = Total(f) + x
  BY <1>1, <1>3, <1>5, TotalAppend
<1>7. QED
  BY <1>6 DEF x, a, f, g

\* The entries when the k-th has got its actual.
Settled(es, k) == [es EXCEPT ![k].status = "actualized"]

(* A settled entry differs from the estimate in its status only. *)
LEMMA SettledType ==
    ASSUME NEW es \in Seq(Entry), NEW k \in DOMAIN es
    PROVE  LET done == Settled(es, k)
           IN  /\ done \in Seq(Entry) /\ Len(done) = Len(es)
               /\ \A i \in 1..Len(es) : i # k => done[i] = es[i]
               /\ done[k].status = "actualized" /\ done[k].period = es[k].period
               /\ done[k].waiver = es[k].waiver /\ done[k].amount = es[k].amount
<1> DEFINE done == Settled(es, k)
           n == Len(es)
<1>1. n \in Nat /\ DOMAIN es = 1..n /\ k \in 1..n /\ \A i \in 1..n : es[i] \in Entry
  OBVIOUS
<1>2. /\ done \in [1..n -> Entry]
      /\ \A i \in 1..n : i # k => done[i] = es[i]
      /\ done[k].status = "actualized" /\ done[k].period = es[k].period
      /\ done[k].waiver = es[k].waiver /\ done[k].amount = es[k].amount
  BY <1>1 DEF Entry, Settled
<1> HIDE DEF done, n
<1>3. done \in Seq(Entry) /\ Len(done) = n
  BY <1>1, <1>2
<1>4. QED
  BY <1>2, <1>3 DEF done, n

(* A settled entry stays booked on its waiver. *)
LEMMA BookedSettled ==
    ASSUME NEW es \in Seq(Entry), NEW k \in DOMAIN es, NEW w, NEW p
    PROVE  OnWaiver(Settled(es, k), w, p) = OnWaiver(es, w, p)
<1> DEFINE done == Settled(es, k)
           n == Len(es)
<1>1. n \in Nat /\ DOMAIN es = 1..n /\ k \in 1..n
  OBVIOUS
<1>2. /\ done \in Seq(Entry) /\ Len(done) = n /\ \A i \in 1..n : i # k => done[i] = es[i]
      /\ done[k].period = es[k].period
      /\ done[k].waiver = es[k].waiver /\ done[k].amount = es[k].amount
  BY SettledType
<1> HIDE DEF done, n
<1>3. DOMAIN done = 1..n
  BY <1>2
<1>4. OnWaiver(done, w, p) = OnWaiver(es, w, p)
  BY <1>1, <1>2, <1>3 DEF OnWaiver
<1>5. QED
  BY <1>4 DEF done

(* It moves its amount from what is estimated to what is actualized. *)
LEMMA StandingSettled ==
    ASSUME NEW es \in Seq(Entry), NEW k \in DOMAIN es, es[k].status = "estimated", NEW p
    PROVE  LET done == Settled(es, k)
               x == IF es[k].period = p THEN es[k].amount ELSE 0
           IN  /\ Total(Standing(done, p, "estimated")) + x = Total(Standing(es, p, "estimated"))
               /\ Total(Standing(done, p, "actualized")) = Total(Standing(es, p, "actualized")) + x
<1> DEFINE done == Settled(es, k)
           x == IF es[k].period = p THEN es[k].amount ELSE 0
           n == Len(es)
<1>1. n \in Nat /\ DOMAIN es = 1..n /\ k \in 1..n /\ \A i \in 1..n : es[i] \in Entry
  OBVIOUS
<1>2. /\ done \in Seq(Entry) /\ Len(done) = n /\ \A i \in 1..n : i # k => done[i] = es[i]
      /\ done[k].status = "actualized" /\ done[k].period = es[k].period
      /\ done[k].waiver = es[k].waiver /\ done[k].amount = es[k].amount
  BY SettledType
<1> HIDE DEF done, n
<1>3. DOMAIN done = 1..n
  BY <1>2
<1>5. x \in Nat
  BY <1>1 DEF Entry
<1>6. \A s : /\ Standing(es, p, s) \in Seq(Nat) /\ Len(Standing(es, p, s)) = n
             /\ Standing(done, p, s) \in Seq(Nat) /\ Len(Standing(done, p, s)) = n
             /\ \A i \in 1..n : i # k => Standing(done, p, s)[i] = Standing(es, p, s)[i]
  <2> TAKE s
  <2>1. /\ Standing(es, p, s) \in Seq(Nat) /\ Len(Standing(es, p, s)) = n
        /\ Standing(done, p, s) \in Seq(Nat) /\ Len(Standing(done, p, s)) = n
    BY <1>2, AmountsType DEF n
  <2>2. QED
    BY <1>1, <1>2, <1>3, <2>1 DEF Standing
<1>7. /\ Standing(es, p, "estimated")[k] = x /\ Standing(done, p, "estimated")[k] = 0
      /\ Standing(es, p, "actualized")[k] = 0 /\ Standing(done, p, "actualized")[k] = x
  BY <1>1, <1>2, <1>3 DEF Standing
<1> HIDE DEF x
<1>8. \A s : Total(Standing(done, p, s)) + Standing(es, p, s)[k] = Total(Standing(es, p, s)) + Standing(done, p, s)[k]
  <2> TAKE s
  <2> DEFINE f == Standing(es, p, s)
             g == Standing(done, p, s)
  <2>1. f \in Seq(Nat) /\ g \in Seq(Nat) /\ Len(f) = n /\ Len(g) = n /\ \A i \in 1..n : i # k => g[i] = f[i]
    BY <1>6
  <2> HIDE DEF f, g
  <2>2. Total(g) + f[k] = Total(f) + g[k]
    BY <1>1, <2>1, TotalDiffers
  <2>3. QED
    BY <2>2 DEF f, g
<1>9. \A s : Total(Standing(done, p, s)) \in Nat /\ Total(Standing(es, p, s)) \in Nat
  BY <1>6, TotalType
<1>10. /\ Total(Standing(done, p, "estimated")) + x = Total(Standing(es, p, "estimated"))
       /\ Total(Standing(done, p, "actualized")) = Total(Standing(es, p, "actualized")) + x
  BY <1>5, <1>7, <1>8, <1>9
<1>11. QED
  BY <1>10 DEF done, x

(* The types of the ledger's state.  While no session runs its queue is empty. *)
LedgerTypeOK ==
    /\ ledger \in Book /\ loaded \in Book
    /\ waiver \in [Waivers -> {"absent", "active", "revoked"}]
    /\ trusted \in [Waivers -> {"absent", "active", "revoked"}]
    /\ expired \subseteq Waivers /\ period \in Periods /\ peak \in [Periods -> Nat]
    /\ draft \in [ledger : Book, period : Periods \cup {0}]
    /\ up \in BOOLEAN /\ queue \subseteq Nodes /\ at \in Nodes \cup {"loop", "reload"}
    /\ (~up => at = "loop" /\ queue = {})
    /\ status \in [Nodes -> {"pending", "running", "idle"}]
    /\ entry \in [Nodes -> Nat] /\ changes \in Nat

(* An entry is of a period that has a balance. *)
Funded(book) == \A i \in DOMAIN book.entries : book.balances[book.entries[i].period] # Unfunded

(* Between two of its steps the session's copy holds every entry that is on  *)
(* disk, and of what it funds the committed and spent amounts.  What the     *)
(* founder allocated since the copy was read it may not hold.                *)
FreshCopy ==
    up /\ at = "loop" =>
      /\ loaded.entries = ledger.entries
      /\ \A p \in Periods : loaded.balances[p] # Unfunded =>
           /\ ledger.balances[p] # Unfunded
           /\ ledger.balances[p].committed = loaded.balances[p].committed
           /\ ledger.balances[p].spent = loaded.balances[p].spent

\* n runs, or is about to.
Spending(n) == up /\ (status[n] = "running" \/ at = n)

(* Every attempt has an entry of its own, which is not settled yet. *)
OwnEntries == \A n \in Nodes : Spending(n) =>
    /\ entry[n] \in DOMAIN ledger.entries
    /\ ledger.entries[entry[n]].status = "estimated" /\ ledger.entries[entry[n]].amount = Cost[n]
    /\ \A m \in Nodes : m # n /\ Spending(m) => entry[m] # entry[n]

LedgerInv == LedgerTypeOK /\ Funded(ledger) /\ Funded(loaded) /\ FreshCopy /\ OwnEntries

(* What buildEstimatePatch and buildActualPatch leave on disk, of a balance  *)
(* whose committed and spent amounts the session's copy holds: the amounts   *)
(* they computed, unless what remains was, in the copy, already what it is   *)
(* to become.                                                                *)
LEMMA PatchedIs ==
    ASSUME ledger \in Book, loaded \in Book, NEW p \in Periods, NEW c \in Nat, NEW s \in Nat,
           loaded.balances[p] # Unfunded, ledger.balances[p] # Unfunded,
           ledger.balances[p].committed = loaded.balances[p].committed,
           ledger.balances[p].spent = loaded.balances[p].spent
    PROVE  LET b == loaded.balances[p]
           IN  /\ Patched(p, c, s) \in [Periods -> Balance \cup {Unfunded}]
               /\ \A q \in Periods : q # p => Patched(p, c, s)[q] = ledger.balances[q]
               /\ Patched(p, c, s)[p] \in Balance /\ Patched(p, c, s)[p] # Unfunded
               /\ Patched(p, c, s)[p].committed = c /\ Patched(p, c, s)[p].spent = s
               /\ Patched(p, c, s)[p].allocated = ledger.balances[p].allocated
               /\ Patched(p, c, s)[p].remaining = Put(b.remaining, b.allocated - c - s, ledger.balances[p].remaining)
<1> DEFINE b == loaded.balances[p]
           d == ledger.balances[p]
           r == Put(b.remaining, b.allocated - c - s, d.remaining)
           new == [d EXCEPT !.committed = c, !.spent = s, !.remaining = r]
<1>1. b \in Balance /\ d \in Balance /\ ledger.balances \in [Periods -> Balance \cup {Unfunded}]
  BY DEF Book
<1>2. Unfunded \notin Balance
  BY LedgerAssumption DEF Balance
<1>3. r \in Int
  BY <1>1 DEF Put, Balance
<1>4. Patched(p, c, s) = [ledger.balances EXCEPT ![p] = new]
  <2>1. /\ Put(b.committed, c, d.committed) = c /\ Put(b.spent, s, d.spent) = s
    BY DEF Put
  <2>2. Patched(p, c, s) = [ledger.balances EXCEPT ![p] =
           [d EXCEPT !.committed = Put(b.committed, c, d.committed), !.spent = Put(b.spent, s, d.spent),
                     !.remaining = r]]
    BY <1>1 DEF Patched, Left
  <2>3. QED
    BY <2>1, <2>2
<1>5. new \in Balance /\ new.committed = c /\ new.spent = s /\ new.remaining = r /\ new.allocated = d.allocated
  BY <1>1, <1>3 DEF Balance
<1> HIDE DEF new, r
<1>6. QED
  BY <1>1, <1>2, <1>4, <1>5 DEF r

(* A funded balance is a record of numbers; `remaining` may be negative. *)
LEMMA BalanceIs ==
    ASSUME NEW book \in Book, NEW p \in Periods, book.balances[p] # Unfunded
    PROVE  /\ book.balances[p] \in Balance
           /\ book.balances[p].allocated \in Nat /\ book.balances[p].committed \in Nat
           /\ book.balances[p].spent \in Nat /\ book.balances[p].remaining \in Int
BY DEF Book, Balance

(* The waiver that dispatch chooses is a waiver. *)
LEMMA ChosenIs == ASSUME Applicable # {} PROVE Chosen \in Applicable /\ Chosen \in Waivers
<1>1. Applicable \subseteq Waivers /\ Applicable \subseteq Nat
  BY LedgerAssumption DEF Applicable
<1>2. \E x \in Applicable : \A y \in Applicable : x <= y
  BY <1>1, LeastElement
<1>3. QED
  BY <1>1, <1>2 DEF Chosen, Min

(* buildEstimatePatch adds one entry and commits its amount. *)
LEMMA EstimateIs ==
    ASSUME LedgerInv, NEW n \in Nodes, Estimate(n)
    PROVE  LET e == [amount |-> Cost[n], period |-> period, waiver |-> Chosen, status |-> "estimated"]
               d == ledger.balances[period]
           IN  /\ e \in Entry /\ ledger' \in Book
               /\ ledger'.entries = Append(ledger.entries, e)
               /\ loaded.balances[period] # Unfunded /\ d # Unfunded
               /\ ledger'.balances = Patched(period, d.committed + Cost[n], d.spent)
               /\ d.committed + Cost[n] \in Nat /\ d.spent \in Nat
               /\ d.committed = loaded.balances[period].committed /\ d.spent = loaded.balances[period].spent
<1> DEFINE e == [amount |-> Cost[n], period |-> period, waiver |-> Chosen, status |-> "estimated"]
           d == ledger.balances[period]
<1>1. Cost[n] \in Nat /\ period \in Periods
  BY LedgerAssumption DEF LedgerInv, LedgerTypeOK
<1>2. e \in Entry
  BY <1>1, ChosenIs DEF Estimate, Allowed, Entry
<1>3. /\ loaded.balances[period] # Unfunded /\ d # Unfunded
      /\ d.committed = loaded.balances[period].committed /\ d.spent = loaded.balances[period].spent
  BY <1>1 DEF LedgerInv, FreshCopy, Estimate, Allowed
<1>4. ledger \in Book /\ loaded \in Book
  BY DEF LedgerInv, LedgerTypeOK
<1>5. d.committed \in Nat /\ d.spent \in Nat
  BY <1>1, <1>3, <1>4, BalanceIs
<1>6. /\ ledger'.entries = Append(ledger.entries, e)
      /\ ledger'.balances = Patched(period, d.committed + Cost[n], d.spent)
      /\ ledger' = [balances |-> ledger'.balances, entries |-> ledger'.entries]
  BY <1>3 DEF Estimate, Estimated
<1>7. d.committed + Cost[n] \in Nat
  BY <1>1, <1>5
<1>8. ledger'.balances \in [Periods -> Balance \cup {Unfunded}]
  BY <1>1, <1>3, <1>4, <1>5, <1>6, <1>7, PatchedIs
<1>9. ledger'.entries \in Seq(Entry)
  BY <1>2, <1>4, <1>6 DEF Book
<1>10. ledger' \in Book
  BY <1>6, <1>8, <1>9 DEF Book
<1>11. QED
  BY <1>2, <1>3, <1>5, <1>6, <1>7, <1>10

(* The larger of two numbers is one of them and at least both. *)
LEMMA LargerIs ==
    ASSUME NEW y \in Int, NEW z \in Int PROVE Max({y, z}) \in {y, z} /\ Max({y, z}) >= y /\ Max({y, z}) >= z
<1>1. \E a \in {y, z} : \A b \in {y, z} : a >= b
  OBVIOUS
<1>2. Max({y, z}) \in {y, z} /\ \A b \in {y, z} : Max({y, z}) >= b
  BY <1>1 DEF Max
<1>3. QED
  BY <1>2

(* Math.max(0, z): a natural number, and z itself unless z is negative. *)
LEMMA Clipped ==
    ASSUME NEW z \in Int
    PROVE  Max({0, z}) \in Nat /\ (z >= 0 => Max({0, z}) = z)
<1>1. \E x \in {0, z} : \A y \in {0, z} : x >= y
  OBVIOUS
<1>2. Max({0, z}) \in {0, z} /\ \A y \in {0, z} : Max({0, z}) >= y
  BY <1>1 DEF Max
<1>3. QED
  BY <1>2

(* What buildActualPatch settles: the k-th entry, of period p and amount x,   *)
(* whose balance is left with c committed and s spent.                        *)
Settling(k, p, x, c, s) ==
    /\ k \in DOMAIN ledger.entries /\ p \in Periods /\ x \in Nat /\ c \in Nat /\ s \in Nat
    /\ ledger.entries[k].status = "estimated"
    /\ p = ledger.entries[k].period /\ x = ledger.entries[k].amount
    /\ ledger.balances[p] # Unfunded /\ loaded.balances[p] # Unfunded
    /\ ledger.balances[p].committed = loaded.balances[p].committed
    /\ ledger.balances[p].spent = loaded.balances[p].spent
    /\ c = Max({0, ledger.balances[p].committed - x}) /\ s = ledger.balances[p].spent + x
    /\ ledger'.entries = Settled(ledger.entries, k)
    /\ ledger'.balances = Patched(p, c, s) /\ ledger' \in Book

(* buildActualPatch settles the entry and moves its amount from committed to *)
(* spent.                                                                    *)
LEMMA SucceedIs ==
    ASSUME LedgerInv, NEW n \in Nodes, Succeed(n)
    PROVE  \E k, p, x, c, s : k = entry[n] /\ Settling(k, p, x, c, s)
<1>1. up /\ at = "loop" /\ status[n] = "running" /\ loaded.entries = ledger.entries
  BY DEF LedgerInv, FreshCopy, Succeed, Ending
<1>2. PICK k \in DOMAIN ledger.entries : k = entry[n] /\ ledger.entries[k].status = "estimated"
  BY <1>1 DEF LedgerInv, OwnEntries, Spending
<1>3. ledger \in Book /\ loaded \in Book /\ ledger.entries \in Seq(Entry)
  BY DEF LedgerInv, LedgerTypeOK, Book
<1>4. ledger.entries[k] \in Entry
  BY <1>3
<1>5. PICK p \in Periods, x \in Nat : p = ledger.entries[k].period /\ x = ledger.entries[k].amount
  BY <1>4 DEF Entry
<1>6. loaded.balances[p] # Unfunded
  BY <1>1, <1>5 DEF LedgerInv, Funded
<1>7. /\ ledger.balances[p] # Unfunded
      /\ ledger.balances[p].committed = loaded.balances[p].committed
      /\ ledger.balances[p].spent = loaded.balances[p].spent
  BY <1>1, <1>6 DEF LedgerInv, FreshCopy
<1>8. ledger.balances[p].committed \in Nat /\ ledger.balances[p].spent \in Nat
  BY <1>3, <1>7, BalanceIs
<1>9. PICK c \in Nat, s \in Nat :
         c = Max({0, ledger.balances[p].committed - x}) /\ s = ledger.balances[p].spent + x
  BY <1>8, Clipped
<1>10. Actualized(n)
  BY DEF Succeed
<1>11. ledger' = [balances |-> Patched(p, Max({0, loaded.balances[p].committed - x}), loaded.balances[p].spent + x),
                        entries |-> Settled(ledger.entries, k)]
  BY <1>1, <1>2, <1>5, <1>10 DEF Actualized, Settled
<1>12. ledger' = [balances |-> Patched(p, c, s), entries |-> Settled(ledger.entries, k)]
  BY <1>7, <1>9, <1>11
<1>13. Settled(ledger.entries, k) \in Seq(Entry)
  BY <1>3, SettledType
<1>14. Patched(p, c, s) \in [Periods -> Balance \cup {Unfunded}]
  BY <1>3, <1>6, <1>7, PatchedIs
<1>15. ledger' \in Book
  BY <1>12, <1>13, <1>14 DEF Book
<1>16. Settling(k, p, x, c, s)
  BY <1>2, <1>5, <1>6, <1>7, <1>9, <1>12, <1>15 DEF Settling
<1>17. QED
  BY <1>2, <1>16

(* The balance it leaves; no other is touched. *)
LEMMA SettlingIs ==
    ASSUME LedgerInv, NEW k, NEW p, NEW x, NEW c, NEW s, Settling(k, p, x, c, s)
    PROVE  LET b == loaded.balances[p]
           IN  /\ \A q \in Periods : q # p => ledger'.balances[q] = ledger.balances[q]
               /\ ledger'.balances[p] # Unfunded
               /\ ledger'.balances[p].committed = c /\ ledger'.balances[p].spent = s
               /\ ledger'.balances[p].allocated = ledger.balances[p].allocated
               /\ ledger'.balances[p].remaining = Put(b.remaining, b.allocated - c - s, ledger.balances[p].remaining)
<1>1. ledger \in Book /\ loaded \in Book
  BY DEF LedgerInv, LedgerTypeOK
<1>2. /\ p \in Periods /\ c \in Nat /\ s \in Nat
      /\ ledger.balances[p] # Unfunded /\ loaded.balances[p] # Unfunded
      /\ ledger.balances[p].committed = loaded.balances[p].committed
      /\ ledger.balances[p].spent = loaded.balances[p].spent
      /\ ledger'.balances = Patched(p, c, s)
  BY DEF Settling
<1>3. QED
  BY <1>1, <1>2, PatchedIs

(* The founder's allocation changes one balance, and keeps what is committed *)
(* and spent of it.                                                          *)
LEMMA AllocateIs ==
    ASSUME LedgerInv, NEW amount \in Allocations, draft.ledger = ledger, Allocate(amount)
    PROVE  LET p == draft.period
               d == ledger.balances[p]
               f == d # Unfunded
           IN  /\ p \in Periods /\ ledger' \in Book /\ ledger'.entries = ledger.entries
               /\ \A q \in Periods : q # p => ledger'.balances[q] = ledger.balances[q]
               /\ ledger'.balances[p] \in Balance /\ ledger'.balances[p] # Unfunded
               /\ ledger'.balances[p].allocated = amount
               /\ ledger'.balances[p].committed = (IF f THEN d.committed ELSE 0)
               /\ ledger'.balances[p].spent = (IF f THEN d.spent ELSE 0)
               /\ ledger'.balances[p].remaining = amount - ledger'.balances[p].committed - ledger'.balances[p].spent
<1> DEFINE p == draft.period
           d == ledger.balances[p]
           new == Allocated(d, amount)
<1>1. p \in Periods /\ ledger \in Book /\ amount \in Nat
  BY LedgerAssumption DEF LedgerInv, LedgerTypeOK, Allocate
<1>2. d # Unfunded => d.committed \in Nat /\ d.spent \in Nat
  BY <1>1, BalanceIs
<1>3. new \in Balance
  BY <1>1, <1>2 DEF Allocated, Balance
<1>4. new # Unfunded
  BY <1>3, LedgerAssumption DEF Balance
<1>5. /\ new.allocated = amount /\ new.committed = (IF d # Unfunded THEN d.committed ELSE 0)
      /\ new.spent = (IF d # Unfunded THEN d.spent ELSE 0)
      /\ new.remaining = amount - new.committed - new.spent
  BY DEF Allocated
<1>6. ledger' = [ledger EXCEPT !.balances = [ledger.balances EXCEPT ![p] = new]]
  BY DEF Allocate
<1> HIDE DEF new
<1>7. /\ ledger'.entries = ledger.entries /\ ledger'.balances = [ledger.balances EXCEPT ![p] = new]
      /\ ledger' \in Book
  BY <1>1, <1>3, <1>6 DEF Book
<1>8. ledger.balances \in [Periods -> Balance \cup {Unfunded}]
  BY <1>1 DEF Book
<1>9. QED
  BY <1>1, <1>3, <1>4, <1>5, <1>7, <1>8

(* Every step keeps the types. *)
LEMMA LedgerTypeStep == LedgerInv /\ [Next]_vars => LedgerTypeOK'
<1> SUFFICES ASSUME LedgerInv, [Next]_vars PROVE LedgerTypeOK'
  OBVIOUS
<1>0. LedgerTypeOK
  BY DEF LedgerInv
<1>e. NoLedger \in Book /\ NoWaiver \in [Waivers -> {"absent", "active", "revoked"}]
  BY DEF NoLedger, NoWaiver, Book
<1>1. ASSUME NEW n \in Nodes, Estimate(n) PROVE LedgerTypeOK'
  <2>1. ledger' \in Book
    BY <1>1, EstimateIs
  <2>2. Len(ledger.entries) + 1 \in Nat
    BY <1>0 DEF LedgerTypeOK, Book
  <2>3. QED
    BY <1>0, <1>1, <2>1, <2>2 DEF LedgerTypeOK, Estimate, founder
<1>2. ASSUME NEW n \in Nodes, Succeed(n) PROVE LedgerTypeOK'
  <2>0. PICK k, p, x, c, s : k = entry[n] /\ Settling(k, p, x, c, s)
    BY <1>2, SucceedIs
  <2>1. ledger' \in Book
    BY <2>0 DEF Settling
  <2>2. QED
    BY <1>0, <1>2, <2>1 DEF LedgerTypeOK, Succeed, Ending, founder
<1>3. ASSUME Onboard PROVE LedgerTypeOK'
  <2>1. PICK amount \in Allocations : draft.ledger = ledger /\ Allocate(amount)
    BY <1>3 DEF Onboard
  <2>2. ledger' \in Book
    BY <2>1, AllocateIs
  <2>3. amount \in Nat /\ draft.period \in Periods
    BY <1>0, <2>1, LedgerAssumption DEF LedgerTypeOK, Allocate
  <2>4. peak' \in [Periods -> Nat]
    <3> DEFINE y == peak[draft.period]
    <3>1. y \in Nat /\ y \in Int /\ amount \in Int
      BY <1>0, <2>3 DEF LedgerTypeOK
    <3> HIDE DEF y
    <3>2. Max({y, amount}) \in Nat
      BY <2>3, <3>1, LargerIs
    <3> USE DEF y
    <3>3. QED
      BY <1>0, <2>1, <3>2 DEF LedgerTypeOK, Allocate
  <2>5. draft' \in [ledger : Book, period : Periods \cup {0}]
    BY <1>e, <2>1 DEF Allocate, NoDraft
  <2>6. QED
    BY <1>0, <2>1, <2>2, <2>4, <2>5 DEF LedgerTypeOK, Allocate, memory
<1>4. ASSUME NEW n \in Nodes, Begin(n) PROVE LedgerTypeOK'
  BY <1>0, <1>4 DEF LedgerTypeOK, Begin, founder
<1>5. ASSUME NEW n \in Nodes, Reopen(n) \/ Park(n) \/ Refused(n) \/ EndWithoutActual(n) PROVE LedgerTypeOK'
  BY <1>0, <1>5 DEF LedgerTypeOK, Reopen, Park, Refused, EndWithoutActual, Ending, founder, memory
<1>6. CASE Enter
  BY <1>0, <1>6 DEF LedgerTypeOK, Enter, founder
<1>7. CASE Leave
  BY <1>0, <1>e, <1>7 DEF LedgerTypeOK, Leave, founder
<1>13. CASE Reload
  BY <1>0, <1>13 DEF LedgerTypeOK, Reload, founder
<1>8. CASE Offer
  BY <1>0, <1>8 DEF LedgerTypeOK, Offer, founder
<1>9. CASE ReadLedger \/ NextPeriod
  BY <1>0, <1>9 DEF LedgerTypeOK, ReadLedger, NextPeriod, memory
<1>10. ASSUME NEW w \in Waivers, Waive(w) \/ Expire(w) PROVE LedgerTypeOK'
  BY <1>0, <1>10 DEF LedgerTypeOK, Waive, Expire, memory
<1>11. CASE UNCHANGED vars
  BY <1>0, <1>11 DEF LedgerTypeOK, vars, founder, memory
<1>12. QED
  BY <1>1, <1>2, <1>3, <1>4, <1>5, <1>6, <1>7, <1>8, <1>9, <1>10, <1>11, <1>13 DEF Next

(* No entry is booked on a period that has no balance. *)
LEMMA FundedStep == LedgerInv /\ [Next]_vars => Funded(ledger)' /\ Funded(loaded)'
<1> SUFFICES ASSUME LedgerInv, [Next]_vars PROVE Funded(ledger)' /\ Funded(loaded)'
  OBVIOUS
<1>0. LedgerTypeOK /\ Funded(ledger) /\ Funded(loaded)
  BY DEF LedgerInv
<1>t. ledger \in Book /\ \A i \in DOMAIN ledger.entries : ledger.entries[i] \in Entry /\ ledger.entries[i].period \in Periods
  <2>1. ledger \in Book /\ ledger.entries \in Seq(Entry)
    BY <1>0 DEF LedgerTypeOK, Book
  <2>2. \A i \in DOMAIN ledger.entries : ledger.entries[i] \in Entry
    BY <2>1
  <2>3. QED
    BY <2>1, <2>2 DEF Entry
<1>1. ASSUME NEW n \in Nodes, Estimate(n) PROVE Funded(ledger)' /\ Funded(loaded)'
  <2> DEFINE e == [amount |-> Cost[n], period |-> period, waiver |-> Chosen, status |-> "estimated"]
             c == ledger.balances[period].committed + Cost[n]
             s == ledger.balances[period].spent
  <2>1. /\ ledger'.entries = Append(ledger.entries, e) /\ e \in Entry
        /\ ledger'.balances = Patched(period, c, s) /\ c \in Nat /\ s \in Nat
        /\ loaded.balances[period] # Unfunded /\ ledger.balances[period] # Unfunded
        /\ ledger.balances[period].committed = loaded.balances[period].committed
        /\ s = loaded.balances[period].spent
    BY <1>1, EstimateIs
  <2>2. period \in Periods /\ loaded \in Book
    BY <1>0 DEF LedgerTypeOK
  <2>p. e.period = period
    OBVIOUS
  <2> HIDE DEF e, c, s
  <2>3. \A q \in Periods : ledger.balances[q] # Unfunded => ledger'.balances[q] # Unfunded
    <3>1. /\ \A q \in Periods : q # period => Patched(period, c, s)[q] = ledger.balances[q]
          /\ Patched(period, c, s)[period] # Unfunded
      <4>1. ledger.balances[period].spent = loaded.balances[period].spent
        BY <2>1 DEF s
      <4>2. QED
        BY <1>t, <2>1, <2>2, <4>1, PatchedIs
    <3>2. QED
      BY <2>1, <3>1
  <2>4. \A i \in DOMAIN ledger'.entries :
           \/ i \in DOMAIN ledger.entries /\ ledger'.entries[i] = ledger.entries[i]
           \/ ledger'.entries[i] = e
    BY <1>t, <2>1 DEF Book
  <2>5. Funded(ledger)'
    BY <1>0, <1>t, <2>1, <2>2, <2>3, <2>4, <2>p DEF Funded
  <2>6. QED
    BY <1>0, <1>1, <2>5 DEF Estimate, Funded
<1>2. ASSUME NEW n \in Nodes, Succeed(n) PROVE Funded(ledger)' /\ Funded(loaded)'
  <2>1. PICK k, p, x, c, s : k = entry[n] /\ Settling(k, p, x, c, s)
    BY <1>2, SucceedIs
  <2>2. /\ ledger.entries \in Seq(Entry) /\ k \in DOMAIN ledger.entries
        /\ ledger'.entries = Settled(ledger.entries, k)
    BY <1>0, <2>1 DEF LedgerTypeOK, Book, Settling
  <2>3. \A q \in Periods : ledger.balances[q] # Unfunded => ledger'.balances[q] # Unfunded
    BY <2>1, SettlingIs
  <2>4. \A i \in DOMAIN ledger'.entries :
           i \in DOMAIN ledger.entries /\ ledger'.entries[i].period = ledger.entries[i].period
    <3>1. DOMAIN ledger.entries = 1..Len(ledger.entries)
      BY <2>2
    <3> DEFINE done == Settled(ledger.entries, k)
    <3>2. /\ done \in Seq(Entry) /\ Len(done) = Len(ledger.entries) /\ done[k].period = ledger.entries[k].period
          /\ \A i \in 1..Len(ledger.entries) : i # k => done[i] = ledger.entries[i]
      BY <2>2, SettledType
    <3>3. DOMAIN done = 1..Len(ledger.entries)
      BY <3>2
    <3> HIDE DEF done
    <3>4. ledger'.entries = done
      BY <2>2 DEF done
    <3>5. QED
      BY <3>1, <3>2, <3>3, <3>4
  <2>5. Funded(ledger)'
    BY <1>0, <1>t, <2>3, <2>4 DEF Funded
  <2>6. QED
    BY <1>0, <1>2, <2>5 DEF Succeed, Funded
<1>3. ASSUME Onboard PROVE Funded(ledger)' /\ Funded(loaded)'
  <2>1. PICK amount \in Allocations : draft.ledger = ledger /\ Allocate(amount)
    BY <1>3 DEF Onboard
  <2>2. ledger'.entries = ledger.entries /\ \A q \in Periods : ledger.balances[q] # Unfunded => ledger'.balances[q] # Unfunded
    BY <2>1, AllocateIs
  <2>3. QED
    BY <1>0, <1>t, <2>1, <2>2 DEF Funded, Allocate, memory
<1>4. ASSUME NEW n \in Nodes, Begin(n) PROVE Funded(ledger)' /\ Funded(loaded)'
  BY <1>0, <1>4 DEF Funded, Begin
<1>5. ASSUME NEW n \in Nodes, Reopen(n) \/ Park(n) \/ Refused(n) \/ EndWithoutActual(n)
      PROVE  Funded(ledger)' /\ Funded(loaded)'
  BY <1>0, <1>5 DEF Funded, Reopen, Park, Refused, EndWithoutActual, memory
<1>6. CASE Enter \/ Reload
  BY <1>0, <1>6 DEF Funded, Enter, Reload
<1>7. CASE Leave
  BY <1>0, <1>7 DEF Funded, Leave, NoLedger
<1>8. CASE Offer \/ ReadLedger \/ NextPeriod
  BY <1>0, <1>8 DEF Funded, Offer, ReadLedger, NextPeriod, memory
<1>10. ASSUME NEW w \in Waivers, Waive(w) \/ Expire(w) PROVE Funded(ledger)' /\ Funded(loaded)'
  BY <1>0, <1>10 DEF Funded, Waive, Expire, memory
<1>11. CASE UNCHANGED vars
  BY <1>0, <1>11 DEF Funded, vars, memory
<1>12. QED
  BY <1>1, <1>2, <1>3, <1>4, <1>5, <1>6, <1>7, <1>8, <1>10, <1>11 DEF Next

(* The founder's commits disturb nothing that the session's copy is trusted  *)
(* for, and after a commit of its own the session reads the ledger again     *)
(* before it does anything else.                                             *)
LEMMA FreshStep == LedgerInv /\ [Next]_vars => FreshCopy'
<1> SUFFICES ASSUME LedgerInv, [Next]_vars PROVE FreshCopy'
  OBVIOUS
<1>0. LedgerTypeOK /\ FreshCopy
  BY DEF LedgerInv
<1>1. ASSUME NEW n \in Nodes, Estimate(n) \/ Succeed(n) PROVE FreshCopy'
  <2>1. at' # "loop"
    BY <1>1, LedgerAssumption DEF Estimate, Succeed
  <2>2. QED
    BY <2>1 DEF FreshCopy
<1>3. ASSUME Onboard PROVE FreshCopy'
  <2>1. PICK amount \in Allocations : draft.ledger = ledger /\ Allocate(amount)
    BY <1>3 DEF Onboard
  <2>2. /\ ledger'.entries = ledger.entries /\ up' = up /\ at' = at /\ loaded' = loaded
        /\ \A q \in Periods : ledger.balances[q] # Unfunded =>
             /\ ledger'.balances[q] # Unfunded
             /\ ledger'.balances[q].committed = ledger.balances[q].committed
             /\ ledger'.balances[q].spent = ledger.balances[q].spent
    BY <2>1, AllocateIs DEF Allocate, memory
  <2>3. QED
    BY <1>0, <2>2 DEF FreshCopy
<1>4. ASSUME NEW n \in Nodes, Begin(n) PROVE FreshCopy'
  BY <1>4 DEF FreshCopy, Begin
<1>5. ASSUME NEW n \in Nodes, Reopen(n) \/ Park(n) \/ Refused(n) \/ EndWithoutActual(n) PROVE FreshCopy'
  BY <1>0, <1>5 DEF FreshCopy, Reopen, Park, Refused, EndWithoutActual, Ending, memory
<1>6. CASE Enter \/ Reload \/ Leave
  BY <1>6 DEF FreshCopy, Enter, Reload, Leave
<1>8. CASE Offer \/ ReadLedger \/ NextPeriod
  BY <1>0, <1>8 DEF FreshCopy, Offer, ReadLedger, NextPeriod, memory
<1>10. ASSUME NEW w \in Waivers, Waive(w) \/ Expire(w) PROVE FreshCopy'
  BY <1>0, <1>10 DEF FreshCopy, Waive, Expire, memory
<1>11. CASE UNCHANGED vars
  BY <1>0, <1>11 DEF FreshCopy, vars, memory
<1>12. QED
  BY <1>1, <1>3, <1>4, <1>5, <1>6, <1>8, <1>10, <1>11 DEF Next

(* An attempt starts with an estimate of its own, and settles no other's. *)
LEMMA OwnStep == LedgerInv /\ [Next]_vars => OwnEntries'
<1> SUFFICES ASSUME LedgerInv, [Next]_vars PROVE OwnEntries'
  OBVIOUS
<1>0. LedgerTypeOK /\ OwnEntries
  BY DEF LedgerInv
<1>t. ledger.entries \in Seq(Entry) /\ entry \in [Nodes -> Nat] /\ status \in [Nodes -> {"pending", "running", "idle"}]
  BY <1>0 DEF LedgerTypeOK, Book
<1>1. ASSUME NEW n \in Nodes, Estimate(n) PROVE OwnEntries'
  <2> DEFINE e == [amount |-> Cost[n], period |-> period, waiver |-> Chosen, status |-> "estimated"]
             k == Len(ledger.entries) + 1
  <2>1. ledger'.entries = Append(ledger.entries, e) /\ e \in Entry
    BY <1>1, EstimateIs
  <2>2. /\ \A i \in DOMAIN ledger.entries : i \in DOMAIN ledger'.entries /\ ledger'.entries[i] = ledger.entries[i] /\ i # k
        /\ k \in DOMAIN ledger'.entries /\ ledger'.entries[k].status = "estimated" /\ ledger'.entries[k].amount = Cost[n]
    BY <1>t, <2>1
  <2>3. /\ up' = up /\ at' = n /\ at = "loop" /\ status' = status /\ entry' = [entry EXCEPT ![n] = k]
    BY <1>1 DEF Estimate
  <2> HIDE DEF k, e
  <2>4. \A m \in Nodes : m # n => entry'[m] = entry[m]
    BY <1>t, <2>3
  <2>5. entry'[n] = k
    BY <1>t, <2>3
  <2>6. \A m \in Nodes : Spending(m)' /\ m # n => Spending(m)
    BY <2>3 DEF Spending
  <2>7. QED
    BY <1>0, <2>2, <2>4, <2>5, <2>6 DEF OwnEntries
<1>2. ASSUME NEW n \in Nodes, Succeed(n) PROVE OwnEntries'
  <2>1. PICK k, p, x, c, s : k = entry[n] /\ Settling(k, p, x, c, s)
    BY <1>2, SucceedIs
  <2>2. /\ up' = up /\ up /\ at' = "reload" /\ at = "loop" /\ status[n] = "running"
        /\ status' = [status EXCEPT ![n] = "idle"] /\ entry' = entry
    BY <1>2 DEF Succeed, Ending
  <2>3. \A i \in DOMAIN ledger.entries : i # k => i \in DOMAIN ledger'.entries /\ ledger'.entries[i] = ledger.entries[i]
    <3> DEFINE done == Settled(ledger.entries, k)
    <3>1. k \in DOMAIN ledger.entries /\ ledger'.entries = done
      BY <2>1 DEF Settling
    <3>2. /\ done \in Seq(Entry) /\ Len(done) = Len(ledger.entries)
          /\ \A i \in 1..Len(ledger.entries) : i # k => done[i] = ledger.entries[i]
      BY <1>t, <3>1, SettledType
    <3>3. DOMAIN done = 1..Len(ledger.entries) /\ DOMAIN ledger.entries = 1..Len(ledger.entries)
      BY <1>t, <3>2
    <3> HIDE DEF done
    <3>4. QED
      BY <3>1, <3>2, <3>3
  <2>4. \A m \in Nodes : Spending(m)' => Spending(m) /\ m # n
    BY <1>t, <2>2, LedgerAssumption DEF Spending
  <2>5. Spending(n) /\ entry[n] = k
    BY <2>1, <2>2 DEF Spending
  <2>6. \A m \in Nodes : Spending(m)' => entry[m] # k
    BY <1>0, <2>4, <2>5 DEF OwnEntries
  <2>7. QED
    BY <1>0, <2>2, <2>3, <2>4, <2>6 DEF OwnEntries
<1>3. ASSUME Onboard PROVE OwnEntries'
  <2>1. PICK amount \in Allocations : draft.ledger = ledger /\ Allocate(amount)
    BY <1>3 DEF Onboard
  <2>2. /\ ledger'.entries = ledger.entries /\ up' = up /\ at' = at /\ status' = status /\ entry' = entry
    BY <2>1, AllocateIs DEF Allocate, memory
  <2>3. QED
    BY <1>0, <2>2 DEF OwnEntries, Spending
<1>4. ASSUME NEW n \in Nodes, Begin(n) PROVE OwnEntries'
  <2>1. \A m \in Nodes : Spending(m)' => Spending(m)
    BY <1>t, <1>4, LedgerAssumption DEF Spending, Begin
  <2>2. ledger' = ledger /\ entry' = entry
    BY <1>4 DEF Begin
  <2>3. QED
    BY <1>0, <2>1, <2>2 DEF OwnEntries
<1>5. ASSUME NEW n \in Nodes, Reopen(n) \/ Park(n) \/ Refused(n) \/ EndWithoutActual(n) PROVE OwnEntries'
  <2>1. \A m \in Nodes : Spending(m)' => Spending(m)
    BY <1>t, <1>5 DEF Spending, Reopen, Park, Refused, EndWithoutActual, Ending, memory
  <2>2. ledger' = ledger /\ entry' = entry
    BY <1>5 DEF Reopen, Park, Refused, EndWithoutActual, memory
  <2>3. QED
    BY <1>0, <2>1, <2>2 DEF OwnEntries
<1>6. CASE Enter
  <2>1. \A m \in Nodes : ~Spending(m)'
    BY <1>0, <1>6, LedgerAssumption DEF LedgerTypeOK, Spending, Enter
  <2>2. QED
    BY <2>1 DEF OwnEntries
<1>7. CASE Leave
  BY <1>7 DEF OwnEntries, Spending, Leave
<1>8. CASE Reload \/ Offer
  <2>1. \A m \in Nodes : Spending(m)' => Spending(m)
    BY <1>t, <1>8, LedgerAssumption DEF Spending, Reload, Offer
  <2>2. ledger' = ledger /\ entry' = entry
    BY <1>8 DEF Reload, Offer
  <2>3. QED
    BY <1>0, <2>1, <2>2 DEF OwnEntries
<1>u. UNCHANGED <<ledger, up, memory, status>> => OwnEntries'
  BY <1>0 DEF OwnEntries, Spending, memory
<1>9. CASE ReadLedger \/ NextPeriod
  BY <1>u, <1>9 DEF ReadLedger, NextPeriod
<1>10. ASSUME NEW w \in Waivers, Waive(w) \/ Expire(w) PROVE OwnEntries'
  BY <1>u, <1>10 DEF Waive, Expire
<1>11. CASE UNCHANGED vars
  BY <1>u, <1>11 DEF vars
<1>12. QED
  BY <1>1, <1>2, <1>3, <1>4, <1>5, <1>6, <1>7, <1>8, <1>9, <1>10, <1>11 DEF Next

(* A business starts without a ledger, and satisfies the invariant. *)
LEMMA LedgerInvInit == Init => LedgerInv
<1> SUFFICES ASSUME Init PROVE LedgerInv
  OBVIOUS
<1>1. NoLedger \in Book /\ NoWaiver \in [Waivers -> {"absent", "active", "revoked"}]
  BY DEF NoLedger, NoWaiver, Book
<1>2. LedgerTypeOK
  BY <1>1, LedgerAssumption DEF Init, LedgerTypeOK, NoDraft
<1>3. Funded(ledger) /\ Funded(loaded)
  BY DEF Init, Funded, NoLedger
<1>4. FreshCopy /\ OwnEntries
  BY DEF Init, FreshCopy, OwnEntries, Spending
<1>5. QED
  BY <1>2, <1>3, <1>4 DEF LedgerInv

(* The inductive invariant of the ledger. *)
THEOREM LedgerInvHolds == Spec => []LedgerInv
<1>1. LedgerInv /\ [Next]_vars => LedgerInv'
  BY LedgerTypeStep, FundedStep, FreshStep, OwnStep DEF LedgerInv
<1>2. QED
  BY <1>1, LedgerInvInit, PTL DEF Spec

(* "... instead of spending blind": every attempt that runs has an entry of  *)
(* its own, still standing as an estimate.                                   *)
THEOREM NothingBlindHolds == Spec => []NothingBlind
<1>1. LedgerInv => NothingBlind
  BY DEF LedgerInv, OwnEntries, Spending, NothingBlind
<1>2. QED
  BY <1>1, LedgerInvHolds, PTL

(* An estimate that stands is part of what its period has committed. *)
LEMMA SettledFits ==
    ASSUME LedgerInv, BooksBalance, NEW k \in DOMAIN ledger.entries, NEW p \in Periods, NEW x \in Nat,
           ledger.entries[k].status = "estimated", p = ledger.entries[k].period, x = ledger.entries[k].amount,
           ledger.balances[p] # Unfunded
    PROVE  Max({0, ledger.balances[p].committed - x}) = ledger.balances[p].committed - x
<1> DEFINE done == Settled(ledger.entries, k)
           c == ledger.balances[p].committed
<1>1. ledger.entries \in Seq(Entry)
  BY DEF LedgerInv, LedgerTypeOK, Book
<1>2. c = Total(Standing(ledger.entries, p, "estimated"))
  BY DEF BooksBalance, In
<1>3. Total(Standing(done, p, "estimated")) + x = Total(Standing(ledger.entries, p, "estimated"))
  BY <1>1, StandingSettled
<1>4. Total(Standing(done, p, "estimated")) \in Nat /\ Total(Standing(ledger.entries, p, "estimated")) \in Nat
  <2>1. done \in Seq(Entry)
    BY <1>1, SettledType
  <2>2. QED
    BY <1>1, <2>1, AmountsType, TotalType
<1> HIDE DEF done, c
<1>5. c - x \in Int /\ c - x >= 0
  BY <1>2, <1>3, <1>4
<1>6. QED
  BY <1>5, Clipped DEF c

(* A session never writes over what the founder allocates, nor onboarding    *)
(* over what a session commits: what a balance has committed and spent is    *)
(* what the entries of its period say.                                       *)
LEMMA BooksStep == LedgerInv /\ BooksBalance /\ [Next]_vars => BooksBalance'
<1> SUFFICES ASSUME LedgerInv, BooksBalance, [Next]_vars PROVE BooksBalance'
  OBVIOUS
<1>0. LedgerTypeOK /\ Funded(ledger) /\ ledger \in Book /\ loaded \in Book /\ ledger.entries \in Seq(Entry)
  BY DEF LedgerInv, LedgerTypeOK, Book
<1>1. ASSUME NEW n \in Nodes, Estimate(n) PROVE BooksBalance'
  <2> DEFINE e == [amount |-> Cost[n], period |-> period, waiver |-> Chosen, status |-> "estimated"]
             d == ledger.balances[period]
             c == d.committed + Cost[n]
             s == d.spent
  <2>1. /\ ledger'.entries = Append(ledger.entries, e) /\ e \in Entry
        /\ ledger'.balances = Patched(period, c, s) /\ c \in Nat /\ s \in Nat
        /\ loaded.balances[period] # Unfunded /\ d # Unfunded
        /\ d.committed = loaded.balances[period].committed /\ s = loaded.balances[period].spent
    BY <1>1, EstimateIs
  <2>2. period \in Periods /\ Cost[n] \in Nat
    BY <1>0, LedgerAssumption DEF LedgerTypeOK
  <2>3. e.period = period /\ e.amount = Cost[n] /\ e.status = "estimated"
    OBVIOUS
  <2> HIDE DEF e
  <2>4. \A q \in Periods : /\ In(q, "estimated")' = In(q, "estimated") + (IF q = period THEN Cost[n] ELSE 0)
                           /\ In(q, "actualized")' = In(q, "actualized")
    <3> TAKE q \in Periods
    <3>1. \A t : Total(Standing(Append(ledger.entries, e), q, t))
                   = Total(Standing(ledger.entries, q, t)) + (IF e.period = q /\ e.status = t THEN e.amount ELSE 0)
      BY <1>0, <2>1, StandingAppend
    <3>2. Total(Standing(ledger.entries, q, "actualized")) \in Nat
      BY <1>0, AmountsType, TotalType
    <3>3. QED
      BY <2>1, <2>3, <3>1, <3>2 DEF In
  <2>5. d.committed = In(period, "estimated") /\ d.spent = In(period, "actualized")
    BY <2>1, <2>2 DEF BooksBalance
  <2>6. /\ \A q \in Periods : q # period => ledger'.balances[q] = ledger.balances[q]
        /\ ledger'.balances[period] # Unfunded
        /\ ledger'.balances[period].committed = c /\ ledger'.balances[period].spent = s
    <3> HIDE DEF c
    <3>1. QED
      BY <1>0, <2>1, <2>2, PatchedIs
  <2>7. \A q \in Periods : In(q, "estimated") \in Nat /\ In(q, "actualized") \in Nat
    BY <1>0, AmountsType, TotalType DEF In
  <2>8. ASSUME NEW q \in Periods, q # period
        PROVE  IF ledger'.balances[q] = Unfunded THEN In(q, "estimated")' = 0 /\ In(q, "actualized")' = 0
               ELSE ledger'.balances[q].committed = In(q, "estimated")' /\ ledger'.balances[q].spent = In(q, "actualized")'
    BY <2>4, <2>6, <2>7, <2>8 DEF BooksBalance
  <2>9. \A q \in Periods : q = period =>
          /\ ledger'.balances[q] # Unfunded
          /\ ledger'.balances[q].committed = In(q, "estimated")'
          /\ ledger'.balances[q].spent = In(q, "actualized")'
    BY <2>2, <2>4, <2>5, <2>6
  <2>10. QED
    BY <2>6, <2>8, <2>9 DEF BooksBalance
<1>2. ASSUME NEW n \in Nodes, Succeed(n) PROVE BooksBalance'
  <2>1. PICK k, p, x, c, s : k = entry[n] /\ Settling(k, p, x, c, s)
    BY <1>2, SucceedIs
  <2>2. /\ k \in DOMAIN ledger.entries /\ p \in Periods /\ x \in Nat /\ c \in Nat /\ s \in Nat
        /\ ledger.entries[k].status = "estimated" /\ ledger.balances[p] # Unfunded
        /\ p = ledger.entries[k].period /\ x = ledger.entries[k].amount
        /\ c = Max({0, ledger.balances[p].committed - x}) /\ s = ledger.balances[p].spent + x
        /\ ledger'.entries = Settled(ledger.entries, k)
    BY <2>1 DEF Settling
  <2>3. \A q \in Periods : /\ In(q, "estimated") \in Nat /\ In(q, "estimated")' \in Nat
                           /\ In(q, "actualized") \in Nat /\ In(q, "actualized")' \in Nat
    <3>1. ledger'.entries \in Seq(Entry)
      BY <2>1 DEF Settling, Book
    <3>2. QED
      BY <1>0, <3>1, AmountsType, TotalType DEF In
  <2>4. \A q \in Periods :
           LET y == IF p = q THEN x ELSE 0
           IN  /\ In(q, "estimated")' + y = In(q, "estimated")
               /\ In(q, "actualized")' = In(q, "actualized") + y
    <3> TAKE q \in Periods
    <3>1. QED
      <4>1. LET y == IF ledger.entries[k].period = q THEN ledger.entries[k].amount ELSE 0
                t == Settled(ledger.entries, k)
            IN  /\ Total(Standing(t, q, "estimated")) + y = Total(Standing(ledger.entries, q, "estimated"))
                /\ Total(Standing(t, q, "actualized")) = Total(Standing(ledger.entries, q, "actualized")) + y
        BY <1>0, <2>2, StandingSettled
      <4>2. QED
        BY <2>2, <4>1 DEF In
  <2>5. ledger.balances[p].committed = In(p, "estimated") /\ ledger.balances[p].spent = In(p, "actualized")
    BY <2>2 DEF BooksBalance
  <2>6. c = ledger.balances[p].committed - x
    BY <2>2, SettledFits
  <2>7. c = In(p, "estimated")' /\ s = In(p, "actualized")'
    <3>1. In(p, "estimated")' + x = In(p, "estimated") /\ In(p, "actualized")' = In(p, "actualized") + x
      BY <2>2, <2>4
    <3>2. x \in Nat /\ s = ledger.balances[p].spent + x
      BY <2>2
    <3>3. In(p, "estimated")' \in Nat /\ In(p, "actualized") \in Nat
      BY <2>2, <2>3
    <3>4. QED
      BY <2>5, <2>6, <3>1, <3>2, <3>3
  <2>8. /\ \A q \in Periods : q # p => ledger'.balances[q] = ledger.balances[q]
        /\ ledger'.balances[p] # Unfunded
        /\ ledger'.balances[p].committed = c /\ ledger'.balances[p].spent = s
    BY <2>1, SettlingIs
  <2>9. ASSUME NEW q \in Periods, q # p
        PROVE  In(q, "estimated")' = In(q, "estimated") /\ In(q, "actualized")' = In(q, "actualized")
    <3>1. In(q, "estimated")' + 0 = In(q, "estimated") /\ In(q, "actualized")' = In(q, "actualized") + 0
      BY <2>4, <2>9
    <3>2. QED
      BY <2>3, <2>9, <3>1
  <2>10. ASSUME NEW q \in Periods
         PROVE  IF ledger'.balances[q] = Unfunded THEN In(q, "estimated")' = 0 /\ In(q, "actualized")' = 0
                ELSE ledger'.balances[q].committed = In(q, "estimated")' /\ ledger'.balances[q].spent = In(q, "actualized")'
    <3>1. CASE q = p
      BY <2>7, <2>8, <3>1
    <3>2. CASE q # p
      BY <2>8, <2>9, <3>2 DEF BooksBalance
    <3>3. QED
      BY <3>1, <3>2
  <2>11. QED
    BY <2>10 DEF BooksBalance
<1>3. ASSUME Onboard PROVE BooksBalance'
  <2>1. PICK amount \in Allocations : draft.ledger = ledger /\ Allocate(amount)
    BY <1>3 DEF Onboard
  <2> DEFINE p == draft.period
  <2>2. /\ ledger'.entries = ledger.entries
        /\ \A q \in Periods : q # p => ledger'.balances[q] = ledger.balances[q]
        /\ p \in Periods /\ ledger'.balances[p] # Unfunded
        /\ ledger'.balances[p].committed = (IF ledger.balances[p] # Unfunded THEN ledger.balances[p].committed ELSE 0)
        /\ ledger'.balances[p].spent = (IF ledger.balances[p] # Unfunded THEN ledger.balances[p].spent ELSE 0)
    BY <2>1, AllocateIs
  <2> HIDE DEF p
  <2>3. \A q, t : In(q, t)' = In(q, t)
    BY <2>2 DEF In
  <2>4. QED
    BY <2>2, <2>3 DEF BooksBalance
<1>4. ledger' = ledger => BooksBalance'
  BY DEF BooksBalance, In
<1>5. ASSUME NEW n \in Nodes, Reopen(n) \/ Park(n) \/ Refused(n) \/ EndWithoutActual(n) \/ Begin(n) PROVE ledger' = ledger
  BY <1>5 DEF Reopen, Park, Refused, EndWithoutActual, Begin
<1>6. CASE Enter \/ Reload \/ Leave \/ Offer \/ ReadLedger \/ NextPeriod
  BY <1>4, <1>6 DEF Enter, Reload, Leave, Offer, ReadLedger, NextPeriod
<1>7. ASSUME NEW w \in Waivers, Waive(w) \/ Expire(w) PROVE ledger' = ledger
  BY <1>7 DEF Waive, Expire
<1>8. CASE UNCHANGED vars
  BY <1>4, <1>8 DEF vars
<1>9. QED
  BY <1>1, <1>2, <1>3, <1>4, <1>5, <1>6, <1>7, <1>8 DEF Next

(* An empty ledger has booked nothing. *)
LEMMA NothingBooked ==
    Init => /\ \A p, s : In(p, s) = 0
            /\ \A w, p : Total(OnWaiver(ledger.entries, w, p)) = 0
<1> SUFFICES ASSUME Init
             PROVE  /\ \A p, s : In(p, s) = 0
                    /\ \A w, p : Total(OnWaiver(ledger.entries, w, p)) = 0
  OBVIOUS
<1>1. ledger.entries = <<>> /\ ledger.entries \in Seq(Entry) /\ Len(ledger.entries) = 0
  BY DEF Init, NoLedger
<1>2. \A w, p, s : /\ OnWaiver(ledger.entries, w, p) \in Seq(Nat) /\ Len(OnWaiver(ledger.entries, w, p)) = 0
                   /\ Standing(ledger.entries, p, s) \in Seq(Nat) /\ Len(Standing(ledger.entries, p, s)) = 0
  <2>1. /\ \A w, p : OnWaiver(ledger.entries, w, p) \in Seq(Nat) /\ Len(OnWaiver(ledger.entries, w, p)) = Len(ledger.entries)
        /\ \A p, s : Standing(ledger.entries, p, s) \in Seq(Nat) /\ Len(Standing(ledger.entries, p, s)) = Len(ledger.entries)
    BY <1>1, AmountsType
  <2>2. QED
    BY <1>1, <2>1
<1>3. \A a \in Seq(Nat) : Len(a) = 0 => Total(a) = 0
  <2> TAKE a \in Seq(Nat)
  <2> HAVE Len(a) = 0
  <2>1. \A i \in 1..Len(a) : a[i] = 0
    OBVIOUS
  <2>2. QED
    BY <2>1, TotalOfNone
<1>4. QED
  BY <1>2, <1>3 DEF In

(* For any number of sessions, periods, waivers and allocations, the books   *)
(* balance.                                                                  *)
THEOREM BooksBalanceHolds == Spec => []BooksBalance
<1>1. Init => BooksBalance
  BY NothingBooked DEF BooksBalance, Init, NoLedger
<1>2. QED
  BY <1>1, LedgerInvHolds, BooksStep, PTL DEF Spec

(* A step that books on a waiver was allowed by it, on the very entries that *)
(* are on disk.                                                              *)
LEMMA CapStep == LedgerInv /\ CapHeld /\ [Next]_vars => CapHeld'
<1> SUFFICES ASSUME LedgerInv, CapHeld, [Next]_vars PROVE CapHeld'
  OBVIOUS
<1>0. LedgerTypeOK /\ ledger.entries \in Seq(Entry)
  BY DEF LedgerInv, LedgerTypeOK, Book
<1>1. ASSUME NEW n \in Nodes, Estimate(n) PROVE CapHeld'
  <2> DEFINE e == [amount |-> Cost[n], period |-> period, waiver |-> Chosen, status |-> "estimated"]
  <2>1. ledger'.entries = Append(ledger.entries, e) /\ e \in Entry
    BY <1>1, EstimateIs
  <2>2. Total(OnWaiver(ledger.entries, Chosen, period)) + Cost[n] <= Cap[Chosen]
    BY <1>1 DEF Estimate, Allowed, PeriodSpend, LedgerInv, FreshCopy
  <2>3. e.period = period /\ e.amount = Cost[n] /\ e.waiver = Chosen
    OBVIOUS
  <2> HIDE DEF e
  <2>4. \A w \in Waivers, p \in Periods :
          Total(OnWaiver(ledger'.entries, w, p))
            = Total(OnWaiver(ledger.entries, w, p)) + (IF w = Chosen /\ p = period THEN Cost[n] ELSE 0)
    <3> TAKE w \in Waivers, p \in Periods
    <3>1. QED
      BY <1>0, <2>1, <2>3, BookedAppend
  <2>5. \A w \in Waivers, p \in Periods : Total(OnWaiver(ledger.entries, w, p)) \in Nat
    BY <1>0, AmountsType, TotalType
  <2>6. ASSUME NEW w \in Waivers, NEW p \in Periods
        PROVE  Total(OnWaiver(ledger'.entries, w, p)) <= Cap[w]
    <3>1. CASE w = Chosen /\ p = period
      BY <2>2, <2>4, <3>1
    <3>2. CASE ~(w = Chosen /\ p = period)
      <4>1. Total(OnWaiver(ledger'.entries, w, p)) = Total(OnWaiver(ledger.entries, w, p)) + 0
        BY <2>4, <3>2
      <4>2. Total(OnWaiver(ledger.entries, w, p)) <= Cap[w]
        BY DEF CapHeld
      <4>3. QED
        BY <2>5, <4>1, <4>2
    <3>3. QED
      BY <3>1, <3>2
  <2>7. QED
    BY <2>6 DEF CapHeld
<1>2. ASSUME NEW n \in Nodes, Succeed(n) PROVE CapHeld'
  <2>1. PICK k, p, x, c, s : k = entry[n] /\ Settling(k, p, x, c, s)
    BY <1>2, SucceedIs
  <2>2. \A w, q : OnWaiver(ledger'.entries, w, q) = OnWaiver(ledger.entries, w, q)
    <3>1. /\ k \in DOMAIN ledger.entries /\ ledger.entries[k].status = "estimated"
          /\ ledger'.entries = Settled(ledger.entries, k)
      BY <2>1 DEF Settling
    <3>2. QED
      BY <1>0, <3>1, BookedSettled
  <2>3. QED
    BY <2>2 DEF CapHeld
<1>3. ASSUME Onboard PROVE CapHeld'
  <2>1. ledger'.entries = ledger.entries
    BY <1>3, AllocateIs DEF Onboard
  <2>2. QED
    BY <2>1 DEF CapHeld
<1>4. ledger' = ledger => CapHeld'
  BY DEF CapHeld
<1>5. ASSUME NEW n \in Nodes, Reopen(n) \/ Park(n) \/ Refused(n) \/ EndWithoutActual(n) \/ Begin(n) PROVE ledger' = ledger
  BY <1>5 DEF Reopen, Park, Refused, EndWithoutActual, Begin
<1>6. CASE Enter \/ Reload \/ Leave \/ Offer \/ ReadLedger \/ NextPeriod
  BY <1>4, <1>6 DEF Enter, Reload, Leave, Offer, ReadLedger, NextPeriod
<1>7. ASSUME NEW w \in Waivers, Waive(w) \/ Expire(w) PROVE ledger' = ledger
  BY <1>7 DEF Waive, Expire
<1>8. CASE UNCHANGED vars
  BY <1>4, <1>8 DEF vars
<1>9. QED
  BY <1>1, <1>2, <1>3, <1>4, <1>5, <1>6, <1>7, <1>8 DEF Next

(* waivers.ts, maxPerPeriod: all that is ever booked on a waiver in a period *)
(* is within its cap.                                                        *)
THEOREM CapHolds == Spec => []CapHeld
<1>1. Init => CapHeld
  BY NothingBooked, LedgerAssumption DEF CapHeld
<1>2. QED
  BY <1>1, LedgerInvHolds, CapStep, PTL DEF Spec

(* What a copy of the ledger makes of a balance of period p: it was allocated *)
(* at most the peak, and if `remaining` overstates what is left of the peak,  *)
(* it does not overstate it of more than there is to spend.                   *)
BudgetOf(book) == \A p \in Periods : book.balances[p] # Unfunded =>
    LET b == book.balances[p]
    IN  /\ b.allocated <= peak[p]
        /\ b.remaining + b.committed + b.spent > peak[p] => b.committed + b.spent < peak[p]

BudgetInv == BudgetOf(ledger) /\ BudgetOf(loaded) /\ BudgetHeld

(* A new estimate.  Either the session writes `remaining` as it follows from *)
(* the allocation in its copy, or it writes nothing: then the copy's was     *)
(* wrong by exactly this estimate, and the one on disk becomes wrong by as   *)
(* much.  What was booked then fits into the allocation.                     *)
LEMMA BudgetEstimate ==
    ASSUME LedgerInv, BudgetInv, NEW n \in Nodes, Estimate(n)
    PROVE  BudgetInv'
<1> DEFINE d == ledger.balances[period]
           b == loaded.balances[period]
           c == d.committed + Cost[n]
           s == d.spent
<1>1. /\ ledger'.balances = Patched(period, c, s) /\ c \in Nat /\ s \in Nat
      /\ b # Unfunded /\ d # Unfunded /\ d.committed = b.committed /\ d.spent = b.spent
  BY EstimateIs
<1>2. /\ period \in Periods /\ Cost[n] \in Nat /\ Cost[n] > 0 /\ ledger \in Book /\ loaded \in Book
      /\ peak \in [Periods -> Nat]
  BY LedgerAssumption DEF LedgerInv, LedgerTypeOK
<1>3. peak' = peak /\ loaded' = loaded /\ Cost[n] <= b.remaining
  BY DEF Estimate, Allowed, founder
<1>4. /\ b.allocated \in Nat /\ b.committed \in Nat /\ b.spent \in Nat /\ b.remaining \in Int
      /\ d.allocated \in Nat /\ d.remaining \in Int
  BY <1>1, <1>2, BalanceIs
<1>5. peak[period] \in Nat
  BY <1>2
<1>6. /\ d.allocated <= peak[period] /\ b.allocated <= peak[period]
      /\ b.remaining + b.committed + b.spent > peak[period] => b.committed + b.spent < peak[period]
  BY <1>1, <1>2 DEF BudgetInv, BudgetOf
<1> DEFINE r == Put(b.remaining, b.allocated - c - s, d.remaining)
           new == ledger'.balances[period]
<1>7. \A q \in Periods : q # period => ledger'.balances[q] = ledger.balances[q]
  <2> HIDE DEF c, s
  <2>1. QED
    BY <1>1, <1>2, PatchedIs
<1>8. /\ new # Unfunded /\ new.committed = c /\ new.spent = s /\ new.allocated = d.allocated /\ new.remaining = r
  <2> HIDE DEF c, s
  <2>1. QED
    BY <1>1, <1>2, PatchedIs
<1>9. c = b.committed + Cost[n] /\ s = b.spent
  BY <1>1
<1>10. r + c + s > peak[period] => c + s < peak[period]
  <2>1. CASE b.remaining = b.allocated - c - s
    BY <1>1, <1>2, <1>3, <1>4, <1>5, <1>6, <1>9, <2>1 DEF Put
  <2>2. CASE b.remaining # b.allocated - c - s
    <3>1. r = b.allocated - c - s
      BY <2>2 DEF Put
    <3> HIDE DEF r, c, s
    <3>2. QED
      BY <1>1, <1>4, <1>5, <1>6, <3>1
  <2>3. QED
    BY <2>1, <2>2
<1>11. c + s > peak[period] => c + s < peak[period] + Cost[n]
  BY <1>1, <1>2, <1>3, <1>4, <1>5, <1>6, <1>9
<1> HIDE DEF c, s, r
<1>12. ASSUME NEW q \in Periods, ledger'.balances[q] # Unfunded
       PROVE  LET x == ledger'.balances[q]
              IN  /\ x.allocated <= peak[q]
                  /\ x.remaining + x.committed + x.spent > peak[q] => x.committed + x.spent < peak[q]
                  /\ x.committed + x.spent > peak[q] => \E m \in Nodes : x.committed + x.spent < peak[q] + Cost[m]
  <2>1. CASE q = period
    BY <1>6, <1>8, <1>10, <1>11, <2>1
  <2>2. CASE q # period
    BY <1>7, <1>12, <2>2 DEF BudgetInv, BudgetOf, BudgetHeld
  <2>3. QED
    BY <2>1, <2>2
<1>13. BudgetOf(ledger)' /\ BudgetHeld'
  BY <1>3, <1>12 DEF BudgetOf, BudgetHeld
<1>14. BudgetOf(loaded)'
  BY <1>3 DEF BudgetInv, BudgetOf
<1>15. QED
  BY <1>13, <1>14 DEF BudgetInv

(* An actual moves its amount from committed to spent: no more is booked. *)
LEMMA BudgetSucceed ==
    ASSUME LedgerInv, BooksBalance, BudgetInv, NEW n \in Nodes, Succeed(n)
    PROVE  BudgetInv'
<1>0. PICK k, p, x, c, s : k = entry[n] /\ Settling(k, p, x, c, s)
  BY SucceedIs
<1> DEFINE d == ledger.balances[p]
           b == loaded.balances[p]
<1>1. /\ p \in Periods /\ x \in Nat /\ c \in Nat /\ s \in Nat
      /\ b # Unfunded /\ d # Unfunded /\ d.committed = b.committed /\ d.spent = b.spent
      /\ s = d.spent + x
  BY <1>0 DEF Settling
<1>m. /\ k \in DOMAIN ledger.entries /\ ledger.entries[k].status = "estimated"
      /\ p = ledger.entries[k].period /\ x = ledger.entries[k].amount
      /\ c = Max({0, d.committed - x})
  BY <1>0 DEF Settling
<1>2. ledger \in Book /\ loaded \in Book /\ peak \in [Periods -> Nat]
  BY DEF LedgerInv, LedgerTypeOK
<1>3. peak' = peak /\ loaded' = loaded
  BY DEF Succeed, founder
<1>4. /\ b.allocated \in Nat /\ b.committed \in Nat /\ b.spent \in Nat /\ b.remaining \in Int
      /\ d.allocated \in Nat /\ d.remaining \in Int
  BY <1>1, <1>2, BalanceIs
<1>5. peak[p] \in Nat
  BY <1>1, <1>2
<1>6. /\ d.allocated <= peak[p] /\ b.allocated <= peak[p]
      /\ d.remaining + d.committed + d.spent > peak[p] => d.committed + d.spent < peak[p]
  BY <1>1 DEF BudgetInv, BudgetOf
<1>a. c + s = b.committed + b.spent
  <2>1. c = d.committed - x
    BY <1>1, <1>m, SettledFits
  <2>2. QED
    BY <1>1, <1>4, <2>1
<1> DEFINE r == Put(b.remaining, b.allocated - c - s, d.remaining)
           new == ledger'.balances[p]
<1>7. \A q \in Periods : q # p => ledger'.balances[q] = ledger.balances[q]
  BY <1>0, SettlingIs
<1>8. new # Unfunded /\ new.committed = c /\ new.spent = s /\ new.allocated = d.allocated /\ new.remaining = r
  BY <1>0, SettlingIs
<1>10. r + c + s > peak[p] => c + s < peak[p]
  <2>1. CASE r = d.remaining
    BY <1>1, <1>4, <1>5, <1>6, <1>a, <2>1
  <2>2. CASE r = b.allocated - c - s
    BY <1>1, <1>4, <1>5, <1>6, <2>2
  <2>3. QED
    BY <2>1, <2>2 DEF Put
<1> HIDE DEF r
<1>12. ASSUME NEW q \in Periods, ledger'.balances[q] # Unfunded
       PROVE  LET y == ledger'.balances[q]
              IN  /\ y.allocated <= peak[q]
                  /\ y.remaining + y.committed + y.spent > peak[q] => y.committed + y.spent < peak[q]
                  /\ y.committed + y.spent > peak[q] => \E m \in Nodes : y.committed + y.spent < peak[q] + Cost[m]
  <2>1. CASE q = p
    BY <1>1, <1>6, <1>8, <1>10, <1>a, <2>1 DEF BudgetInv, BudgetHeld
  <2>2. CASE q # p
    BY <1>7, <1>12, <2>2 DEF BudgetInv, BudgetOf, BudgetHeld
  <2>3. QED
    BY <2>1, <2>2
<1>13. BudgetOf(ledger)' /\ BudgetHeld'
  BY <1>3, <1>12 DEF BudgetOf, BudgetHeld
<1>14. BudgetOf(loaded)'
  BY <1>3 DEF BudgetInv, BudgetOf
<1>15. QED
  BY <1>13, <1>14 DEF BudgetInv

(* The founder allocates: the peak rises with the allocation. *)
LEMMA BudgetOnboard ==
    ASSUME LedgerInv, BudgetInv, Onboard
    PROVE  BudgetInv'
<1>1. PICK amount \in Allocations : draft.ledger = ledger /\ Allocate(amount)
  BY DEF Onboard
<1>0. PICK p \in Periods : p = draft.period
  BY <1>1, AllocateIs
<1> DEFINE d == ledger.balances[p]
           new == ledger'.balances[p]
<1>2. /\ \A q \in Periods : q # p => ledger'.balances[q] = ledger.balances[q]
      /\ new \in Balance /\ new # Unfunded /\ new.allocated = amount
      /\ new.committed = (IF d # Unfunded THEN d.committed ELSE 0)
      /\ new.spent = (IF d # Unfunded THEN d.spent ELSE 0)
      /\ new.remaining = amount - new.committed - new.spent
  BY <1>0, <1>1, AllocateIs
<1>3. loaded' = loaded /\ peak' = [peak EXCEPT ![p] = Max({peak[p], amount})]
  BY <1>0, <1>1 DEF Allocate, memory
<1>4. peak \in [Periods -> Nat] /\ peak[p] \in Nat /\ amount \in Nat /\ loaded \in Book /\ ledger \in Book
  BY LedgerAssumption DEF LedgerInv, LedgerTypeOK
<1>5. peak'[p] \in Nat /\ peak'[p] >= peak[p] /\ peak'[p] >= amount
  <2> DEFINE y == peak[p]
  <2>1. y \in Int /\ amount \in Int
    BY <1>4
  <2> HIDE DEF y
  <2>2. Max({y, amount}) \in {y, amount} /\ Max({y, amount}) >= y /\ Max({y, amount}) >= amount
    BY <2>1, LargerIs
  <2>3. QED
    BY <1>3, <1>4, <2>2 DEF y
<1>6. \A q \in Periods : peak'[q] \in Nat /\ peak[q] \in Nat /\ peak'[q] >= peak[q]
  BY <1>3, <1>4, <1>5
<1>7. new.committed \in Nat /\ new.spent \in Nat /\ new.remaining \in Int
  BY <1>2 DEF Balance
<1>c. \A m \in Nodes : Cost[m] \in Nat /\ Cost[m] > 0
  BY LedgerAssumption
<1>8. \A q \in Periods, book \in {ledger, loaded} : book.balances[q] # Unfunded =>
        LET x == book.balances[q]
        IN  /\ x.allocated <= peak'[q]
            /\ x.remaining + x.committed + x.spent > peak'[q] => x.committed + x.spent < peak'[q]
  <2> SUFFICES ASSUME NEW q \in Periods, NEW book \in {ledger, loaded}, book.balances[q] # Unfunded
               PROVE  LET x == book.balances[q]
                      IN  /\ x.allocated <= peak'[q]
                          /\ x.remaining + x.committed + x.spent > peak'[q] => x.committed + x.spent < peak'[q]
    OBVIOUS
  <2> DEFINE x == book.balances[q]
  <2>1. book \in Book /\ BudgetOf(book)
    BY <1>4 DEF BudgetInv
  <2>2. x.allocated \in Nat /\ x.committed \in Nat /\ x.spent \in Nat /\ x.remaining \in Int
    BY <2>1, BalanceIs
  <2>3. x.allocated <= peak[q] /\ (x.remaining + x.committed + x.spent > peak[q] => x.committed + x.spent < peak[q])
    BY <2>1 DEF BudgetOf
  <2>4. QED
    BY <1>6, <2>2, <2>3
<1>9. \A q \in Periods : ledger.balances[q] # Unfunded =>
        LET x == ledger.balances[q]
        IN  x.committed + x.spent > peak'[q] => \E m \in Nodes : x.committed + x.spent < peak'[q] + Cost[m]
  <2> SUFFICES ASSUME NEW q \in Periods, ledger.balances[q] # Unfunded,
                      ledger.balances[q].committed + ledger.balances[q].spent > peak'[q]
               PROVE  \E m \in Nodes : ledger.balances[q].committed + ledger.balances[q].spent < peak'[q] + Cost[m]
    OBVIOUS
  <2> DEFINE k == ledger.balances[q].committed + ledger.balances[q].spent
  <2>1. k \in Nat
    BY <1>4, BalanceIs
  <2>2. k > peak[q]
    BY <1>6, <2>1
  <2>3. PICK m \in Nodes : k < peak[q] + Cost[m]
    BY <2>2 DEF BudgetInv, BudgetHeld
  <2>4. QED
    BY <1>6, <1>c, <2>1, <2>3
<1>10. /\ new.allocated <= peak'[p]
       /\ new.remaining + new.committed + new.spent <= peak'[p]
  BY <1>2, <1>4, <1>5, <1>7
<1>11. new.committed + new.spent > peak'[p] => \E m \in Nodes : new.committed + new.spent < peak'[p] + Cost[m]
  <2>1. CASE d = Unfunded
    BY <1>2, <1>5, <2>1
  <2>2. CASE d # Unfunded
    BY <1>2, <1>9, <2>2
  <2>3. QED
    BY <2>1, <2>2
<1>12. ASSUME NEW q \in Periods, ledger'.balances[q] # Unfunded
       PROVE  LET x == ledger'.balances[q]
              IN  /\ x.allocated <= peak'[q]
                  /\ x.remaining + x.committed + x.spent > peak'[q] => x.committed + x.spent < peak'[q]
                  /\ x.committed + x.spent > peak'[q] => \E m \in Nodes : x.committed + x.spent < peak'[q] + Cost[m]
  <2>1. CASE q = p
    BY <1>5, <1>7, <1>10, <1>11, <2>1, <1>2, <1>4
  <2>2. CASE q # p
    BY <1>2, <1>8, <1>9, <1>12, <2>2
  <2>3. QED
    BY <2>1, <2>2
<1>13. BudgetOf(ledger)' /\ BudgetHeld'
  BY <1>12 DEF BudgetOf, BudgetHeld
<1>14. BudgetOf(loaded)'
  BY <1>3, <1>8 DEF BudgetOf
<1>15. QED
  BY <1>13, <1>14 DEF BudgetInv

(* Every step keeps BudgetInv. *)
LEMMA BudgetStep == LedgerInv /\ BooksBalance /\ BudgetInv /\ [Next]_vars => BudgetInv'
<1> SUFFICES ASSUME LedgerInv, BooksBalance, BudgetInv, [Next]_vars PROVE BudgetInv'
  OBVIOUS
<1>1. ASSUME NEW n \in Nodes, Estimate(n) PROVE BudgetInv'
  BY <1>1, BudgetEstimate
<1>2. ASSUME NEW n \in Nodes, Succeed(n) PROVE BudgetInv'
  BY <1>2, BudgetSucceed
<1>3. CASE Onboard
  BY <1>3, BudgetOnboard
<1>4. ledger' = ledger /\ peak' = peak /\ loaded' \in {ledger, loaded, NoLedger} => BudgetInv'
  <2> SUFFICES ASSUME ledger' = ledger, peak' = peak, loaded' \in {ledger, loaded, NoLedger} PROVE BudgetInv'
    OBVIOUS
  <2>1. BudgetOf(NoLedger)
    BY DEF BudgetOf, NoLedger
  <2>2. QED
    BY <2>1 DEF BudgetInv, BudgetOf, BudgetHeld
<1>5. ASSUME NEW n \in Nodes, Reopen(n) \/ Park(n) \/ Refused(n) \/ EndWithoutActual(n) \/ Begin(n) PROVE BudgetInv'
  BY <1>4, <1>5 DEF Reopen, Park, Refused, EndWithoutActual, Begin, memory, founder
<1>6. CASE Enter \/ Reload \/ Leave \/ Offer
  BY <1>4, <1>6 DEF Enter, Reload, Leave, Offer, founder
<1>7. CASE ReadLedger \/ NextPeriod
  BY <1>4, <1>7 DEF ReadLedger, NextPeriod, memory
<1>8. ASSUME NEW w \in Waivers, Waive(w) \/ Expire(w) PROVE BudgetInv'
  BY <1>4, <1>8 DEF Waive, Expire, memory
<1>9. CASE UNCHANGED vars
  BY <1>4, <1>9 DEF vars, founder, memory
<1>10. QED
  BY <1>1, <1>2, <1>3, <1>5, <1>6, <1>7, <1>8, <1>9 DEF Next

(* R10: a unit overruns the largest allocation that it had by less than one  *)
(* estimate, whatever the founder allocates behind the session's back.       *)
THEOREM BudgetHolds == Spec => []BudgetHeld
<1>1. Init => BudgetInv
  BY DEF Init, NoLedger, BudgetInv, BudgetOf, BudgetHeld
<1>2. BudgetInv => BudgetHeld
  BY DEF BudgetInv
<1>3. QED
  BY <1>1, <1>2, LedgerInvHolds, BooksBalanceHolds, BudgetStep, PTL DEF Spec

(* The premise under which nothing is overrun: no two of the amounts that    *)
(* the founder allocates are exactly one estimate apart.  It holds when a    *)
(* period is allocated once, or only ever the same amount.                   *)
AllocationsApart == \A a, b \in Allocations, n \in Nodes : a # b + Cost[n]

(* R10 to the letter: no more is booked than the unit was ever allocated. *)
WithinAllocation == \A p \in Periods : ledger.balances[p] # Unfunded =>
    ledger.balances[p].committed + ledger.balances[p].spent <= peak[p]

(* `remaining` is what some allocation of the period leaves. *)
ExactOf(book) == \A p \in Periods : book.balances[p] # Unfunded =>
    LET b == book.balances[p]
    IN  /\ b.allocated \in Allocations /\ b.allocated <= peak[p]
        /\ b.remaining + b.committed + b.spent \in Allocations
        /\ b.remaining + b.committed + b.spent <= peak[p]

ExactInv == ExactOf(ledger) /\ ExactOf(loaded) /\ WithinAllocation

(* A new estimate: `remaining` in the session's copy is what an allocation  *)
(* leaves, so it cannot be off by just this estimate, and is written.        *)
LEMMA ExactEstimate ==
    ASSUME AllocationsApart, LedgerInv, ExactInv, NEW n \in Nodes, Estimate(n)
    PROVE  ExactInv'
<1> DEFINE d == ledger.balances[period]
           b == loaded.balances[period]
           c == d.committed + Cost[n]
           s == d.spent
<1>1. /\ ledger'.balances = Patched(period, c, s) /\ c \in Nat /\ s \in Nat
      /\ b # Unfunded /\ d # Unfunded /\ d.committed = b.committed /\ d.spent = b.spent
  BY EstimateIs
<1>2. /\ period \in Periods /\ Cost[n] \in Nat /\ Cost[n] > 0 /\ ledger \in Book /\ loaded \in Book
      /\ peak \in [Periods -> Nat]
  BY LedgerAssumption DEF LedgerInv, LedgerTypeOK
<1>3. peak' = peak /\ loaded' = loaded /\ Cost[n] <= b.remaining
  BY DEF Estimate, Allowed, founder
<1>4. /\ b.allocated \in Nat /\ b.committed \in Nat /\ b.spent \in Nat /\ b.remaining \in Int
      /\ d.allocated \in Nat /\ d.remaining \in Int
  BY <1>1, <1>2, BalanceIs
<1>5. peak[period] \in Nat
  BY <1>2
<1>6. /\ d.allocated \in Allocations /\ d.allocated <= peak[period]
      /\ b.allocated \in Allocations /\ b.allocated <= peak[period]
      /\ b.remaining + b.committed + b.spent \in Allocations
      /\ b.remaining + b.committed + b.spent <= peak[period]
  BY <1>1, <1>2 DEF ExactInv, ExactOf
<1> DEFINE r == Put(b.remaining, b.allocated - c - s, d.remaining)
           new == ledger'.balances[period]
<1>7. c = b.committed + Cost[n] /\ s = b.spent
  BY <1>1
<1>8. b.remaining # b.allocated - c - s
  <2>1. b.allocated # (b.remaining + b.committed + b.spent) + Cost[n]
    BY <1>6 DEF AllocationsApart
  <2>2. QED
    BY <1>2, <1>4, <1>7, <2>1
<1> HIDE DEF c, s
<1>9. \A q \in Periods : q # period => ledger'.balances[q] = ledger.balances[q]
  BY <1>1, <1>2, PatchedIs
<1>10. new # Unfunded /\ new.committed = c /\ new.spent = s /\ new.allocated = d.allocated /\ new.remaining = r
  BY <1>1, <1>2, PatchedIs
<1>11. r = b.allocated - c - s
  BY <1>8 DEF Put
<1> HIDE DEF r
<1>12. r + c + s = b.allocated /\ c + s <= peak[period]
  BY <1>1, <1>2, <1>3, <1>4, <1>5, <1>6, <1>7, <1>11
<1>13. ASSUME NEW q \in Periods, ledger'.balances[q] # Unfunded
       PROVE  LET x == ledger'.balances[q]
              IN  /\ x.allocated \in Allocations /\ x.allocated <= peak[q]
                  /\ x.remaining + x.committed + x.spent \in Allocations
                  /\ x.remaining + x.committed + x.spent <= peak[q]
                  /\ x.committed + x.spent <= peak[q]
  <2>1. CASE q = period
    BY <1>6, <1>10, <1>12, <2>1
  <2>2. CASE q # period
    BY <1>9, <1>13, <2>2 DEF ExactInv, ExactOf, WithinAllocation
  <2>3. QED
    BY <2>1, <2>2
<1>14. QED
  BY <1>3, <1>13 DEF ExactInv, ExactOf, WithinAllocation

(* An actual leaves what is booked as it was. *)
LEMMA ExactSucceed ==
    ASSUME LedgerInv, BooksBalance, ExactInv, NEW n \in Nodes, Succeed(n)
    PROVE  ExactInv'
<1>0. PICK k, p, x, c, s : k = entry[n] /\ Settling(k, p, x, c, s)
  BY SucceedIs
<1> DEFINE d == ledger.balances[p]
           b == loaded.balances[p]
<1>1. /\ p \in Periods /\ x \in Nat /\ c \in Nat /\ s \in Nat
      /\ b # Unfunded /\ d # Unfunded /\ d.committed = b.committed /\ d.spent = b.spent
      /\ s = d.spent + x
  BY <1>0 DEF Settling
<1>m. /\ k \in DOMAIN ledger.entries /\ ledger.entries[k].status = "estimated"
      /\ p = ledger.entries[k].period /\ x = ledger.entries[k].amount
      /\ c = Max({0, d.committed - x})
  BY <1>0 DEF Settling
<1>2. ledger \in Book /\ loaded \in Book
  BY DEF LedgerInv, LedgerTypeOK
<1>3. peak' = peak /\ loaded' = loaded
  BY DEF Succeed, founder
<1>4. /\ b.allocated \in Nat /\ b.committed \in Nat /\ b.spent \in Nat
      /\ d.allocated \in Nat /\ d.remaining \in Int
  BY <1>1, <1>2, BalanceIs
<1>5. /\ d.allocated \in Allocations /\ d.allocated <= peak[p]
      /\ b.allocated \in Allocations /\ b.allocated <= peak[p]
      /\ d.remaining + d.committed + d.spent \in Allocations
      /\ d.remaining + d.committed + d.spent <= peak[p]
      /\ d.committed + d.spent <= peak[p]
  BY <1>1 DEF ExactInv, ExactOf, WithinAllocation
<1>6. c + s = d.committed + d.spent
  <2>1. c = d.committed - x
    BY <1>1, <1>m, SettledFits
  <2>2. QED
    BY <1>1, <1>4, <2>1
<1> DEFINE r == Put(b.remaining, b.allocated - c - s, d.remaining)
           new == ledger'.balances[p]
<1>7. \A q \in Periods : q # p => ledger'.balances[q] = ledger.balances[q]
  BY <1>0, SettlingIs
<1>8. new # Unfunded /\ new.committed = c /\ new.spent = s /\ new.allocated = d.allocated /\ new.remaining = r
  BY <1>0, SettlingIs
<1>9. r + c + s \in {b.allocated, d.remaining + d.committed + d.spent}
  <2>1. CASE r = d.remaining
    BY <1>1, <1>4, <1>6, <2>1
  <2>2. CASE r = b.allocated - c - s
    BY <1>1, <1>4, <2>2
  <2>3. QED
    BY <2>1, <2>2 DEF Put
<1> HIDE DEF r
<1>10. ASSUME NEW q \in Periods, ledger'.balances[q] # Unfunded
       PROVE  LET y == ledger'.balances[q]
              IN  /\ y.allocated \in Allocations /\ y.allocated <= peak[q]
                  /\ y.remaining + y.committed + y.spent \in Allocations
                  /\ y.remaining + y.committed + y.spent <= peak[q]
                  /\ y.committed + y.spent <= peak[q]
  <2>1. CASE q = p
    BY <1>5, <1>6, <1>8, <1>9, <2>1
  <2>2. CASE q # p
    BY <1>7, <1>10, <2>2 DEF ExactInv, ExactOf, WithinAllocation
  <2>3. QED
    BY <2>1, <2>2
<1>11. QED
  BY <1>3, <1>10 DEF ExactInv, ExactOf, WithinAllocation

(* The founder allocates: `remaining` is what this allocation leaves. *)
LEMMA ExactOnboard ==
    ASSUME LedgerInv, ExactInv, Onboard
    PROVE  ExactInv'
<1>1. PICK amount \in Allocations : draft.ledger = ledger /\ Allocate(amount)
  BY DEF Onboard
<1>0. PICK p \in Periods : p = draft.period
  BY <1>1, AllocateIs
<1> DEFINE d == ledger.balances[p]
           new == ledger'.balances[p]
<1>2. /\ \A q \in Periods : q # p => ledger'.balances[q] = ledger.balances[q]
      /\ new \in Balance /\ new # Unfunded /\ new.allocated = amount
      /\ new.committed = (IF d # Unfunded THEN d.committed ELSE 0)
      /\ new.spent = (IF d # Unfunded THEN d.spent ELSE 0)
      /\ new.remaining = amount - new.committed - new.spent
  BY <1>0, <1>1, AllocateIs
<1>3. loaded' = loaded /\ peak' = [peak EXCEPT ![p] = Max({peak[p], amount})]
  BY <1>0, <1>1 DEF Allocate, memory
<1>4. peak \in [Periods -> Nat] /\ amount \in Nat /\ loaded \in Book /\ ledger \in Book /\ Allocations \subseteq Nat
  BY LedgerAssumption DEF LedgerInv, LedgerTypeOK
<1>5. /\ peak'[p] >= amount
      /\ \A q \in Periods : peak'[q] \in Nat /\ peak[q] \in Nat /\ peak'[q] >= peak[q]
  <2> DEFINE y == peak[p]
  <2>1. y \in Int /\ y \in Nat /\ amount \in Int
    BY <1>4
  <2> HIDE DEF y
  <2>2. Max({y, amount}) \in {y, amount} /\ Max({y, amount}) >= y /\ Max({y, amount}) >= amount
    BY <2>1, LargerIs
  <2>3. QED
    BY <1>3, <1>4, <2>1, <2>2 DEF y
<1>6. new.committed \in Nat /\ new.spent \in Nat /\ new.remaining \in Int
  BY <1>2 DEF Balance
<1>7. new.remaining + new.committed + new.spent = amount
  BY <1>2, <1>4, <1>6
<1>8. \A q \in Periods, book \in {ledger, loaded} : book.balances[q] # Unfunded =>
        LET x == book.balances[q]
        IN  /\ x.allocated \in Allocations /\ x.allocated <= peak'[q]
            /\ x.remaining + x.committed + x.spent \in Allocations
            /\ x.remaining + x.committed + x.spent <= peak'[q]
  <2> SUFFICES ASSUME NEW q \in Periods, NEW book \in {ledger, loaded}, book.balances[q] # Unfunded
               PROVE  LET x == book.balances[q]
                      IN  /\ x.allocated \in Allocations /\ x.allocated <= peak'[q]
                          /\ x.remaining + x.committed + x.spent \in Allocations
                          /\ x.remaining + x.committed + x.spent <= peak'[q]
    OBVIOUS
  <2> DEFINE x == book.balances[q]
             k == x.remaining + x.committed + x.spent
  <2>1. x.allocated \in Allocations /\ x.allocated <= peak[q] /\ k \in Allocations /\ k <= peak[q]
    BY DEF ExactInv, ExactOf
  <2> HIDE DEF k
  <2>2. x.allocated \in Nat /\ k \in Nat /\ peak[q] \in Nat /\ peak'[q] \in Nat /\ peak'[q] >= peak[q]
    BY <1>4, <1>5, <2>1
  <2>3. x.allocated <= peak'[q] /\ k <= peak'[q]
    BY <2>1, <2>2
  <2>4. QED
    BY <2>1, <2>3 DEF k
<1>9. \A q \in Periods : ledger.balances[q] # Unfunded =>
        ledger.balances[q].committed + ledger.balances[q].spent <= peak'[q]
  <2> SUFFICES ASSUME NEW q \in Periods, ledger.balances[q] # Unfunded
               PROVE  ledger.balances[q].committed + ledger.balances[q].spent <= peak'[q]
    OBVIOUS
  <2> DEFINE k == ledger.balances[q].committed + ledger.balances[q].spent
  <2>1. k \in Nat /\ k <= peak[q]
    BY <1>4, BalanceIs DEF ExactInv, WithinAllocation
  <2> HIDE DEF k
  <2>2. k <= peak'[q]
    BY <1>5, <2>1
  <2>3. QED
    BY <2>2 DEF k
<1>10. new.committed + new.spent <= peak'[p]
  <2>1. CASE d = Unfunded
    BY <1>2, <1>5, <2>1
  <2>2. CASE d # Unfunded
    BY <1>2, <1>9, <2>2
  <2>3. QED
    BY <2>1, <2>2
<1>11. ASSUME NEW q \in Periods, ledger'.balances[q] # Unfunded
       PROVE  LET x == ledger'.balances[q]
              IN  /\ x.allocated \in Allocations /\ x.allocated <= peak'[q]
                  /\ x.remaining + x.committed + x.spent \in Allocations
                  /\ x.remaining + x.committed + x.spent <= peak'[q]
                  /\ x.committed + x.spent <= peak'[q]
  <2>1. CASE q = p
    BY <1>2, <1>5, <1>7, <1>10, <2>1
  <2>2. CASE q # p
    BY <1>2, <1>8, <1>9, <1>11, <2>2
  <2>3. QED
    BY <2>1, <2>2
<1>12. QED
  BY <1>3, <1>8, <1>11 DEF ExactInv, ExactOf, WithinAllocation

(* Every step keeps ExactInv. *)
LEMMA ExactStep == AllocationsApart /\ LedgerInv /\ BooksBalance /\ ExactInv /\ [Next]_vars => ExactInv'
<1> SUFFICES ASSUME AllocationsApart, LedgerInv, BooksBalance, ExactInv, [Next]_vars PROVE ExactInv'
  OBVIOUS
<1>1. ASSUME NEW n \in Nodes, Estimate(n) PROVE ExactInv'
  BY <1>1, ExactEstimate
<1>2. ASSUME NEW n \in Nodes, Succeed(n) PROVE ExactInv'
  BY <1>2, ExactSucceed
<1>3. CASE Onboard
  BY <1>3, ExactOnboard
<1>4. ledger' = ledger /\ peak' = peak /\ loaded' \in {ledger, loaded, NoLedger} => ExactInv'
  <2> SUFFICES ASSUME ledger' = ledger, peak' = peak, loaded' \in {ledger, loaded, NoLedger} PROVE ExactInv'
    OBVIOUS
  <2>1. ExactOf(NoLedger)
    BY DEF ExactOf, NoLedger
  <2>2. QED
    BY <2>1 DEF ExactInv, ExactOf, WithinAllocation
<1>5. ASSUME NEW n \in Nodes, Reopen(n) \/ Park(n) \/ Refused(n) \/ EndWithoutActual(n) \/ Begin(n) PROVE ExactInv'
  BY <1>4, <1>5 DEF Reopen, Park, Refused, EndWithoutActual, Begin, memory, founder
<1>6. CASE Enter \/ Reload \/ Leave \/ Offer
  BY <1>4, <1>6 DEF Enter, Reload, Leave, Offer, founder
<1>7. CASE ReadLedger \/ NextPeriod
  BY <1>4, <1>7 DEF ReadLedger, NextPeriod, memory
<1>8. ASSUME NEW w \in Waivers, Waive(w) \/ Expire(w) PROVE ExactInv'
  BY <1>4, <1>8 DEF Waive, Expire, memory
<1>9. CASE UNCHANGED vars
  BY <1>4, <1>9 DEF vars, founder, memory
<1>10. QED
  BY <1>1, <1>2, <1>3, <1>5, <1>6, <1>7, <1>8, <1>9 DEF Next

(* R10 to the letter, unless two of the founder's allocations differ by      *)
(* exactly one estimate: the session that then leaves a `remaining` of the   *)
(* other on disk is the only way to overrun what was allocated.              *)
THEOREM BudgetExact == ASSUME AllocationsApart PROVE Spec => []WithinAllocation
<1>1. Init => ExactInv
  BY DEF Init, NoLedger, ExactInv, ExactOf, WithinAllocation
<1>2. LedgerInv /\ BooksBalance /\ ExactInv /\ [Next]_vars => ExactInv'
  BY ExactStep
<1>3. ExactInv => WithinAllocation
  BY DEF ExactInv
<1>4. QED
  BY <1>1, <1>2, <1>3, LedgerInvHolds, BooksBalanceHolds, PTL DEF Spec
-----------------------------------------------------------------------------
(***************************************************************************)
(* The lock, for any number of processes and interactive callers.  Mutual  *)
(* exclusion and the implementation of Mutex are proved for callers that   *)
(* never pass breakStale, exclusion and safe breaking for a single one     *)
(* that does: of two, one may unlink the fresh lock of the other.          *)
(***************************************************************************)

(* openSync("wx") leaves a lock file behind whether or not it succeeds.      *)
LEMMA CreatesLockFile ==
    ASSUME TypeOK, NEW p \in Procs, NEW next, TryCreate(p, next)
    PROVE  file' \in LockFile
<1>1. Empty(p) \in LockFile
  BY DEF Empty, LockFile
<1>2. QED
  BY <1>1 DEF TryCreate, TypeOK

USE DEF Agents, LockFile, Absent, Empty, Written, Readable, Owning, Owns, Goto, Acquiring, Holding,
        TryCreate, Attempt, Retry, WriteFresh, Look, ReadBack, Break, ReadOwn, HeartbeatRead,
        HeartbeatWrite, CheckYield, ReleaseRead, ReleaseUnlink, RequestRead, RequestWrite, Crash, Tick

(* The lock file, the clock and every process's local state keep their types *)
(* through every file-system call of lock.ts.                                *)
THEOREM LockTypeCorrect == LockSpec => []TypeOK
<1>1. LockInit => TypeOK
  BY TimeAssumption DEF LockInit, TypeOK
<1>2. TypeOK /\ [LockNext]_lockVars => TypeOK'
  <2> SUFFICES ASSUME TypeOK, [LockNext]_lockVars PROVE TypeOK'
    OBVIOUS
  <2> USE DEF TypeOK
  <2>1. ASSUME NEW p \in Procs, Attempt(p) PROVE TypeOK'
    <3>1. file' \in LockFile
      BY ONLY TypeOK, <2>1, CreatesLockFile DEF Attempt
    <3>2. QED
      BY <2>1, <3>1
  <2>2. ASSUME NEW p \in Procs, Retry(p) PROVE TypeOK'
    <3>1. file' \in LockFile
      BY ONLY TypeOK, <2>2, CreatesLockFile DEF Retry
    <3>2. QED
      BY <2>2, <3>1
  <2>3. ASSUME NEW p \in Procs, WriteFresh(p) PROVE TypeOK'
    BY <2>3
  <2>4. ASSUME NEW p \in Procs, Look(p) PROVE TypeOK'
    BY <2>4
  <2>5. ASSUME NEW p \in Procs, ReadBack(p) PROVE TypeOK'
    BY <2>5
  <2>6. ASSUME NEW p \in Procs, Break(p) PROVE TypeOK'
    BY <2>6
  <2>7. ASSUME NEW p \in Procs, HeartbeatRead(p) PROVE TypeOK'
    BY <2>7
  <2>8. ASSUME NEW p \in Procs, HeartbeatWrite(p) PROVE TypeOK'
    BY <2>8
  <2>9. ASSUME NEW p \in Procs, CheckYield(p) PROVE TypeOK'
    BY <2>9
  <2>10. ASSUME NEW p \in Procs, ReleaseRead(p) PROVE TypeOK'
    BY <2>10
  <2>11. ASSUME NEW p \in Procs, ReleaseUnlink(p) PROVE TypeOK'
    BY <2>11
  <2>12. ASSUME NEW p \in Procs, Crash(p) PROVE TypeOK'
    BY <2>12
  <2>13. ASSUME NEW r \in Requesters, RequestRead(r) PROVE TypeOK'
    BY <2>13
  <2>14. ASSUME NEW r \in Requesters, RequestWrite(r) PROVE TypeOK'
    BY <2>14
  <2>15. CASE Tick
    BY <2>15
  <2>16. CASE UNCHANGED lockVars
    BY <2>16 DEF lockVars
  <2>17. QED
    BY <2>1, <2>2, <2>3, <2>4, <2>5, <2>6, <2>7, <2>8, <2>9, <2>10, <2>11, <2>12, <2>13, <2>14,
       <2>15, <2>16 DEF LockNext
<1>3. QED
  BY <1>1, <1>2, PTL DEF LockSpec

(* Nobody is on the way to unlinking another process's file, what a process  *)
(* renames over the lock is a complete file, and the file exists as long as  *)
(* its one owner has not unlinked it.                                        *)
NoneBreaking == \A p \in Procs : pc[p] \notin {"verifying", "breaking"}

CopiesWritten == \A a \in Agents : pc[a] \in {"beating", "requesting"} => copy[a].state = "written"

OwnedPresent == \A p \in Procs : Owns(p) => file.state # "absent"

LockInv == NoneBreaking /\ CopiesWritten /\ OwnedPresent /\ MutualExclusion

LEMMA LockInvHolds == ASSUME Breakers = {} PROVE LockSpec => []LockInv
<1> USE DEF LockInv, NoneBreaking, CopiesWritten, OwnedPresent, MutualExclusion
<1>1. LockInit => LockInv
  BY ProcsAssumption DEF LockInit
<1>2. TypeOK /\ LockInv /\ [LockNext]_lockVars => LockInv'
  <2> SUFFICES ASSUME TypeOK, LockInv, [LockNext]_lockVars PROVE LockInv'
    OBVIOUS
  <2> USE ProcsAssumption DEF TypeOK
  <2>1. ASSUME NEW p \in Procs, Attempt(p) PROVE LockInv'
    BY <2>1
  <2>2. ASSUME NEW p \in Procs, Retry(p) PROVE LockInv'
    BY <2>2
  <2>3. ASSUME NEW p \in Procs, WriteFresh(p) PROVE LockInv'
    BY <2>3
  <2>4. ASSUME NEW p \in Procs, Look(p) PROVE LockInv'
    BY <2>4
  <2>5. ASSUME NEW p \in Procs, ReadBack(p) PROVE LockInv'
    BY <2>5
  <2>6. ASSUME NEW p \in Procs, Break(p) PROVE LockInv'
    BY <2>6
  <2>7. ASSUME NEW p \in Procs, HeartbeatRead(p) PROVE LockInv'
    BY <2>7
  <2>8. ASSUME NEW p \in Procs, HeartbeatWrite(p) PROVE LockInv'
    BY <2>8
  <2>9. ASSUME NEW p \in Procs, CheckYield(p) PROVE LockInv'
    BY <2>9
  <2>10. ASSUME NEW p \in Procs, ReleaseRead(p) PROVE LockInv'
    BY <2>10
  <2>11. ASSUME NEW p \in Procs, ReleaseUnlink(p) PROVE LockInv'
    BY <2>11
  <2>12. ASSUME NEW p \in Procs, Crash(p) PROVE LockInv'
    BY <2>12
  <2>13. ASSUME NEW r \in Requesters, RequestRead(r) PROVE LockInv'
    BY <2>13
  <2>14. ASSUME NEW r \in Requesters, RequestWrite(r) PROVE LockInv'
    BY <2>14
  <2>15. CASE Tick
    BY <2>15
  <2>16. CASE UNCHANGED lockVars
    BY <2>16 DEF lockVars
  <2>17. QED
    BY <2>1, <2>2, <2>3, <2>4, <2>5, <2>6, <2>7, <2>8, <2>9, <2>10, <2>11, <2>12, <2>13, <2>14,
       <2>15, <2>16 DEF LockNext
<1>3. QED
  BY <1>1, <1>2, LockTypeCorrect, PTL DEF LockSpec

(* tryAcquireFresh is the mutual-exclusion gate: without breakStale no two   *)
(* processes ever both hold the lock, for any interleaving of any number of  *)
(* acquirers, holders, interactive callers and crashes.                      *)
THEOREM LockExcludes == ASSUME Breakers = {} PROVE LockSpec => []MutualExclusion
<1>1. LockInv => MutualExclusion
  BY DEF LockInv
<1>2. QED
  BY <1>1, LockInvHolds, PTL

(* The lock a caller sees is Mutex: one owner at a time, and once an owner   *)
(* dies, or loses its file to a late interactive request, the lock is never  *)
(* free again.                                                               *)
THEOREM LockImplementsMutex == ASSUME Breakers = {} PROVE LockSpec => ImplementsMutex
<1>1. LockInit => M!Init
  BY DEF LockInit, M!Init, lock
<1>2. TypeOK /\ LockInv /\ LockInv' /\ [LockNext]_lockVars => [M!Next]_lock
  <2> SUFFICES ASSUME TypeOK, LockInv, LockInv', [LockNext]_lockVars PROVE [M!Next]_lock
    OBVIOUS
  <2>a. /\ \A p \in Procs : Owns(p) => lock = p
        /\ (\A p \in Procs : ~Owns(p)) => lock = IF file.state = "absent" THEN Free ELSE Wedged
    BY DEF lock, LockInv, MutualExclusion
  <2>b. /\ \A p \in Procs : Owns(p)' => lock' = p
        /\ (\A p \in Procs : ~Owns(p)') => lock' = IF file'.state = "absent" THEN Free ELSE Wedged
    BY DEF lock, LockInv, MutualExclusion
  <2> USE <2>a, <2>b, ProcsAssumption
      DEF TypeOK, LockInv, NoneBreaking, CopiesWritten, OwnedPresent, MutualExclusion,
          M!Next, M!Acquire, M!Release, M!Abandon, M!Resurrect
  <2>1. ASSUME NEW p \in Procs, Attempt(p) PROVE [M!Next]_lock
    BY <2>1
  <2>2. ASSUME NEW p \in Procs, Retry(p) PROVE [M!Next]_lock
    BY <2>2
  <2>3. ASSUME NEW p \in Procs, WriteFresh(p) PROVE [M!Next]_lock
    BY <2>3
  <2>4. ASSUME NEW p \in Procs, Look(p) PROVE [M!Next]_lock
    BY <2>4
  <2>5. ASSUME NEW p \in Procs, ReadBack(p) PROVE [M!Next]_lock
    BY <2>5
  <2>6. ASSUME NEW p \in Procs, Break(p) PROVE [M!Next]_lock
    BY <2>6
  <2>7. ASSUME NEW p \in Procs, HeartbeatRead(p) PROVE [M!Next]_lock
    BY <2>7
  <2>8. ASSUME NEW p \in Procs, HeartbeatWrite(p) PROVE [M!Next]_lock
    BY <2>8
  <2>9. ASSUME NEW p \in Procs, CheckYield(p) PROVE [M!Next]_lock
    BY <2>9
  <2>10. ASSUME NEW p \in Procs, ReleaseRead(p) PROVE [M!Next]_lock
    BY <2>10
  <2>11. ASSUME NEW p \in Procs, ReleaseUnlink(p) PROVE [M!Next]_lock
    BY <2>11
  <2>12. ASSUME NEW p \in Procs, Crash(p) PROVE [M!Next]_lock
    BY <2>12
  <2>13. ASSUME NEW r \in Requesters, RequestRead(r) PROVE [M!Next]_lock
    BY <2>13
  <2>14. ASSUME NEW r \in Requesters, RequestWrite(r) PROVE [M!Next]_lock
    BY <2>14
  <2>15. CASE Tick
    BY <2>15
  <2>16. CASE UNCHANGED lockVars
    BY <2>16 DEF lockVars, lock
  <2>17. QED
    BY <2>1, <2>2, <2>3, <2>4, <2>5, <2>6, <2>7, <2>8, <2>9, <2>10, <2>11, <2>12, <2>13, <2>14,
       <2>15, <2>16 DEF LockNext
<1>3. QED
  BY <1>1, <1>2, LockTypeCorrect, LockInvHolds, PTL DEF LockSpec, ImplementsMutex, M!Spec

(* With one process that breaks stale locks, owners that keep their          *)
(* heartbeat and no interactive caller, an owner's file is its own and       *)
(* fresh, and what the breaker is about to unlink is stale and nobody's.     *)
OwnersFile == \A p \in Procs : Owns(p) =>
    /\ file.owner = p
    /\ IF pc[p] = "creating" THEN file = Empty(p) ELSE file.state = "written"
    /\ pc[p] = "beating" => copy[p].state = "written" /\ copy[p].owner = p

OwnersFresh == \A p \in Procs : Owns(p) =>
    /\ file.state = "written" => clock <= file.heartbeatAt + Ttl
    /\ pc[p] \in {"creating", "beating"} => clock <= stamp[p] + Ttl

BreaksDeadOnly == \A p \in Procs :
    /\ pc[p] \in {"verifying", "breaking"} => p \in Breakers
    /\ pc[p] = "breaking" => /\ file.state = "written" /\ clock > file.heartbeatAt + Ttl
                            /\ \A q \in Procs : ~Owns(q)

OneBreaker == Timely /\ Requesters = {} /\ \A p, q \in Breakers : p = q

BreakerInv == OwnersFile /\ OwnersFresh /\ BreaksDeadOnly

LEMMA BreakerInvHolds == ASSUME OneBreaker PROVE LockSpec => []BreakerInv
<1> USE DEF BreakerInv, OwnersFile, OwnersFresh, BreaksDeadOnly, OneBreaker
<1>1. LockInit => BreakerInv
  BY ProcsAssumption DEF LockInit
<1>2. TypeOK /\ BreakerInv /\ [LockNext]_lockVars => BreakerInv'
  <2> SUFFICES ASSUME TypeOK, BreakerInv, [LockNext]_lockVars PROVE BreakerInv'
    OBVIOUS
  <2> USE ProcsAssumption, TimeAssumption, BreakersAssumption DEF TypeOK, IsStale
  <2>1. ASSUME NEW p \in Procs, Attempt(p) PROVE BreakerInv'
    BY <2>1
  <2>2. ASSUME NEW p \in Procs, Retry(p) PROVE BreakerInv'
    BY <2>2
  <2>3. ASSUME NEW p \in Procs, WriteFresh(p) PROVE BreakerInv'
    BY <2>3
  <2>4. ASSUME NEW p \in Procs, Look(p) PROVE BreakerInv'
    BY <2>4
  <2>5. ASSUME NEW p \in Procs, ReadBack(p) PROVE BreakerInv'
    BY <2>5
  <2>6. ASSUME NEW p \in Procs, Break(p) PROVE BreakerInv'
    BY <2>6
  <2>7. ASSUME NEW p \in Procs, HeartbeatRead(p) PROVE BreakerInv'
    BY <2>7
  <2>8. ASSUME NEW p \in Procs, HeartbeatWrite(p) PROVE BreakerInv'
    BY <2>8
  <2>9. ASSUME NEW p \in Procs, CheckYield(p) PROVE BreakerInv'
    BY <2>9
  <2>10. ASSUME NEW p \in Procs, ReleaseRead(p) PROVE BreakerInv'
    BY <2>10
  <2>11. ASSUME NEW p \in Procs, ReleaseUnlink(p) PROVE BreakerInv'
    BY <2>11
  <2>12. ASSUME NEW p \in Procs, Crash(p) PROVE BreakerInv'
    BY <2>12
  <2>13. CASE Tick
    BY <2>13
  <2>14. CASE UNCHANGED lockVars
    BY <2>14 DEF lockVars
  <2>15. QED
    BY <2>1, <2>2, <2>3, <2>4, <2>5, <2>6, <2>7, <2>8, <2>9, <2>10, <2>11, <2>12, <2>13, <2>14
       DEF LockNext
<1>3. QED
  BY <1>1, <1>2, LockTypeCorrect, PTL DEF LockSpec

(* lock.ts:8, for any number of processes: the one process that breaks stale *)
(* locks never unlinks the file of a live owner with a recent heartbeat.     *)
THEOREM SingleBreakerSafe == ASSUME OneBreaker PROVE LockSpec => LiveLockNeverBroken
<1>1. TypeOK /\ BreakerInv /\ [LockNext]_lockVars =>
        [\A p \in Procs : Break(p) =>
           file.state = "absent" \/ ~Owns(file.owner) \/ (Readable /\ clock > file.heartbeatAt + Ttl)]_lockVars
  BY DEF BreakerInv, BreaksDeadOnly
<1>2. QED
  BY <1>1, LockTypeCorrect, BreakerInvHolds, PTL DEF LockSpec, LiveLockNeverBroken

(* Breaking stale locks keeps the lock exclusive as well, as long as one     *)
(* process does it and no owner lets its heartbeat go stale.                 *)
THEOREM SingleBreakerExcludes == ASSUME OneBreaker PROVE LockSpec => []MutualExclusion
<1>1. BreakerInv => MutualExclusion
  BY DEF BreakerInv, OwnersFile, MutualExclusion
<1>2. QED
  BY <1>1, BreakerInvHolds, PTL
=============================================================================
