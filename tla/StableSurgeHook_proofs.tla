----------------------- MODULE StableSurgeHook_proofs -----------------------
(***************************************************************************)
(* For every unit of percentages, number of tokens, largest balance and    *)
(* defaults: no centre is nearer to the balances than their median, so the *)
(* hook's arithmetic never fails; the fee stays between its ends and       *)
(* follows the imbalance; liquidity takes a pool further past the          *)
(* threshold by no more than roundings and the fee the hook cannot see.    *)
(***************************************************************************)
EXTENDS StableSurgeHook, RampArithmetic, FiniteSetTheorems

-----------------------------------------------------------------------------
(* Loops over the balances.  What a loop computes is shown for pools of    *)
(* every size by the first round that would do otherwise.                  *)

LEMMA LengthIs ==
    ASSUME NEW n \in Nat, NEW S, NEW s \in [1..n -> S]
    PROVE  Len(s) = n /\ DOMAIN s = 1..n
<1>1. s \in Seq(S)
  OBVIOUS
<1>2. Len(s) \in Nat /\ DOMAIN s = 1..Len(s)
  BY <1>1
<1>3. DOMAIN s = 1..n
  OBVIOUS
<1> QED  BY <1>2, <1>3

\* g holds what the loop over s has added up after each of n rounds.
TotalsTo(s, n, g) ==
    /\ g \in [0..n -> Int]
    /\ g[0] = 0
    /\ \A k \in 1..n : g[k] = g[k - 1] + s[k]

LEMMA TotalsExist ==
    ASSUME NEW n \in Nat, NEW s \in [1..n -> Int], NEW m \in Nat, m <= n
    PROVE  \E g : TotalsTo(s, m, g)
<1> DEFINE Bad == {k \in Nat : k <= n /\ ~ \E g : TotalsTo(s, k, g)}
<1>1. Bad = {}
  <2> SUFFICES ASSUME Bad # {} PROVE FALSE
    OBVIOUS
  <2>1. PICK k \in Bad : k - 1 \notin Bad
    <3>1. Bad \in SUBSET Nat
      OBVIOUS
    <3> HIDE DEF Bad
    <3> QED  BY <3>1, LeastNumber
  <2>2. CASE k = 0
    <3>1. TotalsTo(s, 0, [i \in 0..0 |-> 0])
      BY DEF TotalsTo
    <3> QED  BY <2>2, <3>1
  <2>3. CASE k # 0
    <3>1. PICK g : TotalsTo(s, k - 1, g)
      BY <2>1, <2>3
    <3> DEFINE h == [i \in 0..k |-> IF i = k THEN g[k - 1] + s[k] ELSE g[i]]
    <3>2. k \in Nat \ {0} /\ k \in 1..n /\ k - 1 \in 0..(k - 1)
      BY <2>3
    <3>3. g[k - 1] \in Int /\ s[k] \in Int
      BY <3>1, <3>2 DEF TotalsTo
    <3>4. h \in [0..k -> Int]
      BY <3>1, <3>2, <3>3 DEF TotalsTo
    <3>5. h[0] = 0
      BY <3>1, <3>2 DEF TotalsTo
    <3>6. \A i \in 1..k : h[i] = h[i - 1] + s[i]
      <4> SUFFICES ASSUME NEW i \in 1..k PROVE h[i] = h[i - 1] + s[i]
        OBVIOUS
      <4>1. h[i - 1] = g[i - 1]
        BY <3>2
      <4>2. CASE i = k
        BY <3>2, <4>1, <4>2
      <4>3. CASE i # k
        BY <3>1, <3>2, <4>1, <4>3 DEF TotalsTo
      <4> QED  BY <4>2, <4>3
    <3>7. TotalsTo(s, k, h)
      <4> HIDE DEF h
      <4> QED  BY <3>4, <3>5, <3>6 DEF TotalsTo
    <3> QED  BY <3>7
  <2> QED  BY <2>2, <2>3
<1> QED  BY <1>1

LEMMA TotalsAre ==
    ASSUME NEW n \in Nat, NEW s \in [1..n -> Int]
    PROVE  /\ RunningTotals(s) \in [0..n -> Int]
           /\ RunningTotals(s)[0] = 0
           /\ \A k \in 1..n :
                  RunningTotals(s)[k] = RunningTotals(s)[k - 1] + s[k]
           /\ Total(s) = RunningTotals(s)[n]
<1> DEFINE p == CHOOSE q : q = [k \in 0..n |-> IF k = 0 THEN 0 ELSE q[k - 1] + s[k]]
<1>1. Len(s) = n
  BY LengthIs
<1>2. PICK g : TotalsTo(s, n, g)
  BY TotalsExist
<1>3. g = [k \in 0..n |-> IF k = 0 THEN 0 ELSE g[k - 1] + s[k]]
  <2>1. \A k \in 0..n : g[k] = IF k = 0 THEN 0 ELSE g[k - 1] + s[k]
    BY <1>2 DEF TotalsTo
  <2>2. g \in [0..n -> Int]
    BY <1>2 DEF TotalsTo
  <2> QED  BY <2>1, <2>2
<1>4. p = [k \in 0..n |-> IF k = 0 THEN 0 ELSE p[k - 1] + s[k]]
  BY <1>3
<1>5. RunningTotals(s) = p
  BY <1>1 DEF RunningTotals
<1> HIDE DEF p
<1>6. p[0] = 0 /\ \A k \in 1..n : p[k] = p[k - 1] + s[k]
  BY <1>4
<1> DEFINE Bad == {k \in Nat : k <= n /\ p[k] \notin Int}
<1>7. Bad = {}
  <2> SUFFICES ASSUME Bad # {} PROVE FALSE
    OBVIOUS
  <2>1. PICK k \in Bad : k - 1 \notin Bad
    <3>1. Bad \in SUBSET Nat
      OBVIOUS
    <3> HIDE DEF Bad
    <3> QED  BY <3>1, LeastNumber
  <2>2. k \in 1..n
    BY <1>6, <2>1
  <2>3. p[k - 1] \in Int /\ s[k] \in Int
    BY <2>1, <2>2
  <2> QED  BY <1>6, <2>1, <2>2, <2>3
<1>8. \A k \in 0..n : p[k] \in Int
  BY <1>7
<1>9. p \in [0..n -> Int]
  BY <1>4, <1>8
<1> QED  BY <1>1, <1>5, <1>6, <1>9 DEF Total

\* Larger terms, larger total.
LEMMA TotalMonotone ==
    ASSUME NEW n \in Nat, NEW f \in [1..n -> Int], NEW g \in [1..n -> Int],
           \A i \in 1..n : f[i] <= g[i]
    PROVE  Total(f) <= Total(g) /\ Total(f) \in Int /\ Total(g) \in Int
<1> DEFINE p == RunningTotals(f)
           q == RunningTotals(g)
<1>1. /\ p \in [0..n -> Int] /\ p[0] = 0 /\ \A k \in 1..n : p[k] = p[k - 1] + f[k]
      /\ Total(f) = p[n]
  BY TotalsAre
<1>2. /\ q \in [0..n -> Int] /\ q[0] = 0 /\ \A k \in 1..n : q[k] = q[k - 1] + g[k]
      /\ Total(g) = q[n]
  BY TotalsAre
<1> HIDE DEF p, q
<1> DEFINE Bad == {k \in Nat : k <= n /\ ~(p[k] <= q[k])}
<1>3. Bad = {}
  <2> SUFFICES ASSUME Bad # {} PROVE FALSE
    OBVIOUS
  <2>1. PICK k \in Bad : k - 1 \notin Bad
    <3>1. Bad \in SUBSET Nat
      OBVIOUS
    <3> HIDE DEF Bad
    <3> QED  BY <3>1, LeastNumber
  <2>2. k \in 1..n
    BY <1>1, <1>2, <2>1
  <2>3. k - 1 \in 0..n /\ k - 1 \in Nat /\ k - 1 <= n
    BY <2>2
  <2>4. p[k - 1] <= q[k - 1] /\ p[k - 1] \in Int /\ q[k - 1] \in Int
    BY <1>1, <1>2, <2>1, <2>3
  <2>5. f[k] <= g[k] /\ f[k] \in Int /\ g[k] \in Int
    BY <2>2
  <2>6. p[k] = p[k - 1] + f[k] /\ q[k] = q[k - 1] + g[k]
    BY <1>1, <1>2, <2>2
  <2>7. p[k] <= q[k]
    BY SMTT(30), <2>4, <2>5, <2>6
  <2> QED  BY <2>1, <2>7
<1>4. n <= n /\ n \in 0..n
  OBVIOUS
<1>5. p[n] <= q[n]
  BY <1>3, <1>4
<1>6. p[n] \in Int /\ q[n] \in Int
  BY <1>1, <1>2, <1>4
<1> QED  BY <1>1, <1>2, <1>5, <1>6

\* One sequence adds up two, or is a multiple of one.
Sums(h, f, g, n) == \A i \in 1..n : h[i] = f[i] + g[i]
Scales(h, a, f, n) == \A i \in 1..n : h[i] = a * f[i]

\* The total of sums is the sum of the totals.
LEMMA TotalSum ==
    ASSUME NEW n \in Nat, NEW f \in [1..n -> Int], NEW g \in [1..n -> Int],
           NEW h \in [1..n -> Int], Sums(h, f, g, n)
    PROVE  Total(h) = Total(f) + Total(g)
<1> DEFINE p == RunningTotals(f)
           q == RunningTotals(g)
           r == RunningTotals(h)
<1>1. /\ p \in [0..n -> Int] /\ p[0] = 0 /\ \A k \in 1..n : p[k] = p[k - 1] + f[k]
      /\ Total(f) = p[n]
  BY TotalsAre
<1>2. /\ q \in [0..n -> Int] /\ q[0] = 0 /\ \A k \in 1..n : q[k] = q[k - 1] + g[k]
      /\ Total(g) = q[n]
  BY TotalsAre
<1>3. /\ r \in [0..n -> Int] /\ r[0] = 0 /\ \A k \in 1..n : r[k] = r[k - 1] + h[k]
      /\ Total(h) = r[n]
  BY TotalsAre
<1> HIDE DEF p, q, r
<1> DEFINE Bad == {k \in Nat : k <= n /\ r[k] # p[k] + q[k]}
<1>4. Bad = {}
  <2> SUFFICES ASSUME Bad # {} PROVE FALSE
    OBVIOUS
  <2>1. PICK k \in Bad : k - 1 \notin Bad
    <3>1. Bad \in SUBSET Nat
      OBVIOUS
    <3> HIDE DEF Bad
    <3> QED  BY <3>1, LeastNumber
  <2>2. k \in 1..n
    BY <1>1, <1>2, <1>3, <2>1
  <2>3. k - 1 \in 0..n /\ k - 1 \in Nat /\ k - 1 <= n
    BY <2>2
  <2>4. /\ r[k - 1] = p[k - 1] + q[k - 1]
        /\ p[k - 1] \in Int /\ q[k - 1] \in Int /\ r[k - 1] \in Int
    BY <1>1, <1>2, <1>3, <2>1, <2>3
  <2>5. h[k] = f[k] + g[k] /\ f[k] \in Int /\ g[k] \in Int /\ h[k] \in Int
    BY <2>2 DEF Sums
  <2>6. /\ p[k] = p[k - 1] + f[k] /\ q[k] = q[k - 1] + g[k]
        /\ r[k] = r[k - 1] + h[k]
    BY <1>1, <1>2, <1>3, <2>2
  <2> DEFINE x == p[k - 1]
             y == q[k - 1]
  <2>7. x \in Int /\ y \in Int /\ r[k] = (x + y) + (f[k] + g[k])
    BY <2>4, <2>5, <2>6
  <2>8. p[k] = x + f[k] /\ q[k] = y + g[k]
    BY <2>6
  <2> HIDE DEF x, y
  <2>9. r[k] = p[k] + q[k]
    BY <2>5, <2>7, <2>8
  <2> QED  BY <2>1, <2>9
<1>5. n \in Nat /\ n <= n /\ n \in 0..n
  OBVIOUS
<1> QED  BY <1>1, <1>2, <1>3, <1>4, <1>5

\* The total of multiples is the multiple of the total.
LEMMA TotalScaled ==
    ASSUME NEW n \in Nat, NEW f \in [1..n -> Int], NEW a \in Nat,
           NEW h \in [1..n -> Int], Scales(h, a, f, n)
    PROVE  Total(h) = a * Total(f)
<1> DEFINE p == RunningTotals(f)
           r == RunningTotals(h)
<1>1. /\ p \in [0..n -> Int] /\ p[0] = 0 /\ \A k \in 1..n : p[k] = p[k - 1] + f[k]
      /\ Total(f) = p[n]
  BY TotalsAre
<1>2. /\ r \in [0..n -> Int] /\ r[0] = 0 /\ \A k \in 1..n : r[k] = r[k - 1] + h[k]
      /\ Total(h) = r[n]
  BY TotalsAre
<1> HIDE DEF p, r
<1> DEFINE Bad == {k \in Nat : k <= n /\ r[k] # a * p[k]}
<1>3. Bad = {}
  <2> SUFFICES ASSUME Bad # {} PROVE FALSE
    OBVIOUS
  <2>1. PICK k \in Bad : k - 1 \notin Bad
    <3>1. Bad \in SUBSET Nat
      OBVIOUS
    <3> HIDE DEF Bad
    <3> QED  BY <3>1, LeastNumber
  <2>2. k \in 1..n
    <3>1. r[0] = a * p[0]
      BY <1>1, <1>2
    <3> QED  BY <2>1, <3>1
  <2>3. k - 1 \in 0..n /\ k - 1 \in Nat /\ k - 1 <= n
    BY <2>2
  <2>4. r[k - 1] = a * p[k - 1] /\ p[k - 1] \in Int
    BY <1>1, <2>1, <2>3
  <2>5. h[k] = a * f[k] /\ f[k] \in Int
    BY <2>2 DEF Scales
  <2>6. p[k] = p[k - 1] + f[k] /\ r[k] = r[k - 1] + h[k]
    BY <1>1, <1>2, <2>2
  <2> DEFINE x == p[k - 1]
             y == f[k]
  <2>7. x \in Int /\ y \in Int /\ r[k] = a * x + a * y /\ p[k] = x + y
    BY <2>4, <2>5, <2>6
  <2> HIDE DEF x, y
  <2>8. a * (x + y) = a * x + a * y
    BY <2>7
  <2> QED  BY <2>1, <2>7, <2>8
<1>4. n \in Nat /\ n <= n
  OBVIOUS
<1> QED  BY <1>1, <1>2, <1>3, <1>4

\* One for each member is a way to count them.
LEMMA TotalCounts ==
    ASSUME NEW n \in Nat, NEW S \in SUBSET (1..n)
    PROVE  Total([i \in 1..n |-> IF i \in S THEN 1 ELSE 0]) = Cardinality(S)
<1> DEFINE f == [i \in 1..n |-> IF i \in S THEN 1 ELSE 0]
           p == RunningTotals(f)
           Upto(k) == S \cap (1..k)
<1>1. f \in [1..n -> Int]
  OBVIOUS
<1>2. \A k \in 1..n : f[k] = IF k \in S THEN 1 ELSE 0
  OBVIOUS
<1> HIDE DEF f
<1>3. /\ p \in [0..n -> Int] /\ p[0] = 0 /\ \A k \in 1..n : p[k] = p[k - 1] + f[k]
      /\ Total(f) = p[n]
  BY <1>1, TotalsAre
<1> HIDE DEF p
<1>4. ASSUME NEW k \in Nat PROVE IsFiniteSet(Upto(k)) /\ Cardinality(Upto(k)) \in Nat
  <2>1. IsFiniteSet(1..k)
    BY FS_Interval
  <2>2. IsFiniteSet(Upto(k))
    BY <2>1, FS_Subset
  <2> QED  BY <2>2, FS_CardinalityType
<1> DEFINE Bad == {k \in Nat : k <= n /\ p[k] # Cardinality(Upto(k))}
<1>5. Bad = {}
  <2> SUFFICES ASSUME Bad # {} PROVE FALSE
    OBVIOUS
  <2>1. PICK k \in Bad : k - 1 \notin Bad
    <3>1. Bad \in SUBSET Nat
      OBVIOUS
    <3> HIDE DEF Bad
    <3> QED  BY <3>1, LeastNumber
  <2>2. k # 0
    <3>1. Upto(0) = {}
      OBVIOUS
    <3> HIDE DEF Upto
    <3>2. Cardinality(Upto(0)) = 0
      BY <3>1, FS_EmptySet
    <3> QED  BY <1>3, <2>1, <3>2
  <2>3. PICK j \in Nat : j = k - 1 /\ k \in 1..n /\ j <= n
    BY <2>1, <2>2
  <2>4. p[j] = Cardinality(Upto(j))
    <3> HIDE DEF Upto
    <3> QED  BY <2>1, <2>3
  <2>5. Upto(k) = IF k \in S THEN Upto(j) \cup {k} ELSE Upto(j)
    BY <2>3
  <2>6. k \notin Upto(j)
    BY <2>3
  <2> HIDE DEF Upto
  <2>7. Cardinality(Upto(k)) = Cardinality(Upto(j)) + (IF k \in S THEN 1 ELSE 0)
    <3>1. CASE k \in S
      BY <1>4, <2>3, <2>5, <2>6, <3>1, FS_AddElement
    <3>2. CASE k \notin S
      BY <1>4, <2>3, <2>5, <3>2
    <3> QED  BY <3>1, <3>2
  <2>8. p[k] = Cardinality(Upto(k))
    BY <1>2, <1>3, <2>3, <2>4, <2>7
  <2> QED  BY <2>1, <2>8
<1>6. Upto(n) = S
  OBVIOUS
<1> HIDE DEF Upto
<1>7. p[n] = Cardinality(Upto(n))
  BY <1>5
<1> QED  BY <1>3, <1>6, <1>7 DEF f

-----------------------------------------------------------------------------
(* The deviation as the centre moves: it falls as long as less than half   *)
(* of the balances are at or below the centre, and rises afterwards.       *)

NoMore(b, c) == {i \in DOMAIN b : b[i] <= c}

LEMMA NoMoreFinite ==
    ASSUME NEW n \in Nat, NEW b \in [1..n -> Nat], NEW c \in Int
    PROVE  /\ NoMore(b, c) \in SUBSET (1..n)
           /\ IsFiniteSet(NoMore(b, c))
           /\ Cardinality(NoMore(b, c)) \in Nat
<1>1. NoMore(b, c) \in SUBSET (1..n)
  BY DEF NoMore
<1>2. IsFiniteSet(1..n)
  BY FS_Interval
<1>3. IsFiniteSet(NoMore(b, c))
  BY <1>1, <1>2, FS_Subset
<1> QED  BY <1>1, <1>3, FS_CardinalityType

\* The higher the centre, the more balances are at or below it.
LEMMA NoMoreMonotone ==
    ASSUME NEW n \in Nat, NEW b \in [1..n -> Nat], NEW c \in Int, NEW d \in Int, c <= d
    PROVE  Cardinality(NoMore(b, c)) <= Cardinality(NoMore(b, d))
<1>1. NoMore(b, c) \in SUBSET NoMore(b, d)
  <2> SUFFICES ASSUME NEW i \in 1..n, b[i] <= c PROVE b[i] <= d
    BY DEF NoMore
  <2>1. b[i] \in Nat
    OBVIOUS
  <2> QED  BY <2>1
<1> QED  BY <1>1, NoMoreFinite, FS_Subset

LEMMA DeviationNat ==
    ASSUME NEW n \in Nat, NEW b \in [1..n -> Nat], NEW c \in Int
    PROVE  Deviation(b, c) \in Nat
<1> DEFINE d == [i \in 1..n |-> Distance(b[i], c)]
           zero == [i \in 1..n |-> IF i \in {} THEN 1 ELSE 0]
<1>1. \A i \in 1..n : Distance(b[i], c) \in Nat
  <2> SUFFICES ASSUME NEW i \in 1..n PROVE Distance(b[i], c) \in Nat
    OBVIOUS
  <2>1. b[i] \in Nat
    OBVIOUS
  <2> QED  BY <2>1 DEF Distance
<1>2. d \in [1..n -> Int] /\ zero \in [1..n -> Int] /\ \A i \in 1..n : zero[i] <= d[i]
  BY <1>1
<1>3. Total(zero) = Cardinality({})
  BY TotalCounts
<1>4. Total(zero) = 0
  <2> HIDE DEF zero
  <2> QED  BY <1>3, FS_EmptySet
<1>5. Deviation(b, c) = Total(d)
  BY DEF Deviation
<1> HIDE DEF d, zero
<1>6. Total(zero) <= Total(d) /\ Total(d) \in Int
  BY <1>2, TotalMonotone
<1> QED  BY <1>4, <1>5, <1>6

LEMMA DeviationStep ==
    ASSUME NEW n \in Nat, NEW b \in [1..n -> Nat], NEW c \in Int
    PROVE  Deviation(b, c + 1) + n
             = Deviation(b, c) + 2 * Cardinality(NoMore(b, c))
<1> DEFINE d == [i \in 1..n |-> Distance(b[i], c)]
           e == [i \in 1..n |-> Distance(b[i], c + 1)]
           one == [i \in 1..n |-> IF i \in 1..n THEN 1 ELSE 0]
           few == [i \in 1..n |-> IF i \in NoMore(b, c) THEN 1 ELSE 0]
           twice == [i \in 1..n |-> few[i] + few[i]]
           sum == [i \in 1..n |-> e[i] + one[i]]
<1>1. \A i \in 1..n : /\ d[i] \in Int /\ e[i] \in Int
                      /\ e[i] + 1 = d[i] + (IF i \in NoMore(b, c) THEN 2 ELSE 0)
  <2> SUFFICES ASSUME NEW i \in 1..n
               PROVE  /\ Distance(b[i], c) \in Int /\ Distance(b[i], c + 1) \in Int
                      /\ Distance(b[i], c + 1) + 1
                           = Distance(b[i], c) + (IF i \in NoMore(b, c) THEN 2 ELSE 0)
    OBVIOUS
  <2>1. b[i] \in Nat /\ (i \in NoMore(b, c) <=> b[i] <= c)
    BY DEF NoMore
  <2> QED  BY SMTT(30), <2>1 DEF Distance
<1>2. /\ d \in [1..n -> Int] /\ e \in [1..n -> Int]
      /\ one \in [1..n -> Int] /\ few \in [1..n -> Int]
  BY <1>1
<1>3. \A i \in 1..n : one[i] = 1 /\ few[i] = (IF i \in NoMore(b, c) THEN 1 ELSE 0)
  OBVIOUS
<1>4. Total(one) = n
  <2>1. Total(one) = Cardinality(1..n)
    BY TotalCounts
  <2> HIDE DEF one
  <2> QED  BY <2>1, FS_Interval
<1>5. Total(few) = Cardinality(NoMore(b, c))
  BY NoMoreFinite, TotalCounts
<1>6. Deviation(b, c) = Total(d) /\ Deviation(b, c + 1) = Total(e)
  BY DEF Deviation
<1> HIDE DEF d, e, one, few
<1>7. twice \in [1..n -> Int] /\ \A i \in 1..n : twice[i] = few[i] + few[i]
  BY <1>2
<1>8. sum \in [1..n -> Int] /\ \A i \in 1..n : sum[i] = e[i] + one[i]
  BY <1>2
<1> HIDE DEF twice, sum
<1>9. \A i \in 1..n : sum[i] = d[i] + twice[i]
  <2> SUFFICES ASSUME NEW i \in 1..n PROVE sum[i] = d[i] + twice[i]
    OBVIOUS
  <2>1. sum[i] = e[i] + 1 /\ e[i] + 1 = d[i] + (IF i \in NoMore(b, c) THEN 2 ELSE 0)
    BY <1>1, <1>3, <1>8
  <2>2. twice[i] = IF i \in NoMore(b, c) THEN 2 ELSE 0
    BY SMTT(30), <1>3, <1>7
  <2> QED  BY <2>1, <2>2
<1>10. Total(twice) = Total(few) + Total(few)
  BY <1>2, <1>7, TotalSum DEF Sums
<1>11. Total(sum) = Total(e) + Total(one)
  BY <1>2, <1>8, TotalSum DEF Sums
<1>12. Total(sum) = Total(d) + Total(twice)
  BY <1>2, <1>7, <1>8, <1>9, TotalSum DEF Sums
<1>13. Cardinality(NoMore(b, c)) \in Nat
  BY NoMoreFinite
<1> QED  BY <1>4, <1>5, <1>6, <1>10, <1>11, <1>12, <1>13

\* A centre that half of the balances do not exceed: moving up gains nothing.
LEMMA DeviationRises ==
    ASSUME NEW n \in Nat, NEW b \in [1..n -> Nat], NEW m \in Int,
           2 * Cardinality(NoMore(b, m)) >= n, NEW c \in Int, m <= c
    PROVE  Deviation(b, m) <= Deviation(b, c)
<1> DEFINE dev(k) == Deviation(b, m + k)
<1>1. \A k \in Nat : dev(k) \in Nat
  <2> SUFFICES ASSUME NEW k \in Nat PROVE dev(k) \in Nat
    OBVIOUS
  <2>1. m + k \in Int
    OBVIOUS
  <2> QED  BY <2>1, DeviationNat
<1>2. \A k \in Nat : dev(k) <= dev(k + 1)
  <2> SUFFICES ASSUME NEW k \in Nat PROVE dev(k) <= dev(k + 1)
    OBVIOUS
  <2> DEFINE few == Cardinality(NoMore(b, m + k))
  <2>1. m + k \in Int /\ m <= m + k /\ (m + k) + 1 = m + (k + 1)
    OBVIOUS
  <2>2. Deviation(b, (m + k) + 1) + n = Deviation(b, m + k) + 2 * few
    BY <2>1, DeviationStep
  <2>3. few \in Nat /\ Cardinality(NoMore(b, m)) \in Nat /\ Cardinality(NoMore(b, m)) <= few
    BY <2>1, NoMoreFinite, NoMoreMonotone
  <2>4. dev(k) \in Nat /\ dev(k + 1) \in Nat
    <3>1. k + 1 \in Nat
      OBVIOUS
    <3> HIDE DEF dev
    <3> QED  BY <1>1, <3>1
  <2>5. dev(k + 1) + n = dev(k) + 2 * few
    BY <2>1, <2>2
  <2> HIDE DEF few, dev
  <2>6. 2 * few >= n
    BY <2>3
  <2> QED  BY <2>3, <2>4, <2>5, <2>6
<1>3. dev(0) = Deviation(b, m) /\ \A k \in Nat : k = c - m => dev(k) = Deviation(b, c)
  <2>1. m + 0 = m /\ \A k \in Nat : k = c - m => m + k = c
    OBVIOUS
  <2> QED  BY <2>1
<1> HIDE DEF dev
<1> DEFINE Bad == {k \in Nat : ~(dev(0) <= dev(k))}
<1>4. Bad = {}
  <2> SUFFICES ASSUME Bad # {} PROVE FALSE
    OBVIOUS
  <2>1. PICK k \in Bad : k - 1 \notin Bad
    <3>1. Bad \in SUBSET Nat
      OBVIOUS
    <3> HIDE DEF Bad
    <3> QED  BY <3>1, LeastNumber
  <2>2. k # 0
    BY <1>1, <2>1
  <2>3. PICK j \in Nat : j = k - 1 /\ j + 1 = k
    BY <2>1, <2>2
  <2>4. dev(0) <= dev(j) /\ dev(j) <= dev(k)
    BY <1>2, <2>1, <2>3
  <2>5. dev(0) \in Nat /\ dev(j) \in Nat /\ dev(k) \in Nat
    BY <1>1, <2>1
  <2> QED  BY <2>1, <2>4, <2>5
<1>5. PICK k \in Nat : k = c - m
  OBVIOUS
<1> QED  BY <1>3, <1>4, <1>5

\* A centre below which there are at most half of the balances: moving down
\* gains nothing.
LEMMA DeviationFalls ==
    ASSUME NEW n \in Nat, NEW b \in [1..n -> Nat], NEW m \in Int,
           2 * Cardinality(NoMore(b, m - 1)) <= n, NEW c \in Int, c <= m
    PROVE  Deviation(b, m) <= Deviation(b, c)
<1> DEFINE dev(k) == Deviation(b, m - k)
<1>1. \A k \in Nat : dev(k) \in Nat
  <2> SUFFICES ASSUME NEW k \in Nat PROVE dev(k) \in Nat
    OBVIOUS
  <2>1. m - k \in Int
    OBVIOUS
  <2> QED  BY <2>1, DeviationNat
<1>2. \A k \in Nat : dev(k) <= dev(k + 1)
  <2> SUFFICES ASSUME NEW k \in Nat PROVE dev(k) <= dev(k + 1)
    OBVIOUS
  <2> DEFINE d == m - (k + 1)
             few == Cardinality(NoMore(b, d))
             half == Cardinality(NoMore(b, m - 1))
  <2>1. d \in Int /\ m - 1 \in Int /\ d <= m - 1 /\ d + 1 = m - k
    OBVIOUS
  <2> HIDE DEF d
  <2>2. Deviation(b, d + 1) + n = Deviation(b, d) + 2 * few
    BY <2>1, DeviationStep
  <2>3. few \in Nat /\ half \in Nat /\ few <= half
    BY <2>1, NoMoreFinite, NoMoreMonotone
  <2>4. dev(k) \in Nat /\ dev(k + 1) \in Nat
    <3>1. k + 1 \in Nat
      OBVIOUS
    <3> HIDE DEF dev
    <3> QED  BY <1>1, <3>1
  <2>5. dev(k) + n = dev(k + 1) + 2 * few
    BY <2>1, <2>2 DEF d
  <2> HIDE DEF few, dev
  <2>6. 2 * few <= n
    BY <2>3
  <2> QED  BY <2>3, <2>4, <2>5, <2>6
<1>3. dev(0) = Deviation(b, m) /\ \A k \in Nat : k = m - c => dev(k) = Deviation(b, c)
  <2>1. m - 0 = m /\ \A k \in Nat : k = m - c => m - k = c
    OBVIOUS
  <2> QED  BY <2>1
<1> HIDE DEF dev
<1> DEFINE Bad == {k \in Nat : ~(dev(0) <= dev(k))}
<1>4. Bad = {}
  <2> SUFFICES ASSUME Bad # {} PROVE FALSE
    OBVIOUS
  <2>1. PICK k \in Bad : k - 1 \notin Bad
    <3>1. Bad \in SUBSET Nat
      OBVIOUS
    <3> HIDE DEF Bad
    <3> QED  BY <3>1, LeastNumber
  <2>2. k # 0
    BY <1>1, <2>1
  <2>3. PICK j \in Nat : j = k - 1 /\ j + 1 = k
    BY <2>1, <2>2
  <2>4. dev(0) <= dev(j) /\ dev(j) <= dev(k)
    BY <1>2, <2>1, <2>3
  <2>5. dev(0) \in Nat /\ dev(j) \in Nat /\ dev(k) \in Nat
    BY <1>1, <2>1
  <2> QED  BY <2>1, <2>4, <2>5
<1>5. PICK k \in Nat : k = m - c
  OBVIOUS
<1> QED  BY <1>3, <1>4, <1>5

-----------------------------------------------------------------------------
(* The median.                                                             *)

LEMMA Bounded ==
    ASSUME NEW n \in Nat, NEW b \in [1..n -> Nat]
    PROVE  \E top \in Nat : \A i \in 1..n : b[i] <= top
<1> DEFINE Has(k) == \E top \in Nat : \A i \in 1..k : b[i] <= top
           Bad == {k \in Nat : k <= n /\ ~Has(k)}
<1>1. Bad = {}
  <2> SUFFICES ASSUME Bad # {} PROVE FALSE
    OBVIOUS
  <2>1. PICK k \in Bad : k - 1 \notin Bad
    <3>1. Bad \in SUBSET Nat
      OBVIOUS
    <3> HIDE DEF Bad
    <3> QED  BY <3>1, LeastNumber
  <2>2. k # 0
    <3>1. \A i \in 1..0 : b[i] <= 0
      OBVIOUS
    <3> QED  BY <2>1, <3>1
  <2>3. k \in 1..n /\ ~Has(k) /\ Has(k - 1)
    <3> HIDE DEF Has
    <3> QED  BY <2>1, <2>2
  <2> HIDE DEF Bad
  <2>4. PICK top \in Nat : \A i \in 1..(k - 1) : b[i] <= top
    BY <2>3
  <2> DEFINE more == IF b[k] <= top THEN top ELSE b[k]
  <2>5. more \in Nat /\ top <= more /\ b[k] <= more
    <3>1. b[k] \in Nat
      BY <2>3
    <3> QED  BY <3>1
  <2> HIDE DEF more
  <2>6. ASSUME NEW i \in 1..k PROVE b[i] <= more
    <3>1. i \in 1..n
      BY <2>3
    <3>2. b[i] \in Nat
      BY <3>1
    <3>3. CASE i = k
      BY <2>5, <3>3
    <3>4. CASE i # k
      <4>1. i \in 1..(k - 1)
        BY <2>3, <3>4
      <4>2. b[i] <= top
        BY <2>4, <4>1
      <4> QED  BY <2>5, <3>2, <4>2
    <3> QED  BY <3>3, <3>4
  <2> QED  BY <2>3, <2>5, <2>6
<1>2. Has(n)
  <2> HIDE DEF Has
  <2> QED  BY <1>1
<1> QED  BY <1>2

\* The k-th balance in order exists, whatever the balances.
LEMMA RankedIs ==
    ASSUME NEW n \in Nat, NEW b \in [1..n -> Nat], NEW k \in 1..n
    PROVE  /\ Ranked(b, k) \in {b[i] : i \in 1..n}
           /\ Ranked(b, k) \in Nat
           /\ Cardinality(NoMore(b, Ranked(b, k) - 1)) < k
           /\ Cardinality(NoMore(b, Ranked(b, k))) >= k
<1> DEFINE few(v) == Cardinality(NoMore(b, v))
           Is(x) == /\ Cardinality({i \in DOMAIN b : b[i] < x}) < k
                    /\ Cardinality({i \in DOMAIN b : b[i] <= x}) >= k
           Good == {v \in Nat : few(v) >= k}
<1>1. \A v \in Int : few(v) \in Nat
  BY NoMoreFinite
<1>2. \A x \in Nat : Is(x) <=> few(x - 1) < k /\ few(x) >= k
  <2> SUFFICES ASSUME NEW x \in Nat PROVE {i \in DOMAIN b : b[i] < x} = NoMore(b, x - 1)
    BY DEF NoMore
  <2>1. \A i \in 1..n : b[i] < x <=> b[i] <= x - 1
    <3> SUFFICES ASSUME NEW i \in 1..n PROVE b[i] < x <=> b[i] <= x - 1
      OBVIOUS
    <3>1. b[i] \in Nat
      OBVIOUS
    <3> QED  BY <3>1
  <2> QED  BY <2>1 DEF NoMore
<1>3. Good # {}
  <2>1. PICK top \in Nat : \A i \in 1..n : b[i] <= top
    BY Bounded
  <2>2. NoMore(b, top) = 1..n
    BY <2>1 DEF NoMore
  <2>3. Cardinality(1..n) = n
    BY FS_Interval
  <2>4. few(top) = n
    BY <2>2, <2>3
  <2> QED  BY <2>4
<1>4. PICK v \in Nat : few(v) >= k /\ v - 1 \notin Good
  <2>1. Good \in SUBSET Nat
    OBVIOUS
  <2>2. \E v \in Good : v - 1 \notin Good
    <3> HIDE DEF Good
    <3> QED  BY <1>3, <2>1, LeastNumber
  <2> QED  BY <2>2
<1>5. few(v - 1) < k
  <2>1. CASE v = 0
    <3>1. \A i \in 1..n : b[i] \in Nat /\ ~(b[i] <= v - 1)
      BY <2>1
    <3>2. NoMore(b, v - 1) = {}
      BY <3>1 DEF NoMore
    <3>3. few(v - 1) = 0
      BY <3>2, FS_EmptySet
    <3> QED  BY <3>3
  <2>2. CASE v # 0
    <3>1. v - 1 \in Nat
      BY <2>2
    <3>2. ~(few(v - 1) >= k) /\ few(v - 1) \in Nat
      <4> HIDE DEF few
      <4> QED  BY <1>1, <1>4, <3>1
    <3> HIDE DEF few
    <3> QED  BY <3>2
  <2> QED  BY <2>1, <2>2
<1>6. PICK i \in 1..n : b[i] = v
  <2>1. few(v - 1) # few(v)
    <3>1. v - 1 \in Int /\ v \in Int
      OBVIOUS
    <3>2. few(v - 1) \in Nat /\ few(v) \in Nat
      BY <1>1, <3>1
    <3> HIDE DEF few
    <3> QED  BY <1>4, <1>5, <3>2
  <2>2. NoMore(b, v - 1) # NoMore(b, v)
    BY <2>1
  <2>3. PICK i \in 1..n : ~(b[i] <= v - 1 <=> b[i] <= v)
    BY <2>2 DEF NoMore
  <2>4. b[i] \in Nat
    OBVIOUS
  <2>5. b[i] = v
    BY <2>3, <2>4
  <2> QED  BY <2>5
<1>7. v \in {b[j] : j \in DOMAIN b} /\ Is(v)
  <2> HIDE DEF few, Is
  <2> QED  BY <1>2, <1>4, <1>5, <1>6
<1>8. Ranked(b, k) \in {b[j] : j \in DOMAIN b} /\ Is(Ranked(b, k))
  <2>1. Ranked(b, k) = CHOOSE x \in {b[j] : j \in DOMAIN b} : Is(x)
    BY DEF Ranked
  <2> HIDE DEF Is
  <2> QED  BY <1>7, <2>1
<1>9. Ranked(b, k) \in {b[j] : j \in 1..n} /\ Ranked(b, k) \in Nat
  BY <1>8
<1>10. few(Ranked(b, k) - 1) < k /\ few(Ranked(b, k)) >= k
  <2> HIDE DEF few, Is
  <2> QED  BY <1>2, <1>8, <1>9
<1> QED  BY <1>9, <1>10

\* Half of the balances at least are no more than the median, half at most are
\* below it.
LEMMA MedianIs ==
    ASSUME NEW n \in Nat \ {0}, NEW b \in [1..n -> Nat]
    PROVE  /\ Median(b) \in Nat
           /\ 2 * Cardinality(NoMore(b, Median(b))) >= n
           /\ 2 * Cardinality(NoMore(b, Median(b) - 1)) <= n
<1> DEFINE few(v) == Cardinality(NoMore(b, v))
<1>1. \A v \in Int : few(v) \in Nat
  BY NoMoreFinite
<1>2. ASSUME NEW v \in Int, NEW w \in Int, v <= w PROVE few(v) <= few(w)
  BY <1>2, NoMoreMonotone
<1>3. ASSUME NEW k \in 1..n
      PROVE  /\ Ranked(b, k) \in Nat
             /\ few(Ranked(b, k) - 1) < k /\ few(Ranked(b, k)) >= k
  BY RankedIs
<1> HIDE DEF few
<1>4. Len(b) = n
  BY LengthIs
<1> SUFFICES /\ Median(b) \in Nat
             /\ 2 * few(Median(b)) >= n
             /\ 2 * few(Median(b) - 1) <= n
  BY DEF few
<1>5. CASE n % 2 # 0
  <2> DEFINE mid == n \div 2
             m == Ranked(b, mid + 1)
  <2>1. mid \in Nat /\ n = 2 * mid + 1 /\ mid + 1 \in 1..n
    BY <1>5
  <2>2. Median(b) = m
    BY <1>4, <1>5 DEF Median
  <2> HIDE DEF mid
  <2>3. m \in Nat /\ few(m - 1) < mid + 1 /\ few(m) >= mid + 1
    BY <1>3, <2>1
  <2> HIDE DEF m
  <2>4. m - 1 \in Int /\ few(m - 1) \in Nat /\ few(m) \in Nat
    BY <1>1, <2>3
  <2> QED  BY <2>1, <2>2, <2>3, <2>4
<1>6. CASE n % 2 = 0
  <2> DEFINE mid == n \div 2
             lo == Ranked(b, mid)
             hi == Ranked(b, mid + 1)
             m == (lo + hi) \div 2
  <2>1. mid \in Nat /\ n = 2 * mid /\ mid \in 1..n /\ mid + 1 \in 1..n
    BY <1>6
  <2>2. Median(b) = m
    BY <1>4, <1>6 DEF Median
  <2> HIDE DEF mid
  <2>3. lo \in Nat /\ few(lo - 1) < mid /\ few(lo) >= mid
    BY <1>3, <2>1
  <2>4. hi \in Nat /\ few(hi - 1) < mid + 1 /\ few(hi) >= mid + 1
    BY <1>3, <2>1
  <2> HIDE DEF lo, hi
  <2>5. few(lo - 1) \in Nat /\ few(lo) \in Nat /\ few(hi - 1) \in Nat /\ few(hi) \in Nat
    <3>1. lo - 1 \in Int /\ hi - 1 \in Int
      BY <2>3, <2>4
    <3> QED  BY <1>1, <2>3, <2>4, <3>1
  <2>6. lo <= hi
    <3> SUFFICES ASSUME hi <= lo - 1 PROVE FALSE
      BY <2>3, <2>4
    <3>1. lo - 1 \in Int
      BY <2>3
    <3>2. few(hi) <= few(lo - 1)
      BY <1>2, <2>4, <3>1
    <3> QED  BY <2>1, <2>3, <2>4, <2>5, <3>2
  <2>7. m \in Nat /\ lo <= m /\ m <= hi /\ m - 1 \in Int /\ m - 1 <= hi - 1 /\ hi - 1 \in Int
    BY <2>3, <2>4, <2>6
  <2> HIDE DEF m
  <2>8. few(lo) <= few(m) /\ few(m - 1) <= few(hi - 1)
    BY <1>2, <2>3, <2>7
  <2>9. few(m) \in Nat /\ few(m - 1) \in Nat
    BY <1>1, <2>7
  <2>10. 2 * few(m) >= n
    BY SMTT(30), <2>1, <2>3, <2>5, <2>8, <2>9
  <2>11. 2 * few(m - 1) <= n
    <3>1. few(m - 1) < mid + 1
      BY <2>1, <2>4, <2>5, <2>8, <2>9
    <3> QED  BY <2>1, <2>9, <3>1
  <2> QED  BY <2>2, <2>7, <2>10, <2>11
<1> QED  BY <1>5, <1>6

\* No centre is nearer to the balances than their median.
LEMMA MedianIsNearest ==
    ASSUME NEW n \in Nat \ {0}, NEW b \in [1..n -> Nat], NEW c \in Int
    PROVE  Deviation(b, Median(b)) <= Deviation(b, c)
<1>1. /\ Median(b) \in Int
      /\ 2 * Cardinality(NoMore(b, Median(b))) >= n
      /\ 2 * Cardinality(NoMore(b, Median(b) - 1)) <= n
  BY MedianIs
<1>2. CASE Median(b) <= c
  BY <1>1, <1>2, DeviationRises
<1>3. CASE c <= Median(b)
  BY <1>1, <1>3, DeviationFalls
<1> QED  BY <1>1, <1>2, <1>3

\* Nothing is the centre from which the deviation is the total.
LEMMA DeviationFromZero ==
    ASSUME NEW n \in Nat, NEW b \in [1..n -> Nat]
    PROVE  Deviation(b, 0) = Total(b)
<1>1. \A i \in 1..n : Distance(b[i], 0) = b[i]
  <2> SUFFICES ASSUME NEW i \in 1..n PROVE Distance(b[i], 0) = b[i]
    OBVIOUS
  <2>1. b[i] \in Nat
    OBVIOUS
  <2> QED  BY <2>1 DEF Distance
<1>2. [i \in DOMAIN b |-> Distance(b[i], 0)] = b
  BY <1>1
<1> QED  BY <1>2 DEF Deviation

\* A pool that holds something of each token holds something.
LEMMA TotalPositive ==
    ASSUME NEW n \in Nat \ {0}, NEW b \in [1..n -> Nat \ {0}]
    PROVE  Total(b) \in Nat \ {0}
<1> DEFINE one == [i \in 1..n |-> IF i \in 1..n THEN 1 ELSE 0]
<1>1. one \in [1..n -> Int] /\ b \in [1..n -> Int] /\ \A i \in 1..n : one[i] <= b[i]
  OBVIOUS
<1>2. Total(one) = Cardinality(1..n)
  BY TotalCounts
<1> HIDE DEF one
<1>3. Total(one) = n
  BY <1>2, FS_Interval
<1>4. Total(one) <= Total(b) /\ Total(b) \in Int
  BY <1>1, TotalMonotone
<1> QED  BY <1>3, <1>4

\* The imbalance is a percentage.
LEMMA ImbalanceIsPercentage ==
    ASSUME NEW n \in Nat \ {0}, NEW b \in [1..n -> Nat \ {0}]
    PROVE  Imbalance(b) \in 0..One
<1> DEFINE d == Deviation(b, Median(b))
           t == Total(b)
<1>1. b \in [1..n -> Nat] /\ n \in Nat
  OBVIOUS
<1>2. t \in Nat \ {0}
  BY TotalPositive
<1>3. d <= t
  <2>1. d <= Deviation(b, 0)
    BY <1>1, MedianIsNearest
  <2> QED  BY <1>1, <2>1, DeviationFromZero
<1>4. d \in Nat
  <2>1. Median(b) \in Int
    BY <1>1, MedianIs
  <2> QED  BY <1>1, <2>1, DeviationNat
<1>5. Imbalance(b) = (d * One) \div t
  BY DEF Imbalance, DivDown
<1> HIDE DEF d, t
<1>6. One \in Nat
  BY FeeAssumption
<1>7. d * One = One * d
  BY <1>4, <1>6
<1>8. (One * d) \div t \in 0..One
  BY <1>2, <1>3, <1>4, <1>6, ShareBounds
<1> QED  BY <1>5, <1>7, <1>8

-----------------------------------------------------------------------------
(* The fee of a surging swap, between imbalances that are percentages.     *)

\* How far an imbalance is from the threshold to the whole.
Excess(threshold, new) == DivDown(new - threshold, One - threshold)

LEMMA ExcessBounds ==
    ASSUME NEW t \in Nat, NEW new \in 0..One, t < new
    PROVE  Excess(t, new) \in 0..One
<1>1. /\ One \in Nat /\ One - t \in Nat \ {0} /\ new - t \in Nat
      /\ new - t <= One - t
  BY FeeAssumption
<1>2. (One * (new - t)) \div (One - t) \in 0..One
  BY <1>1, ShareBounds
<1>3. One * (new - t) = (new - t) * One
  BY <1>1
<1> QED  BY <1>2, <1>3 DEF Excess, DivDown

LEMMA ExcessMonotone ==
    ASSUME NEW t \in Nat, NEW new \in 0..One, NEW more \in 0..One, t < new, new <= more
    PROVE  Excess(t, new) <= Excess(t, more)
<1>1. /\ One \in Nat /\ One - t \in Nat \ {0} /\ new - t \in Nat /\ more - t \in Nat
      /\ new - t <= more - t
  BY FeeAssumption
<1>2. (One * (new - t)) \div (One - t) <= (One * (more - t)) \div (One - t)
  BY <1>1, ShareMonotone
<1>3. One * (new - t) = (new - t) * One /\ One * (more - t) = (more - t) * One
  BY <1>1
<1> QED  BY <1>2, <1>3 DEF Excess, DivDown

LEMMA ExcessOfLower ==
    ASSUME NEW t \in Nat, NEW new \in 0..One, t < new, NEW l \in Nat, l <= t
    PROVE  Excess(t, new) <= Excess(l, new)
<1> DEFINE q == Excess(t, new)
           r == Excess(l, new)
           a == One - t
           c == t - l
           x == new - t
<1>1. /\ One \in Nat /\ a \in Nat \ {0} /\ c \in Nat /\ x \in Nat
      /\ One - l = a + c /\ new - l = x + c /\ a + c \in Nat \ {0} /\ x + c \in Nat
  BY FeeAssumption
<1>2. q \in 0..One
  BY ExcessBounds
<1>3. q = (x * One) \div a /\ r = ((x + c) * One) \div (a + c)
  BY <1>1 DEF Excess, DivDown
<1> HIDE DEF q, r, a, c, x
<1>4. x * One \in Nat /\ (x + c) * One \in Nat
  BY <1>1, MulNat
<1>5. a * q <= x * One
  BY <1>1, <1>3, <1>4, DivBounds
<1>6. r \in Int /\ (x + c) * One < (a + c) * r + (a + c)
  <2> DEFINE num == (x + c) * One
             den == a + c
  <2>1. num \in Int /\ den \in Nat \ {0} /\ r = num \div den
    BY <1>1, <1>3, <1>4
  <2> HIDE DEF num, den
  <2>2. r \in Int /\ num < den * r + den
    BY <2>1, DivBounds
  <2> QED  BY <2>2 DEF num, den
<1>7. c * q <= c * One
  BY <1>1, <1>2, MulMonotone
<1>8. q * (a + c) = q * a + q * c /\ One * (x + c) = One * x + One * c
  BY <1>1, <1>2, MulSum
<1>9. /\ q * (a + c) = (a + c) * q /\ q * a = a * q /\ q * c = c * q
      /\ One * (x + c) = (x + c) * One /\ One * x = x * One /\ One * c = c * One
      /\ a * q \in Int /\ c * q \in Int /\ x * One \in Int /\ c * One \in Int
      /\ (a + c) * r \in Int
  BY <1>1, <1>2, <1>6
<1>10. (a + c) * q = a * q + c * q /\ (x + c) * One = x * One + c * One
  BY <1>8, <1>9
<1>11. (a + c) * q \in Int /\ (x + c) * One \in Int /\ (a + c) * q <= (x + c) * One
  <2>1. a * q + c * q \in Int /\ x * One + c * One \in Int
        /\ a * q + c * q <= x * One + c * One
    BY <1>5, <1>7, <1>9
  <2> QED  BY <1>10, <2>1
<1>12. (a + c) * q < (a + c) * r + (a + c)
  <2> DEFINE low == (a + c) * q
             num == (x + c) * One
             high == (a + c) * r
             den == a + c
  <2>1. /\ low \in Int /\ num \in Int /\ high \in Int /\ den \in Int
        /\ low <= num /\ num < high + den
    BY <1>1, <1>6, <1>9, <1>11
  <2> HIDE DEF low, num, high, den
  <2>2. low < high + den
    BY <2>1
  <2> QED  BY <2>2 DEF low, high, den
<1>13. q <= r
  BY <1>1, <1>2, <1>6, <1>12, MulCancel
<1> QED  BY <1>13 DEF q, r

\* The fee lies between the static fee and the maximum.
LEMMA SurgeFeeBounds ==
    ASSUME NEW static \in Nat, NEW max \in Nat, static <= max,
           NEW t \in Nat, NEW new \in 0..One, t < new
    PROVE  SurgeFee(static, max, t, new) \in static..max
<1>1. Excess(t, new) \in 0..One
  BY ExcessBounds
<1>2. One \in Nat \ {0} /\ max - static \in Nat
  BY FeeAssumption
<1>3. ((max - static) * Excess(t, new)) \div One \in 0..(max - static)
  BY SMTT(30), <1>1, <1>2, ShareBounds
<1>4. SurgeFee(static, max, t, new)
        = static + ((max - static) * Excess(t, new)) \div One
  BY DEF SurgeFee, MulDown, Excess
<1> DEFINE part == ((max - static) * Excess(t, new)) \div One
<1> HIDE DEF part
<1>5. part \in 0..(max - static) /\ SurgeFee(static, max, t, new) = static + part
  BY <1>3, <1>4 DEF part
<1> QED  BY <1>5

\* It grows with what an imbalance is worth and with the maximum.
LEMMA SurgeFeeMonotone ==
    ASSUME NEW static \in Nat, NEW max \in Nat, static <= max,
           NEW higher \in Nat, max <= higher,
           NEW t \in Nat, NEW new \in 0..One, t < new,
           NEW l \in Nat, NEW more \in 0..One, l < more,
           Excess(t, new) <= Excess(l, more)
    PROVE  SurgeFee(static, max, t, new) <= SurgeFee(static, higher, l, more)
<1> DEFINE x == Excess(t, new)
           y == Excess(l, more)
           a == max - static
           b == higher - static
           p == (a * x) \div One
           q == (b * y) \div One
<1>1. x \in Nat /\ y \in Nat /\ x <= y
  BY ExcessBounds
<1>2. One \in Nat \ {0} /\ a \in Nat /\ b \in Nat /\ a <= b
  BY FeeAssumption
<1>3. SurgeFee(static, max, t, new) = static + p /\ SurgeFee(static, higher, l, more) = static + q
  BY DEF SurgeFee, MulDown, Excess
<1> HIDE DEF x, y, a, b
<1>4. a * x <= a * y /\ y * a <= y * b
  BY <1>1, <1>2, MulMonotone
<1>5. /\ a * x \in Int /\ a * y \in Int /\ b * y \in Int
      /\ y * a = a * y /\ y * b = b * y
  BY <1>1, <1>2
<1>6. a * x <= b * y
  BY <1>4, <1>5
<1>7. p <= q /\ p \in Int /\ q \in Int
  BY <1>2, <1>5, <1>6, DivMonotone, DivBounds
<1> HIDE DEF p, q
<1> QED  BY <1>3, <1>7

\* The fee of any swap between imbalances that are percentages.
LEMMA SwapFeeIs ==
    ASSUME NEW static \in 0..(One - 1), NEW max \in 0..One, NEW t \in 0..One,
           NEW old \in 0..One, NEW new \in 0..One
    PROVE  LET fee == SwapFee(static, max, t, old, new)
           IN  /\ fee \in Nat /\ fee >= static
               /\ fee <= max \/ fee = static
               /\ SwapIsSurging(static, max, t, old, new) => t < One
<1>1. /\ One \in Nat /\ static \in Nat /\ max \in Nat /\ t \in Nat /\ old \in Nat
      /\ new \in Nat /\ new <= One
  BY FeeAssumption
<1>2. CASE SwapIsSurging(static, max, t, old, new)
  <2>1. static <= max /\ t < new
    BY <1>1, <1>2 DEF SwapIsSurging, IsSurging
  <2>2. SurgeFee(static, max, t, new) \in static..max
    BY <1>1, <2>1, SurgeFeeBounds
  <2>3. SwapFee(static, max, t, old, new) = SurgeFee(static, max, t, new)
    BY <1>2 DEF SwapFee
  <2>4. t < One
    BY <1>1, <2>1
  <2> QED  BY <1>1, <2>2, <2>3, <2>4
<1>3. CASE ~SwapIsSurging(static, max, t, old, new)
  <2>1. SwapFee(static, max, t, old, new) = static
    BY <1>3 DEF SwapFee
  <2> QED  BY <1>1, <1>3, <2>1
<1> QED  BY <1>2, <1>3

\* A swap that goes further, over a lower threshold, with a higher maximum, is
\* not the cheaper one.
LEMMA SwapFeeMonotone ==
    ASSUME NEW static \in 0..(One - 1), NEW max \in 0..One, NEW t \in 0..One,
           NEW old \in 0..One, NEW new \in 0..One,
           NEW higher \in 0..One, max <= higher, NEW l \in 0..One, l <= t,
           NEW more \in 0..One, new <= more
    PROVE  SwapFee(static, max, t, old, new) <= SwapFee(static, higher, l, old, more)
<1>1. /\ One \in Nat /\ static \in Nat /\ max \in Nat /\ t \in Nat /\ old \in Nat
      /\ new \in Nat /\ higher \in Nat /\ l \in Nat /\ more \in Nat
  BY FeeAssumption
<1>2. CASE SwapIsSurging(static, max, t, old, new)
  <2>1. static <= max /\ t < new /\ old < new
    BY <1>1, <1>2 DEF SwapIsSurging, IsSurging
  <2>2. SwapIsSurging(static, higher, l, old, more) /\ l < new /\ l < more
    BY <1>1, <2>1 DEF SwapIsSurging, IsSurging
  <2>3. Excess(t, new) <= Excess(l, new) /\ Excess(l, new) <= Excess(l, more)
    BY <1>1, <2>1, <2>2, ExcessOfLower, ExcessMonotone
  <2>4. Excess(t, new) \in 0..One /\ Excess(l, new) \in 0..One /\ Excess(l, more) \in 0..One
    BY <1>1, <2>1, <2>2, ExcessBounds
  <2>5. Excess(t, new) <= Excess(l, more)
    BY <1>1, <2>3, <2>4
  <2>6. SurgeFee(static, max, t, new) <= SurgeFee(static, higher, l, more)
    BY <1>1, <2>1, <2>2, <2>5, SurgeFeeMonotone
  <2> QED  BY <1>2, <2>2, <2>6 DEF SwapFee
<1>3. CASE ~SwapIsSurging(static, max, t, old, new)
  <2>1. SwapFee(static, max, t, old, new) = static
    BY <1>3 DEF SwapFee
  <2>2. SwapFee(static, higher, l, old, more) >= static /\ SwapFee(static, higher, l, old, more) \in Nat
    BY SwapFeeIs
  <2> QED  BY <1>1, <2>1, <2>2
<1> QED  BY <1>2, <1>3

-----------------------------------------------------------------------------
(* The hook in a pool.                                                     *)

LEMMA PoolIs ==
    ASSUME NEW b \in Pools
    PROVE  \E n \in Nat \ {0, 1} : n \in TokenCounts /\ b \in [1..n -> 1..MaxBalance]
BY CountAssumption DEF Pools

LEMMA EstimateIs ==
    ASSUME NEW n \in Nat, NEW b \in [1..n -> Nat \ {0}],
           NEW i \in 1..n, NEW j \in 1..n, i # j, NEW in \in Nat,
           NEW e \in Estimates(b, i, j, in)
    PROVE  /\ e \in [1..n -> Nat \ {0}]
           /\ e[i] = b[i] + in
           /\ e[j] <= b[j]
<1>1. PICK out \in Pays(b, i, j, in) : e = After(b, i, j, in, out)
  BY DEF Estimates
<1>2. b[i] \in Nat \ {0} /\ b[j] \in Nat \ {0}
  OBVIOUS
<1>3. out \in Nat /\ out < b[j]
  BY <1>1, <1>2 DEF Pays
<1>4. e = [b EXCEPT ![i] = @ + in, ![j] = @ - out]
  BY <1>1 DEF After
<1>5. \A k \in 1..n : e[k] = IF k = i THEN b[i] + in ELSE IF k = j THEN b[j] - out ELSE b[k]
  BY <1>4
<1>6. b[i] + in \in Nat \ {0} /\ b[j] - out \in Nat \ {0} /\ b[j] - out <= b[j]
  BY <1>2, <1>3
<1>7. e \in [1..n -> Nat \ {0}]
  BY <1>4, <1>6
<1> QED  BY <1>5, <1>6, <1>7

\* Whatever the hook judges is a percentage.
LEMMA ImbalancesTyped ==
    ASSUME TypeOK
    PROVE  /\ Imbalance(balances) \in 0..One
           /\ NewImbalances \subseteq 0..One
<1>1. PICK n \in Nat \ {0, 1} : balances \in [1..n -> 1..MaxBalance]
  BY PoolIs DEF TypeOK
<1>2. n \in Nat \ {0} /\ balances \in [1..n -> Nat \ {0}] /\ DOMAIN balances = 1..n
  BY <1>1, BoundAssumption
<1>3. ASSUME NEW i \in 1..n, NEW j \in 1..n, i # j, NEW in \in 1..MaxBalance,
             NEW e \in Estimates(balances, i, j, in)
      PROVE  Imbalance(e) \in 0..One
  <2>1. in \in Nat
    BY BoundAssumption
  <2>2. e \in [1..n -> Nat \ {0}]
    BY <1>2, <1>3, <2>1, EstimateIs
  <2> QED  BY <1>2, <2>2, ImbalanceIsPercentage
<1>4. NewImbalances \subseteq 0..One
  BY <1>2, <1>3 DEF NewImbalances
<1> QED  BY <1>2, <1>4, ImbalanceIsPercentage

LEMMA SettingsTyped ==
    ASSUME TypeOK
    PROVE  staticFee \in 0..(One - 1) /\ maxSurgeFee \in 0..One /\ thresholdPercentage \in 0..One
BY FeeAssumption DEF TypeOK, Percentages

LEMMA QuotientNat ==
    ASSUME NEW a \in Nat, NEW d \in Nat \ {0}
    PROVE  a \div d \in Nat
OBVIOUS

\* The fee charged on an estimate.
LEMMA FeeForIs ==
    ASSUME TypeOK, NEW n \in Nat \ {0}, NEW e \in [1..n -> Nat \ {0}]
    PROVE  FeeFor(e) \in 0..One
<1>1. Imbalance(e) \in 0..One
  BY ImbalanceIsPercentage
<1>2. /\ Imbalance(balances) \in 0..One /\ staticFee \in 0..(One - 1)
      /\ maxSurgeFee \in 0..One /\ thresholdPercentage \in 0..One
  BY ImbalancesTyped, SettingsTyped
<1>3. /\ FeeFor(e) \in Nat
      /\ FeeFor(e) <= maxSurgeFee \/ FeeFor(e) = staticFee
  BY <1>1, <1>2, SwapFeeIs DEF FeeFor
<1> QED  BY <1>2, <1>3, FeeAssumption

\* A fee that is a percentage is part of the amount it is taken from.
LEMMA FeeOfAmount ==
    ASSUME NEW a \in Nat, NEW f \in 0..One
    PROVE  MulUp(a, f) \in 0..a
<1> DEFINE q == MulUp(a, f)
<1>1. One \in Nat \ {0} /\ f \in Nat /\ a * f \in Nat /\ a * f <= a * One
  BY FeeAssumption, MulNat, MulMonotone
<1>2. a * One = One * a /\ a * f + One - 1 \in Nat
  BY <1>1
<1>3. q \in Nat /\ One * q <= a * f + One - 1
  BY <1>1, <1>2, DivBounds, QuotientNat DEF MulUp
<1> HIDE DEF q
<1>4. One * q < One * a + One
  <2>1. One * q \in Int /\ One * a \in Int
    BY <1>1, <1>3
  <2> QED  BY <1>1, <1>2, <1>3, <2>1
<1>5. q <= a
  BY <1>1, <1>3, <1>4, MulCancel
<1> QED  BY <1>3, <1>5 DEF q

LEMMA SwapTyped ==
    ASSUME TypeOK, NEW i \in DOMAIN balances, NEW j \in DOMAIN balances,
           NEW in \in 1..MaxBalance, i # j, balances[i] + in <= MaxBalance,
           NEW e \in Estimates(balances, i, j, in),
           SwapExactIn(i, j, in, e) \/ SwapExactOut(i, j, in, e)
    PROVE  balances' \in Pools /\ UNCHANGED <<staticFee, surgeFeeData>>
<1>1. PICK n \in Nat \ {0, 1} : n \in TokenCounts /\ balances \in [1..n -> 1..MaxBalance]
  BY PoolIs DEF TypeOK
<1>2. /\ n \in Nat \ {0} /\ n \in Nat /\ balances \in [1..n -> Nat \ {0}]
      /\ i \in 1..n /\ j \in 1..n /\ in \in Nat \ {0} /\ in \in Nat /\ MaxBalance \in Nat
  BY <1>1, BoundAssumption
<1>3. /\ balances[i] \in 1..MaxBalance /\ balances[j] \in 1..MaxBalance
  BY <1>1, <1>2
<1>4. /\ e \in [1..n -> Nat \ {0}] /\ e[i] = balances[i] + in /\ e[j] <= balances[j]
      /\ \A k \in 1..n : k # i /\ k # j => e[k] = balances[k]
  <2>1. in \in Nat /\ n \in Nat /\ i \in 1..n /\ j \in 1..n /\ i # j
    BY <1>2
  <2>2. balances \in [1..n -> Nat \ {0}] /\ e \in Estimates(balances, i, j, in)
    BY <1>2
  <2>3. e \in [1..n -> Nat \ {0}]
    BY <2>1, <2>2, EstimateIs, Zenon
  <2>4. e[i] = balances[i] + in /\ e[j] <= balances[j]
    BY SMTT(30), <2>1, <2>2, EstimateIs
  <2>5. ASSUME NEW k \in 1..n, k # i, k # j PROVE e[k] = balances[k]
    BY <2>1, <2>2, <2>5 DEF Estimates, After
  <2> QED  BY <2>3, <2>4, <2>5
<1> SUFFICES balances' \in [1..n -> 1..MaxBalance] /\ UNCHANGED <<staticFee, surgeFeeData>>
  BY <1>1 DEF Pools
<1>5. FeeFor(e) \in 0..One
  BY <1>2, <1>4, FeeForIs
<1>6. CASE SwapExactIn(i, j, in, e)
  <2> DEFINE fee == MulUp(in, FeeFor(e))
  <2>1. fee \in 0..in
    BY <1>2, <1>5, FeeOfAmount
  <2>2. PICK out \in Pays(balances, i, j, in - fee), taken \in 0..fee :
            /\ out > 0
            /\ balances' = After(balances, i, j, in - taken, out)
    BY <1>6 DEF SwapExactIn
  <2> HIDE DEF fee
  <2>3. out \in Nat /\ out < balances[j]
    BY <1>3, <2>2 DEF Pays
  <2>4. balances' = [balances EXCEPT ![i] = @ + (in - taken), ![j] = @ - out]
    BY <2>2 DEF After
  <2>5. balances[i] + (in - taken) \in 1..MaxBalance /\ balances[j] - out \in 1..MaxBalance
    BY SMTT(30), <1>2, <1>3, <2>1, <2>3
  <2>6. balances' \in [1..n -> 1..MaxBalance]
    BY <1>1, <1>2, <2>4, <2>5
  <2> QED  BY <1>6, <2>6 DEF SwapExactIn
<1>7. CASE SwapExactOut(i, j, in, e)
  <2> DEFINE fee == FeeFor(e)
             charged == (in * fee + (One - fee) - 1) \div (One - fee)
  <2>1. e[j] < balances[j] /\ fee < One /\ e[i] + charged <= MaxBalance
    BY <1>7 DEF SwapExactOut
  <2>2. fee \in Nat
    BY <1>5, FeeAssumption
  <2> HIDE DEF fee
  <2>3. charged \in Nat
    <3>1. One - fee \in Nat \ {0} /\ in * fee \in Nat
      BY <1>2, <2>1, <2>2, FeeAssumption, MulNat
    <3>2. in * fee + (One - fee) - 1 \in Nat
      BY <3>1
    <3> QED  BY <3>1, <3>2, QuotientNat
  <2>4. PICK kept \in 0..charged : balances' = [e EXCEPT ![i] = @ + kept]
    BY <1>7 DEF SwapExactOut, fee
  <2> HIDE DEF charged
  <2>5. e[i] \in Nat \ {0} /\ e[j] \in Nat \ {0}
    BY <1>2, <1>4
  <2>6. \A k \in 1..n : balances'[k] = IF k = i THEN e[i] + kept ELSE e[k]
    BY <1>2, <1>4, <2>4
  <2>7. e[i] + kept \in 1..MaxBalance
    BY SMTT(30), <1>2, <2>1, <2>3, <2>5
  <2>8. e[j] \in 1..MaxBalance
    <3>1. e[j] < balances[j] /\ balances[j] <= MaxBalance
      BY <1>3, <2>1
    <3> QED  BY <1>2, <1>3, <2>5, <3>1
  <2>9. \A k \in 1..n : balances'[k] \in 1..MaxBalance
    <3> SUFFICES ASSUME NEW k \in 1..n PROVE balances'[k] \in 1..MaxBalance
      OBVIOUS
    <3>1. CASE k = i
      BY <2>6, <2>7, <3>1
    <3>2. CASE k = j /\ k # i
      BY <2>6, <2>8, <3>2
    <3>3. CASE k # i /\ k # j
      BY <1>1, <1>4, <2>6, <3>3
    <3> QED  BY <3>1, <3>2, <3>3
  <2>10. balances' \in [1..n -> 1..MaxBalance]
    <3>1. balances' = [k \in 1..n |-> balances'[k]]
      BY <1>4, <2>4
    <3> QED  BY <2>9, <3>1
  <2> QED  BY <1>7, <2>10 DEF SwapExactOut
<1> QED  BY <1>6, <1>7

-----------------------------------------------------------------------------
(* Proportional operations.  Every balance is multiplied by n, divided by  *)
(* d and rounded up: the median is moved by its own rounding, the balances *)
(* on one side of it come nearer by as much, those on the other go away,   *)
(* and there is half of the balances at most on either side.               *)

Shares(x, n, d) == (x * n + d - 1) \div d

LEMMA SharesAre ==
    ASSUME NEW x \in Nat, NEW n \in Nat \ {0}, NEW d \in Nat \ {0}
    PROVE  /\ Shares(x, n, d) \in Nat
           /\ d * Shares(x, n, d) \in Nat /\ x * n \in Nat
           /\ x * n <= d * Shares(x, n, d)
           /\ d * Shares(x, n, d) <= x * n + d - 1
<1> DEFINE q == Shares(x, n, d)
           a == x * n
<1>1. a \in Nat /\ a + d - 1 \in Nat
  BY MulNat
<1> HIDE DEF a
<1>2. q = (a + d - 1) \div d
  BY DEF Shares, a
<1>3. q \in Nat /\ d * q <= a + d - 1 /\ a + d - 1 < d * q + d
  BY <1>1, <1>2, DivBounds, QuotientNat
<1> HIDE DEF q
<1>4. d * q \in Nat
  BY <1>3, MulNat
<1> QED  BY <1>1, <1>3, <1>4 DEF q, a

\* How much a centre is rounded by.
Rounding(m, n, d) == d * Shares(m, n, d) - m * n

\* The distance of one balance from the centre, both multiplied and rounded.
LEMMA DistanceOfShares ==
    ASSUME NEW x \in Nat, NEW m \in Nat, NEW n \in Nat \ {0}, NEW d \in Nat \ {0}
    PROVE  d * Distance(Shares(x, n, d), Shares(m, n, d))
             <= n * Distance(x, m) + (IF x > m THEN d - 1 - Rounding(m, n, d) ELSE 0)
                                   + (IF x < m THEN Rounding(m, n, d) ELSE 0)
<1> DEFINE p == Shares(x, n, d)
           q == Shares(m, n, d)
           e == Rounding(m, n, d)
           dp == d * p
           dq == d * q
           xn == x * n
           mn == m * n
<1>1. /\ p \in Nat /\ dp \in Nat /\ xn \in Nat /\ xn <= dp /\ dp <= xn + d - 1
      /\ q \in Nat /\ dq \in Nat /\ mn \in Nat /\ mn <= dq /\ dq <= mn + d - 1
  BY SharesAre
<1>2. e = dq - mn
  BY DEF Rounding
<1> HIDE DEF p, q, e
<1>3. d * (p - q) = dp - dq /\ d * (q - p) = dq - dp
  BY <1>1
<1>4. n * (x - m) = xn - mn /\ n * (m - x) = mn - xn
  OBVIOUS
<1>5. e \in Nat /\ d - 1 - e \in Nat
  BY <1>1, <1>2
<1> SUFFICES d * Distance(p, q) <= n * Distance(x, m) + (IF x > m THEN d - 1 - e ELSE 0)
                                                      + (IF x < m THEN e ELSE 0)
  BY DEF p, q, e
<1>6. CASE x = m
  <2>1. p = q
    BY <1>6 DEF p, q
  <2>2. Distance(p, q) = 0 /\ Distance(x, m) = 0
    BY <1>1, <1>6, <2>1 DEF Distance
  <2> QED  BY <1>6, <2>2
<1>7. CASE x > m
  <2>1. mn <= xn
    BY <1>7, MulMonotone
  <2>2. q <= p
    <3>1. dq < dp + d
      BY <1>1, <2>1
    <3> QED  BY <1>1, <3>1, MulCancel
  <2>3. Distance(p, q) = p - q /\ Distance(x, m) = x - m
    BY <1>1, <1>7, <2>2 DEF Distance
  <2>4. d * Distance(p, q) = dp - dq /\ n * Distance(x, m) = xn - mn
    BY <1>3, <1>4, <2>3
  <2> HIDE DEF dp, dq, xn, mn
  <2>5. dp - dq <= xn - mn + (d - 1 - e)
    BY <1>1, <1>2
  <2> QED  BY <1>1, <1>5, <1>7, <2>4, <2>5
<1>8. CASE x < m
  <2>1. xn <= mn
    BY <1>8, MulMonotone
  <2>2. p <= q
    <3>1. dp < dq + d
      BY <1>1, <2>1
    <3> QED  BY <1>1, <3>1, MulCancel
  <2>3. Distance(p, q) = q - p /\ Distance(x, m) = m - x
    BY <1>1, <1>8, <2>2 DEF Distance
  <2>4. d * Distance(p, q) = dq - dp /\ n * Distance(x, m) = mn - xn
    BY <1>3, <1>4, <2>3
  <2> HIDE DEF dp, dq, xn, mn
  <2>5. dq - dp <= mn - xn + e
    BY <1>1, <1>2
  <2> QED  BY <1>1, <1>5, <1>8, <2>4, <2>5
<1> QED  BY <1>6, <1>7, <1>8

\* At most half of the balances are above the median, and at most half below.
LEMMA HalfAboveHalfBelow ==
    ASSUME NEW l \in Nat \ {0}, NEW b \in [1..l -> Nat]
    PROVE  /\ Cardinality(NoMore(b, Median(b) - 1)) \in 0..(l \div 2)
           /\ Cardinality((1..l) \ NoMore(b, Median(b))) \in 0..(l \div 2)
<1> DEFINE m == Median(b)
           few == Cardinality(NoMore(b, m - 1))
           most == Cardinality(NoMore(b, m))
           rest == Cardinality((1..l) \ NoMore(b, m))
<1>1. m \in Nat /\ m - 1 \in Int /\ 2 * most >= l /\ 2 * few <= l
  BY MedianIs
<1>2. few \in Nat /\ most \in Nat /\ NoMore(b, m) \in SUBSET (1..l)
  <2> HIDE DEF m
  <2> QED  BY <1>1, NoMoreFinite
<1>3. IsFiniteSet(1..l) /\ Cardinality(1..l) = l
  BY FS_Interval
<1>4. rest \in Nat /\ rest = l - most
  <2>1. (1..l) \cap NoMore(b, m) = NoMore(b, m)
    BY <1>2
  <2> DEFINE S == 1..l
             T == NoMore(b, m)
  <2>2. IsFiniteSet(S) /\ Cardinality(S) = l /\ S \cap T = T
    BY <1>3, <2>1
  <2> SUFFICES Cardinality(S \ T) \in Nat /\ Cardinality(S \ T) = l - Cardinality(T)
    OBVIOUS
  <2> HIDE DEF S, T
  <2>3. /\ IsFiniteSet(S \ T)
        /\ Cardinality(S \ T) = Cardinality(S) - Cardinality(S \cap T)
    BY <2>2, FS_Difference
  <2> QED  BY <2>2, <2>3, FS_CardinalityType
<1> HIDE DEF few, most, rest
<1>5. few <= l \div 2 /\ rest <= l \div 2
  BY <1>1, <1>2, <1>4
<1> QED  BY <1>2, <1>4, <1>5 DEF few, rest

\* Every balance of b led from d shares to n.
SharesOf(c, b, l, n, d) == \A i \in 1..l : c[i] = Shares(b[i], n, d)

\* The total of a sequence's multiples, as a sequence of its own.
LEMMA TotalTimes ==
    ASSUME NEW l \in Nat, NEW f \in [1..l -> Int], NEW a \in Nat
    PROVE  \E h \in [1..l -> Int] : Scales(h, a, f, l) /\ Total(h) = a * Total(f)
<1> DEFINE h == [i \in 1..l |-> a * f[i]]
<1>1. h \in [1..l -> Int]
  <2> SUFFICES ASSUME NEW i \in 1..l PROVE a * f[i] \in Int
    OBVIOUS
  <2>1. f[i] \in Int
    OBVIOUS
  <2> QED  BY <2>1
<1>2. Scales(h, a, f, l)
  BY DEF Scales
<1> HIDE DEF h
<1>3. Total(h) = a * Total(f)
  BY <1>1, <1>2, TotalScaled
<1> QED  BY <1>1, <1>2, <1>3

\* The total of two sequences' sum, likewise.
LEMMA TotalPlus ==
    ASSUME NEW l \in Nat, NEW f \in [1..l -> Int], NEW g \in [1..l -> Int]
    PROVE  \E h \in [1..l -> Int] : Sums(h, f, g, l) /\ Total(h) = Total(f) + Total(g)
<1> DEFINE h == [i \in 1..l |-> f[i] + g[i]]
<1>1. h \in [1..l -> Int]
  OBVIOUS
<1>2. Sums(h, f, g, l)
  BY DEF Sums
<1> HIDE DEF h
<1>3. Total(h) = Total(f) + Total(g)
  BY <1>1, <1>2, TotalSum
<1> QED  BY <1>1, <1>2, <1>3

\* A multiple of g is at most a multiple of f, of o and of u together.
Covered(d, g, n, f, v, o, e, u, l) ==
    \A i \in 1..l : d * g[i] <= (n * f[i] + v * o[i]) + e * u[i]

\* Bounds on the parts of three sums add up.
LEMMA TotalOfParts ==
    ASSUME NEW l \in Nat, NEW g \in [1..l -> Int], NEW f \in [1..l -> Int],
           NEW o \in [1..l -> Int], NEW u \in [1..l -> Int],
           NEW d \in Nat, NEW n \in Nat, NEW v \in Nat, NEW e \in Nat,
           Covered(d, g, n, f, v, o, e, u, l)
    PROVE  d * Total(g) <= (n * Total(f) + v * Total(o)) + e * Total(u)
<1>1. PICK dg \in [1..l -> Int] : Scales(dg, d, g, l) /\ Total(dg) = d * Total(g)
  BY TotalTimes
<1>2. PICK nf \in [1..l -> Int] : Scales(nf, n, f, l) /\ Total(nf) = n * Total(f)
  BY TotalTimes
<1>3. PICK vo \in [1..l -> Int] : Scales(vo, v, o, l) /\ Total(vo) = v * Total(o)
  BY TotalTimes
<1>4. PICK eu \in [1..l -> Int] : Scales(eu, e, u, l) /\ Total(eu) = e * Total(u)
  BY TotalTimes
<1>5. PICK both \in [1..l -> Int] : Sums(both, nf, vo, l) /\ Total(both) = Total(nf) + Total(vo)
  BY TotalPlus
<1>6. PICK all \in [1..l -> Int] : Sums(all, both, eu, l) /\ Total(all) = Total(both) + Total(eu)
  BY TotalPlus
<1>7. \A i \in 1..l : dg[i] <= all[i]
  <2> SUFFICES ASSUME NEW i \in 1..l PROVE dg[i] <= all[i]
    OBVIOUS
  <2> DEFINE x == d * g[i]
             y == n * f[i]
             z == v * o[i]
             w == e * u[i]
  <2>1. x <= (y + z) + w
    BY DEF Covered
  <2>2. dg[i] = x /\ nf[i] = y /\ vo[i] = z /\ eu[i] = w
    BY <1>1, <1>2, <1>3, <1>4 DEF Scales
  <2> HIDE DEF x, y, z, w
  <2>3. both[i] = nf[i] + vo[i] /\ all[i] = both[i] + eu[i]
    BY <1>5, <1>6 DEF Sums
  <2> QED  BY <2>1, <2>2, <2>3
<1>8. Total(dg) <= Total(all)
  BY <1>7, TotalMonotone
<1> QED  BY <1>1, <1>2, <1>3, <1>4, <1>5, <1>6, <1>8

LEMMA DeviationOfShares ==
    ASSUME NEW l \in Nat \ {0}, NEW b \in [1..l -> Nat], NEW c \in [1..l -> Nat],
           NEW n \in Nat \ {0}, NEW d \in Nat \ {0}, SharesOf(c, b, l, n, d)
    PROVE  d * Deviation(c, Median(c)) <= n * Deviation(b, Median(b)) + (l \div 2) * (d - 1)
<1>1. PICK m \in Nat : m = Median(b)
  BY MedianIs
<1>2. PICK r \in Nat : r = Median(c)
  BY MedianIs
<1> DEFINE s == Shares(m, n, d)
           e == Rounding(m, n, d)
           v == d - 1 - e
           over == (1..l) \ NoMore(b, m)
           under == NoMore(b, m - 1)
           f == [i \in 1..l |-> Distance(b[i], m)]
           g == [i \in 1..l |-> Distance(c[i], s)]
           o == [i \in 1..l |-> IF i \in over THEN 1 ELSE 0]
           u == [i \in 1..l |-> IF i \in under THEN 1 ELSE 0]
<1>3. s \in Nat /\ e \in Nat /\ v \in Nat
  <2> DEFINE ds == d * s
             mn == m * n
  <2>1. s \in Nat /\ ds \in Nat /\ mn \in Nat /\ mn <= ds /\ ds <= mn + d - 1
    BY SharesAre
  <2>2. e = ds - mn
    BY DEF Rounding
  <2> HIDE DEF s, e, ds, mn
  <2> QED  BY <2>1, <2>2
<1>4. over \in SUBSET (1..l) /\ under \in SUBSET (1..l)
  BY DEF NoMore
<1>5. \A i \in 1..l : (i \in over <=> b[i] > m) /\ (i \in under <=> b[i] < m)
  <2> SUFFICES ASSUME NEW i \in 1..l
               PROVE  (i \in over <=> b[i] > m) /\ (i \in under <=> b[i] < m)
    OBVIOUS
  <2>1. (i \in NoMore(b, m) <=> b[i] <= m) /\ (i \in NoMore(b, m - 1) <=> b[i] <= m - 1)
    BY DEF NoMore
  <2>2. b[i] \in Nat
    OBVIOUS
  <2> QED  BY <2>1, <2>2
<1>6. Cardinality(over) \in 0..(l \div 2) /\ Cardinality(under) \in 0..(l \div 2)
  BY <1>1, HalfAboveHalfBelow
<1> HIDE DEF over, under
<1>7. Total(o) = Cardinality(over) /\ Total(u) = Cardinality(under)
  BY <1>4, TotalCounts
<1>8. Deviation(b, m) = Total(f) /\ Deviation(c, s) = Total(g)
  BY DEF Deviation
<1> HIDE DEF s, e, v
<1>9. Deviation(c, r) \in Nat /\ Deviation(c, s) \in Nat /\ Deviation(b, m) \in Nat
  <2>1. r \in Int /\ s \in Int /\ m \in Int
    BY <1>3
  <2>2. Deviation(c, r) \in Nat /\ Deviation(c, s) \in Nat
    BY <2>1, DeviationNat
  <2>3. Deviation(b, m) \in Nat
    BY <2>1, DeviationNat
  <2> QED  BY <2>2, <2>3
<1>10. Deviation(c, r) <= Deviation(c, s)
  BY SMTT(30), <1>2, <1>3, MedianIsNearest
<1>11. \A i \in 1..l : Distance(b[i], m) \in Nat /\ Distance(c[i], s) \in Nat
  <2>1. ASSUME NEW x \in Nat, NEW y \in Nat PROVE Distance(x, y) \in Nat
    BY DEF Distance
  <2> QED  BY <1>3, <2>1
<1>12. /\ f \in [1..l -> Int] /\ g \in [1..l -> Int] /\ o \in [1..l -> Int] /\ u \in [1..l -> Int]
       /\ \A i \in 1..l : /\ f[i] = Distance(b[i], m) /\ g[i] = Distance(c[i], s)
                          /\ o[i] = (IF i \in over THEN 1 ELSE 0)
                          /\ u[i] = (IF i \in under THEN 1 ELSE 0)
  BY <1>11
<1> HIDE DEF f, g, o, u
<1>13. Covered(d, g, n, f, v, o, e, u, l)
  <2> SUFFICES ASSUME NEW i \in 1..l PROVE d * g[i] <= (n * f[i] + v * o[i]) + e * u[i]
    BY DEF Covered
  <2> DEFINE dg == d * Distance(c[i], s)
             nf == n * Distance(b[i], m)
  <2>1. dg <= (nf + (IF b[i] > m THEN v ELSE 0)) + (IF b[i] < m THEN e ELSE 0)
    <3>1. c[i] = Shares(b[i], n, d) /\ b[i] \in Nat
      BY DEF SharesOf
    <3> QED  BY <3>1, DistanceOfShares DEF s, v, e
  <2>2. v * o[i] = (IF b[i] > m THEN v ELSE 0) /\ e * u[i] = (IF b[i] < m THEN e ELSE 0)
    <3>1. o[i] = (IF b[i] > m THEN 1 ELSE 0) /\ u[i] = (IF b[i] < m THEN 1 ELSE 0)
      BY <1>5, <1>12
    <3> QED  BY <1>3, <3>1
  <2>3. d * g[i] = dg /\ n * f[i] = nf
    BY <1>12
  <2> QED  BY <2>1, <2>2, <2>3
<1> DEFINE x == Total(o)
           y == Total(u)
           h == l \div 2
<1>14. h \in Nat /\ x \in 0..h /\ y \in 0..h
  BY <1>6, <1>7
<1>15. d * Deviation(c, s) <= (n * Deviation(b, m) + v * x) + e * y
  BY <1>3, <1>8, <1>12, <1>13, TotalOfParts
<1> HIDE DEF x, y, h
<1>16. v * x <= v * h /\ e * y <= e * h /\ v * x \in Int /\ e * y \in Int
  BY <1>3, <1>14, MulMonotone
<1>17. v * h + e * h = h * (d - 1) /\ v * h \in Int /\ e * h \in Int /\ h * (d - 1) \in Int
  BY <1>3, <1>14 DEF v
<1>18. d * Deviation(c, r) <= d * Deviation(c, s) /\ d * Deviation(c, r) \in Int
  <2> DEFINE p == Deviation(c, r)
             q == Deviation(c, s)
  <2>1. p \in Nat /\ q \in Nat /\ p <= q
    BY <1>9, <1>10
  <2> HIDE DEF p, q
  <2>2. d * p <= d * q /\ d * p \in Int
    BY <2>1, MulMonotone
  <2> QED  BY <2>2 DEF p, q
<1>19. d * Deviation(c, s) \in Int /\ n * Deviation(b, m) \in Int
  BY <1>9
<1>20. d * Deviation(c, r) <= n * Deviation(b, m) + h * (d - 1)
  <2> DEFINE a1 == d * Deviation(c, r)
             a2 == d * Deviation(c, s)
             a3 == n * Deviation(b, m)
             a4 == v * x
             a5 == e * y
             a6 == v * h
             a7 == e * h
             a8 == h * (d - 1)
  <2>1. /\ a1 <= a2 /\ a2 <= (a3 + a4) + a5 /\ a4 <= a6 /\ a5 <= a7 /\ a6 + a7 = a8
        /\ a1 \in Int /\ a2 \in Int /\ a3 \in Int /\ a4 \in Int /\ a5 \in Int
        /\ a6 \in Int /\ a7 \in Int /\ a8 \in Int
    BY <1>15, <1>16, <1>17, <1>18, <1>19
  <2> HIDE DEF a1, a2, a3, a4, a5, a6, a7, a8
  <2>2. a1 <= a3 + a8
    BY <2>1
  <2> QED  BY <2>2 DEF a1, a3, a8
<1> QED  BY <1>1, <1>2, <1>20 DEF h

LEMMA TotalOfShares ==
    ASSUME NEW l \in Nat, NEW b \in [1..l -> Nat], NEW c \in [1..l -> Nat],
           NEW n \in Nat \ {0}, NEW d \in Nat \ {0}, SharesOf(c, b, l, n, d)
    PROVE  n * Total(b) <= d * Total(c)
<1> DEFINE nb == [i \in 1..l |-> n * b[i]]
           dc == [i \in 1..l |-> d * c[i]]
<1>1. b \in [1..l -> Int] /\ c \in [1..l -> Int]
  OBVIOUS
<1>2. /\ nb \in [1..l -> Int] /\ dc \in [1..l -> Int]
      /\ \A i \in 1..l : nb[i] = n * b[i] /\ dc[i] = d * c[i]
  BY SMTT(30), <1>1
<1>3. Scales(nb, n, b, l) /\ Scales(dc, d, c, l)
  BY <1>2 DEF Scales
<1> HIDE DEF nb, dc
<1>4. \A i \in 1..l : nb[i] <= dc[i]
  <2> SUFFICES ASSUME NEW i \in 1..l PROVE nb[i] <= dc[i]
    OBVIOUS
  <2>1. b[i] \in Nat /\ c[i] = Shares(b[i], n, d)
    BY DEF SharesOf
  <2>2. b[i] * n <= d * c[i]
    BY <2>1, SharesAre
  <2>3. b[i] * n = n * b[i]
    BY <2>1
  <2> QED  BY <1>2, <2>2, <2>3
<1>5. Total(nb) <= Total(dc)
  BY <1>2, <1>4, TotalMonotone
<1>6. Total(nb) = n * Total(b) /\ Total(dc) = d * Total(c)
  BY <1>1, <1>2, <1>3, TotalScaled
<1> QED  BY <1>5, <1>6

\* A quotient of numbers multiplied by n out of d, up to a rounding of h.
LEMMA QuotientRises ==
    ASSUME NEW x \in Nat, NEW t \in Nat \ {0}, NEW y \in Nat, NEW u \in Nat \ {0},
           NEW n \in Nat \ {0}, NEW d \in Nat \ {0}, NEW h \in Nat,
           d * y <= n * x + h * (d - 1), n * t <= d * u
    PROVE  DivDown(y, u) <= DivDown(x, t) + DivUp(h, u)
<1> DEFINE a == x * One
           b == h * One
           c == y * One
           q == DivDown(x, t)
           p == DivUp(h, u)
           r == DivDown(y, u)
<1>1. One \in Nat \ {0} /\ a \in Nat /\ b \in Nat /\ c \in Nat
  BY FeeAssumption, MulNat
<1>2. d * c <= n * a + (d - 1) * b
  <2>1. One * (d * y) <= One * (n * x + h * (d - 1))
    BY <1>1, MulMonotone
  <2>2. One * (d * y) = d * c
    BY <1>1
  <2>3. One * (n * x + h * (d - 1)) = n * a + (d - 1) * b
    BY <1>1
  <2> QED  BY <2>1, <2>2, <2>3
<1>3. q \in Nat /\ a < t * q + t
  <2> HIDE DEF a
  <2>1. q = a \div t
    BY DEF DivDown, a
  <2> QED  BY <1>1, <2>1, DivBounds, QuotientNat
<1>4. p \in Nat /\ b <= u * p
  <2> HIDE DEF b
  <2>1. p = (b + u - 1) \div u /\ b + u - 1 \in Nat
    BY <1>1 DEF DivUp, b
  <2>2. p \in Nat
    BY <2>1, QuotientNat
  <2> QED  BY <1>1, <2>1, <2>2, DivUpCovers
<1>5. r \in Nat /\ u * r <= c
  <2> HIDE DEF c
  <2>1. r = c \div u
    BY DEF DivDown, c
  <2> QED  BY <1>1, <2>1, DivBounds, QuotientNat
<1> HIDE DEF a, b, c, q, p, r
<1>6. n * a < n * (t * q + t) /\ n * a \in Int /\ n * (t * q + t) \in Int
  <2> DEFINE z == t * q + t
  <2>1. z \in Nat /\ a + 1 <= z
    BY <1>1, <1>3, MulNat
  <2> HIDE DEF z
  <2>2. n * (a + 1) <= n * z /\ n * (a + 1) = n * a + n
    BY <1>1, <2>1, MulMonotone
  <2>3. n * a < n * z /\ n * a \in Int /\ n * z \in Int
    BY <1>1, <2>1, <2>2
  <2> QED  BY <2>3 DEF z
<1>7. n * (t * q + t) <= d * (u * q + u)
  <2> DEFINE nt == n * t
             du == d * u
  <2>1. nt \in Nat /\ du \in Nat /\ nt <= du /\ q + 1 \in Nat
    BY <1>3, MulNat
  <2>2. n * (t * q + t) = (q + 1) * nt /\ d * (u * q + u) = (q + 1) * du
    BY <1>3
  <2> HIDE DEF nt, du
  <2> QED  BY <2>1, <2>2, MulMonotone
<1>8. (d - 1) * b <= d * (u * p) /\ (d - 1) * b \in Int /\ d * (u * p) \in Int
  <2> DEFINE z == u * p
  <2>1. z \in Nat /\ b <= z /\ d - 1 \in Nat
    BY <1>4, MulNat
  <2> HIDE DEF z
  <2>2. (d - 1) * b <= (d - 1) * z /\ (d - 1) * z = d * z - z
    BY <1>1, <2>1, MulMonotone
  <2>3. (d - 1) * b <= d * z /\ (d - 1) * b \in Int /\ d * z \in Int
    BY <1>1, <2>1, <2>2
  <2> QED  BY <2>3 DEF z
<1>9. d * c < d * (u * (q + p) + u) /\ d * c \in Int /\ u * (q + p) + u \in Int
  <2>1. d * (u * q + u) \in Int /\ d * c \in Int
    BY <1>1, <1>3
  <2>2. d * c < d * (u * q + u) + d * (u * p)
    BY <1>2, <1>6, <1>7, <1>8, <2>1
  <2>3. d * (u * q + u) + d * (u * p) = d * (u * (q + p) + u)
    BY <1>3, <1>4
  <2> QED  BY <1>3, <1>4, <2>1, <2>2, <2>3
<1>10. c < u * (q + p) + u
  <2> DEFINE z == u * (q + p) + u
  <2> SUFFICES ASSUME z <= c PROVE FALSE
    BY <1>1, <1>9
  <2>1. d * c < d * z /\ z \in Int /\ d * c \in Int
    BY <1>9
  <2> HIDE DEF z
  <2>2. d * z <= d * c /\ d * z \in Int
    BY <1>1, <2>1, MulMonotone
  <2> QED  BY <2>1, <2>2
<1>11. r <= q + p
  <2> DEFINE z == u * (q + p)
  <2>1. z \in Int /\ u * r \in Int
    BY <1>3, <1>4, <1>5
  <2>2. u * r < z + u
    BY <1>1, <1>5, <1>10, <2>1
  <2> QED  BY <1>3, <1>4, <1>5, <2>2, MulCancel
<1> QED  BY <1>11 DEF q, p, r

-----------------------------------------------------------------------------
(* Unbalanced operations.  The balances the hook judges are short of a fee *)
(* in one token, which changes the deviation and the total by that much.   *)

\* The balances without what was taken of the i-th.
ShortOf(old, b, i, taken) == old = [b EXCEPT ![i] = @ - taken]

LEMMA LessOfOne ==
    ASSUME NEW l \in Nat \ {0}, NEW b \in [1..l -> Nat], NEW old \in [1..l -> Nat],
           NEW i \in 1..l, NEW taken \in Nat, ShortOf(old, b, i, taken)
    PROVE  /\ Total(b) = Total(old) + taken
           /\ Deviation(old, Median(old)) <= Deviation(b, Median(b)) + taken
<1>1. PICK m \in Nat : m = Median(b)
  BY MedianIs
<1>2. PICK r \in Nat : r = Median(old)
  BY MedianIs
<1> DEFINE o == [k \in 1..l |-> IF k \in {i} THEN 1 ELSE 0]
           f == [k \in 1..l |-> Distance(b[k], m)]
           g == [k \in 1..l |-> Distance(old[k], m)]
<1>3. \A k \in 1..l : /\ b[k] \in Nat /\ old[k] \in Nat
                      /\ old[k] = (IF k = i THEN b[k] - taken ELSE b[k])
  BY DEF ShortOf
<1>4. Total(o) = 1
  <2>1. {i} \in SUBSET (1..l)
    OBVIOUS
  <2> DEFINE S == {i}
  <2>2. Cardinality(S) = 1
    BY FS_Singleton
  <2> SUFFICES Total([k \in 1..l |-> IF k \in S THEN 1 ELSE 0]) = 1
    OBVIOUS
  <2> HIDE DEF S
  <2> QED  BY <2>1, <2>2, TotalCounts DEF S
<1>5. o \in [1..l -> Int] /\ \A k \in 1..l : o[k] = (IF k = i THEN 1 ELSE 0)
  OBVIOUS
<1>6. Deviation(b, m) = Total(f) /\ Deviation(old, m) = Total(g)
  BY DEF Deviation
<1> HIDE DEF o
<1>7. PICK t \in [1..l -> Int] : Scales(t, taken, o, l) /\ Total(t) = taken * Total(o)
  BY <1>5, TotalTimes
<1>8. \A k \in 1..l : t[k] = (IF k = i THEN taken ELSE 0)
  <2> SUFFICES ASSUME NEW k \in 1..l PROVE t[k] = (IF k = i THEN taken ELSE 0)
    OBVIOUS
  <2>1. t[k] = taken * o[k]
    BY <1>7 DEF Scales
  <2>2. o[k] = (IF k = i THEN 1 ELSE 0)
    BY <1>5
  <2> QED  BY <2>1, <2>2
<1>9. Total(t) = taken
  BY <1>4, <1>7
<1>10. \A k \in 1..l : b[k] = old[k] + t[k]
  <2> SUFFICES ASSUME NEW k \in 1..l PROVE b[k] = old[k] + t[k]
    OBVIOUS
  <2>1. /\ b[k] \in Nat /\ old[k] = (IF k = i THEN b[k] - taken ELSE b[k])
        /\ t[k] = (IF k = i THEN taken ELSE 0)
    BY <1>3, <1>8
  <2>2. CASE k = i
    BY <2>1, <2>2
  <2>3. CASE k # i
    BY <2>1, <2>3
  <2> QED  BY <2>2, <2>3
<1>11. Total(b) = Total(old) + taken
  <2>1. Sums(b, old, t, l)
    BY <1>10 DEF Sums
  <2>2. b \in [1..l -> Int] /\ old \in [1..l -> Int]
    BY <1>3
  <2>3. Total(b) = Total(old) + Total(t)
    BY ZenonT(60), <2>1, <2>2, TotalSum
  <2> QED  BY <1>9, <2>3
<1>12. ASSUME NEW k \in 1..l
       PROVE  /\ Distance(b[k], m) \in Nat /\ Distance(old[k], m) \in Nat
              /\ Distance(old[k], m) <= Distance(b[k], m) + t[k]
  <2> DEFINE x == b[k]
             y == old[k]
             z == t[k]
  <2>1. x \in Nat /\ y \in Nat
    BY <1>3
  <2>2. z \in Nat
    <3>1. z = (IF k = i THEN taken ELSE 0)
      BY <1>8
    <3> HIDE DEF z
    <3> QED  BY <3>1
  <2>3. x = y + z
    BY <1>10
  <2> HIDE DEF x, y, z
  <2>4. /\ Distance(x, m) \in Nat /\ Distance(y, m) \in Nat
        /\ Distance(y, m) <= Distance(x, m) + z
    BY <2>1, <2>2, <2>3 DEF Distance
  <2> QED  BY <2>4 DEF x, y, z
<1>13. f \in [1..l -> Int] /\ g \in [1..l -> Int]
  <2>1. ASSUME NEW x \in Nat PROVE Distance(x, m) \in Int
    BY DEF Distance
  <2>2. \A k \in 1..l : Distance(b[k], m) \in Int /\ Distance(old[k], m) \in Int
    BY <1>3, <2>1
  <2> QED  BY <2>2
<1>14. \A k \in 1..l : g[k] <= f[k] + t[k]
  BY <1>12
<1> HIDE DEF f, g
<1>15. PICK h \in [1..l -> Int] : Sums(h, f, t, l) /\ Total(h) = Total(f) + Total(t)
  BY <1>13, TotalPlus
<1>16. \A k \in 1..l : g[k] <= h[k]
  BY <1>14, <1>15 DEF Sums
<1>17. Total(g) <= Total(h) /\ Total(g) \in Int /\ Total(h) \in Int
  BY <1>13, <1>16, TotalMonotone
<1>18. Deviation(old, m) <= Deviation(b, m) + taken
  BY <1>6, <1>9, <1>15, <1>17
<1>19. Deviation(old, r) \in Nat /\ Deviation(old, m) \in Nat /\ Deviation(b, m) \in Nat
  <2>1. r \in Int /\ m \in Int
    OBVIOUS
  <2>2. Deviation(old, r) \in Nat /\ Deviation(old, m) \in Nat
    BY <2>1, DeviationNat
  <2>3. Deviation(b, m) \in Nat
    BY <2>1, DeviationNat
  <2> QED  BY <2>2, <2>3
<1>20. Deviation(old, r) <= Deviation(old, m)
  <2>1. m \in Int
    OBVIOUS
  <2>2. Deviation(old, Median(old)) <= Deviation(old, m)
    BY <2>1, MedianIsNearest
  <2> QED  BY <1>2, <2>2
<1>21. Deviation(old, r) <= Deviation(b, m) + taken
  <2> DEFINE x == Deviation(old, r)
             y == Deviation(old, m)
             z == Deviation(b, m)
  <2>1. x \in Nat /\ y \in Nat /\ z \in Nat /\ x <= y /\ y <= z + taken
    BY <1>18, <1>19, <1>20
  <2> HIDE DEF x, y, z
  <2>2. x <= z + taken
    BY <2>1
  <2> QED  BY <2>2 DEF x, z
<1> QED  BY <1>1, <1>2, <1>11, <1>21

-----------------------------------------------------------------------------
(* The invariants.                                                         *)

\* The balances an unbalanced operation leaves, and those the hook judges.
LEMMA UnbalancedIs ==
    ASSUME NEW l \in Nat \ {0}, balances \in [1..l -> 1..MaxBalance],
           NEW i \in 1..l, NEW amount \in 1..MaxBalance, NEW taken \in 0..MaxBalance,
           \/ AddLiquidityUnbalanced(i, amount, taken)
           \/ RemoveLiquidityUnbalanced(i, amount, taken)
    PROVE  LET old == [balances EXCEPT ![i] = @ - taken]
           IN  /\ old \in [1..l -> Nat]
               /\ \A k \in 1..l : k # i => old[k] = balances[k]
               /\ \E x \in Nat \ {0} : /\ balances' = [balances EXCEPT ![i] = x]
                                       /\ x <= balances[i] + amount
                                       /\ RemoveLiquidityUnbalanced(i, amount, taken)
                                            => x <= balances[i]
               /\ ~LiquidityIsSurging(old, balances')
               /\ UNCHANGED <<staticFee, surgeFeeData>>
<1> DEFINE old == [balances EXCEPT ![i] = @ - taken]
<1>1. /\ MaxBalance \in Nat /\ amount \in Nat \ {0} /\ taken \in Nat
      /\ balances[i] \in Nat \ {0} /\ \A k \in 1..l : balances[k] \in Nat
  BY BoundAssumption
<1>2. CASE AddLiquidityUnbalanced(i, amount, taken)
  <2>1. taken <= balances[i]
    BY <1>2 DEF AddLiquidityUnbalanced
  <2>2. old \in [1..l -> Nat] /\ \A k \in 1..l : k # i => old[k] = balances[k]
    BY <1>1, <2>1
  <2>3. /\ balances' = [balances EXCEPT ![i] = balances[i] + amount - taken]
        /\ ~LiquidityIsSurging(old, balances')
        /\ UNCHANGED <<staticFee, surgeFeeData>>
    BY <1>2 DEF AddLiquidityUnbalanced, ChangeUnbalanced
  <2>4. balances[i] + amount - taken \in Nat \ {0}
        /\ balances[i] + amount - taken <= balances[i] + amount
    BY <1>1, <2>1
  <2>5. RemoveLiquidityUnbalanced(i, amount, taken)
          => balances[i] + amount - taken <= balances[i]
    <3> SUFFICES ASSUME RemoveLiquidityUnbalanced(i, amount, taken)
                 PROVE  balances[i] + amount - taken = balances[i] - amount - taken
      BY <1>1
    <3>1. balances' = [balances EXCEPT ![i] = balances[i] - amount - taken]
      BY DEF RemoveLiquidityUnbalanced, ChangeUnbalanced
    <3> QED  BY <2>3, <3>1
  <2> QED  BY <2>2, <2>3, <2>4, <2>5
<1>3. CASE RemoveLiquidityUnbalanced(i, amount, taken)
  <2>1. amount + taken < balances[i]
    BY <1>3 DEF RemoveLiquidityUnbalanced
  <2>2. old \in [1..l -> Nat] /\ \A k \in 1..l : k # i => old[k] = balances[k]
    BY <1>1, <2>1
  <2>3. /\ balances' = [balances EXCEPT ![i] = balances[i] - amount - taken]
        /\ ~LiquidityIsSurging(old, balances')
        /\ UNCHANGED <<staticFee, surgeFeeData>>
    BY <1>3 DEF RemoveLiquidityUnbalanced, ChangeUnbalanced
  <2>4. balances[i] - amount - taken \in Nat \ {0}
        /\ balances[i] - amount - taken <= balances[i]
        /\ balances[i] - amount - taken <= balances[i] + amount
    BY <1>1, <2>1
  <2> QED  BY <2>2, <2>3, <2>4
<1> QED  BY <1>2, <1>3

\* The balances a proportional operation leaves.
LEMMA ProportionalIs ==
    ASSUME NEW l \in Nat \ {0}, balances \in [1..l -> 1..MaxBalance],
           NEW n \in 1..MaxShares, NEW d \in 1..MaxShares, ChangeProportionally(n, d)
    PROVE  /\ balances' \in [1..l -> Nat \ {0}]
           /\ SharesOf(balances', balances, l, n, d)
           /\ \A i \in 1..l : balances[i] * n <= MaxBalance * d => balances'[i] <= MaxBalance
<1>1. n \in Nat \ {0} /\ d \in Nat \ {0} /\ MaxBalance \in Nat \ {0}
  BY BoundAssumption
<1>2. balances' = [i \in 1..l |-> Shares(balances[i], n, d)]
  BY DEF ChangeProportionally, Shares
<1>3. ASSUME NEW x \in Nat \ {0}
      PROVE  /\ Shares(x, n, d) \in Nat \ {0}
             /\ x * n <= MaxBalance * d => Shares(x, n, d) <= MaxBalance
  <2> DEFINE s == Shares(x, n, d)
             ds == d * s
             xn == x * n
  <2>1. s \in Nat /\ ds \in Nat /\ xn \in Nat /\ xn <= ds /\ ds <= xn + d - 1
    BY <1>1, SharesAre
  <2> HIDE DEF s
  <2>2. xn # 0
    BY <1>1
  <2>3. s # 0
    <3> SUFFICES ASSUME s = 0 PROVE ds = 0
      BY <2>1, <2>2
    <3> QED  BY <1>1
  <2>4. ASSUME xn <= MaxBalance * d PROVE s <= MaxBalance
    <3>1. MaxBalance * d = d * MaxBalance /\ d * MaxBalance \in Int
      BY <1>1
    <3>2. ds < d * MaxBalance + d
      BY <1>1, <2>1, <2>4, <3>1
    <3> QED  BY <1>1, <2>1, <3>2, MulCancel
  <2> QED  BY <2>1, <2>3, <2>4 DEF s
<1>4. \A i \in 1..l : balances[i] \in Nat \ {0}
  BY <1>1
<1>5. \A i \in 1..l : balances'[i] = Shares(balances[i], n, d)
  BY <1>2
<1>6. balances' \in [1..l -> Nat \ {0}]
  BY <1>2, <1>3, <1>4
<1> QED  BY <1>3, <1>4, <1>5, <1>6 DEF SharesOf

\* Every action keeps the types.
LEMMA StepTyped ==
    ASSUME TypeOK, Next
    PROVE  TypeOK'
<1>1. PICK n \in Nat \ {0, 1} : n \in TokenCounts /\ balances \in [1..n -> 1..MaxBalance]
  BY PoolIs DEF TypeOK
<1>2. n \in Nat \ {0} /\ DOMAIN balances = 1..n /\ MaxBalance \in Nat \ {0}
  BY <1>1, BoundAssumption
<1>3. ASSUME NEW b \in [1..n -> 1..MaxBalance] PROVE b \in Pools
  BY <1>1 DEF Pools
<1>4. /\ balances \in Pools /\ staticFee \in StaticFees
      /\ maxSurgeFee \in Percentages /\ thresholdPercentage \in Percentages
  BY DEF TypeOK
<1>5. CASE \E i, j \in DOMAIN balances, in \in 1..MaxBalance :
               /\ i # j
               /\ balances[i] + in <= MaxBalance
               /\ \E estimate \in Estimates(balances, i, j, in) :
                      \/ SwapExactIn(i, j, in, estimate)
                      \/ SwapExactOut(i, j, in, estimate)
  <2>1. PICK i \in DOMAIN balances, j \in DOMAIN balances, in \in 1..MaxBalance :
            /\ i # j
            /\ balances[i] + in <= MaxBalance
            /\ \E estimate \in Estimates(balances, i, j, in) :
                   \/ SwapExactIn(i, j, in, estimate)
                   \/ SwapExactOut(i, j, in, estimate)
    BY <1>5
  <2>2. PICK estimate \in Estimates(balances, i, j, in) :
            SwapExactIn(i, j, in, estimate) \/ SwapExactOut(i, j, in, estimate)
    BY <2>1
  <2>3. balances' \in Pools /\ UNCHANGED <<staticFee, surgeFeeData>>
    BY <2>1, <2>2, SwapTyped
  <2> QED  BY <1>4, <2>3 DEF TypeOK, surgeFeeData
<1>6. ASSUME NEW i \in DOMAIN balances, NEW amount \in 1..MaxBalance, NEW taken \in 0..MaxBalance,
             \/ /\ balances[i] + amount <= MaxBalance
                /\ AddLiquidityUnbalanced(i, amount, taken)
             \/ RemoveLiquidityUnbalanced(i, amount, taken)
      PROVE  TypeOK'
  <2>1. i \in 1..n
    BY <1>2
  <2>2. /\ UNCHANGED <<staticFee, surgeFeeData>>
        /\ \E x \in Nat \ {0} : /\ balances' = [balances EXCEPT ![i] = x]
                                /\ x <= balances[i] + amount
                                /\ RemoveLiquidityUnbalanced(i, amount, taken) => x <= balances[i]
    BY <1>1, <1>2, <1>6, <2>1, UnbalancedIs
  <2>3. PICK x \in Nat \ {0} : /\ balances' = [balances EXCEPT ![i] = x]
                               /\ x <= balances[i] + amount
                               /\ RemoveLiquidityUnbalanced(i, amount, taken) => x <= balances[i]
    BY <2>2
  <2>4. x \in 1..MaxBalance
    <3>1. balances[i] \in 1..MaxBalance /\ amount \in Nat
      BY <1>1, <1>2, <2>1
    <3>2. CASE balances[i] + amount <= MaxBalance
      BY <1>2, <2>3, <3>1, <3>2
    <3>3. CASE RemoveLiquidityUnbalanced(i, amount, taken)
      BY <1>2, <2>3, <3>1, <3>3
    <3> QED  BY <1>6, <3>2, <3>3
  <2>5. balances' \in Pools
    BY <1>1, <1>3, <2>3, <2>4
  <2> QED  BY <1>4, <2>2, <2>5 DEF TypeOK, surgeFeeData
<1>7. ASSUME NEW k \in 1..MaxShares, NEW d \in 1..MaxShares,
             \A i \in DOMAIN balances : balances[i] * k <= MaxBalance * d,
             ChangeProportionally(k, d)
      PROVE  TypeOK'
  <2>1. /\ balances' \in [1..n -> Nat \ {0}]
        /\ \A i \in 1..n : balances[i] * k <= MaxBalance * d => balances'[i] <= MaxBalance
    BY <1>1, <1>2, <1>7, ProportionalIs
  <2>2. \A i \in 1..n : balances'[i] \in 1..MaxBalance
    <3> SUFFICES ASSUME NEW i \in 1..n PROVE balances'[i] \in 1..MaxBalance
      OBVIOUS
    <3>1. balances'[i] \in Nat \ {0} /\ balances'[i] <= MaxBalance
      BY <1>2, <1>7, <2>1
    <3> QED  BY <1>2, <3>1
  <2>3. balances' \in [1..n -> 1..MaxBalance]
    BY <2>1, <2>2
  <2>4. UNCHANGED <<staticFee, surgeFeeData>>
    BY <1>7 DEF ChangeProportionally
  <2> QED  BY <1>3, <1>4, <2>3, <2>4 DEF TypeOK, surgeFeeData
<1>8. ASSUME NEW percentage \in 0..(One + 1),
             \/ SetMaxSurgeFeePercentage(percentage)
             \/ SetSurgeThresholdPercentage(percentage)
      PROVE  TypeOK'
  <2>1. percentage <= One => percentage \in Percentages
    BY FeeAssumption DEF Percentages
  <2> QED  BY <1>4, <1>8, <2>1
           DEF TypeOK, SetMaxSurgeFeePercentage, SetSurgeThresholdPercentage, ValidPercentage
<1>9. ASSUME NEW percentage \in StaticFees, SetStaticSwapFeePercentage(percentage)
      PROVE  TypeOK'
  BY <1>4, <1>9 DEF TypeOK, SetStaticSwapFeePercentage, surgeFeeData
<1> QED  BY <1>5, <1>6, <1>7, <1>8, <1>9 DEF Next

LEMMA TypeInvariance == Init /\ [][Next]_vars => []TypeOK
<1>1. Init => TypeOK
  BY DefaultsAssumption DEF Init, TypeOK, Percentages
<1>2. TypeOK /\ [Next]_vars => TypeOK'
  <2> SUFFICES ASSUME TypeOK, [Next]_vars PROVE TypeOK'
    OBVIOUS
  <2>1. CASE Next
    BY <2>1, StepTyped
  <2>2. CASE UNCHANGED vars
    BY <2>2 DEF TypeOK, vars
  <2> QED  BY <2>1, <2>2
<1> QED  BY <1>1, <1>2, PTL

\* The settings stay percentages and no swap or liquidity operation empties a
\* balance, whatever the curve pays and whatever fee is charged.
THEOREM SurgeTypeCorrect == Spec => []TypeOK
BY TypeInvariance DEF Spec

\* The median is the nearest centre of any pool, and the imbalance measured
\* from it is at most one.
THEOREM MedianIsLeast == Spec => []ImbalanceIsLeastDeviation
<1>1. TypeOK => ImbalanceIsLeastDeviation
  <2> SUFFICES ASSUME TypeOK PROVE ImbalanceIsLeastDeviation
    OBVIOUS
  <2>1. PICK n \in Nat \ {0, 1} : balances \in [1..n -> 1..MaxBalance]
    BY PoolIs DEF TypeOK
  <2>2. n \in Nat \ {0} /\ balances \in [1..n -> Nat]
    BY <2>1, BoundAssumption
  <2>3. ASSUME NEW c \in 0..MaxBalance
        PROVE Deviation(balances, Median(balances)) <= Deviation(balances, c)
    BY <2>2, MedianIsNearest
  <2>4. Imbalance(balances) <= One
    BY ImbalancesTyped, FeeAssumption
  <2> QED  BY <2>3, <2>4 DEF ImbalanceIsLeastDeviation
<1> QED  BY <1>1, SurgeTypeCorrect, PTL

\* The fee of any swap the pool may estimate exists and lies between the static
\* fee and the larger of static fee and maximum.
THEOREM FeesBetween == Spec => []FeeBetweenStaticAndMax
<1>1. TypeOK => FeeBetweenStaticAndMax
  <2> SUFFICES ASSUME TypeOK, NEW new \in NewImbalances
               PROVE  /\ SwapIsSurging(staticFee, maxSurgeFee, thresholdPercentage,
                                       Imbalance(balances), new)
                            => new <= One /\ thresholdPercentage < One
                      /\ Fee(maxSurgeFee, thresholdPercentage, new) >= staticFee
                      /\ \/ Fee(maxSurgeFee, thresholdPercentage, new) <= maxSurgeFee
                         \/ Fee(maxSurgeFee, thresholdPercentage, new) = staticFee
    BY DEF FeeBetweenStaticAndMax
  <2>1. new \in 0..One /\ new <= One /\ Imbalance(balances) \in 0..One
    BY ImbalancesTyped, FeeAssumption
  <2> QED  BY <2>1, SettingsTyped, SwapFeeIs DEF Fee
<1> QED  BY <1>1, SurgeTypeCorrect, PTL

\* The fee follows the imbalance a swap leads to, and neither a lower threshold
\* nor a higher maximum makes a swap cheaper.
THEOREM FeesFollow == Spec => []FeeFollowsImbalance
<1>1. TypeOK => FeeFollowsImbalance
  <2> SUFFICES ASSUME TypeOK, NEW new \in NewImbalances
               PROVE  /\ \A more \in NewImbalances : more >= new =>
                             Fee(maxSurgeFee, thresholdPercentage, more)
                                 >= Fee(maxSurgeFee, thresholdPercentage, new)
                      /\ \A lower \in 0..thresholdPercentage :
                             Fee(maxSurgeFee, lower, new)
                                 >= Fee(maxSurgeFee, thresholdPercentage, new)
                      /\ \A higher \in maxSurgeFee..One :
                             Fee(higher, thresholdPercentage, new)
                                 >= Fee(maxSurgeFee, thresholdPercentage, new)
    BY DEF FeeFollowsImbalance
  <2>1. /\ NewImbalances \subseteq 0..One /\ Imbalance(balances) \in 0..One
        /\ staticFee \in 0..(One - 1) /\ maxSurgeFee \in 0..One
        /\ thresholdPercentage \in 0..One /\ One \in Nat
    BY ImbalancesTyped, SettingsTyped, FeeAssumption
  <2>2. ASSUME NEW max \in 0..One, NEW t \in 0..One, NEW old \in 0..One
        PROVE  Fee(max, t, old) \in Nat
    BY <2>1, SwapFeeIs DEF Fee
  <2>3. ASSUME NEW higher \in 0..One, maxSurgeFee <= higher,
               NEW lower \in 0..One, lower <= thresholdPercentage,
               NEW more \in 0..One, new <= more
        PROVE  Fee(higher, lower, more) >= Fee(maxSurgeFee, thresholdPercentage, new)
    <3>1. new \in 0..One
      BY <2>1
    <3>2. Fee(maxSurgeFee, thresholdPercentage, new) <= Fee(higher, lower, more)
      BY <2>1, <2>3, <3>1, SwapFeeMonotone DEF Fee
    <3>3. Fee(maxSurgeFee, thresholdPercentage, new) \in Nat /\ Fee(higher, lower, more) \in Nat
      BY <2>1, <2>2, <3>1
    <3> QED  BY <3>2, <3>3
  <2>4. /\ new \in 0..One /\ new <= new /\ maxSurgeFee <= maxSurgeFee
        /\ thresholdPercentage <= thresholdPercentage
    BY <2>1
  <2>5. \A more \in NewImbalances : more >= new =>
            Fee(maxSurgeFee, thresholdPercentage, more)
                >= Fee(maxSurgeFee, thresholdPercentage, new)
    <3> SUFFICES ASSUME NEW more \in NewImbalances, more >= new
                 PROVE  Fee(maxSurgeFee, thresholdPercentage, more)
                            >= Fee(maxSurgeFee, thresholdPercentage, new)
      OBVIOUS
    <3>1. more \in 0..One /\ new <= more
      BY <2>1, <2>4
    <3> QED  BY <2>1, <2>3, <2>4, <3>1
  <2>6. \A lower \in 0..thresholdPercentage :
            Fee(maxSurgeFee, lower, new) >= Fee(maxSurgeFee, thresholdPercentage, new)
    <3> TAKE lower \in 0..thresholdPercentage
    <3>1. lower \in 0..One /\ lower <= thresholdPercentage
      BY <2>1
    <3> QED  BY <2>1, <2>3, <2>4, <3>1
  <2>7. \A higher \in maxSurgeFee..One :
            Fee(higher, thresholdPercentage, new) >= Fee(maxSurgeFee, thresholdPercentage, new)
    <3> TAKE higher \in maxSurgeFee..One
    <3>1. higher \in 0..One /\ maxSurgeFee <= higher
      BY <2>1
    <3> QED  BY <2>1, <2>3, <2>4, <3>1
  <2> QED  BY <2>5, <2>6, <2>7
<1> QED  BY <1>1, SurgeTypeCorrect, PTL

\* An unbalanced operation that the hook lets pass: it judged balances that are
\* short of what was taken of the fee.
LEMMA UnbalancedHardlySurges ==
    ASSUME TypeOK, NEW i \in DOMAIN balances, NEW amount \in 1..MaxBalance,
           NEW taken \in 0..MaxBalance,
           \/ AddLiquidityUnbalanced(i, amount, taken)
           \/ RemoveLiquidityUnbalanced(i, amount, taken)
    PROVE  \/ Imbalance(balances') <= thresholdPercentage
           \/ Imbalance(balances') <= ImbalanceBut(taken)
<1>1. PICK l \in Nat \ {0, 1} : balances \in [1..l -> 1..MaxBalance]
  BY PoolIs DEF TypeOK
<1> DEFINE old == [balances EXCEPT ![i] = @ - taken]
<1>2. /\ l \in Nat \ {0} /\ l \in Nat /\ i \in 1..l /\ taken \in Nat
      /\ balances \in [1..l -> Nat \ {0}] /\ balances \in [1..l -> Nat]
  BY <1>1, BoundAssumption
<1>3. /\ old \in [1..l -> Nat] /\ \A k \in 1..l : k # i => old[k] = balances[k]
      /\ \E x \in Nat \ {0} : balances' = [balances EXCEPT ![i] = x]
      /\ ~LiquidityIsSurging(old, balances')
  BY <1>1, <1>2, UnbalancedIs
<1>4. balances' \in [1..l -> Nat \ {0}]
  BY <1>2, <1>3
<1>5. Imbalance(balances') \in Nat /\ thresholdPercentage \in Nat
  <2>1. Imbalance(balances') \in 0..One
    BY <1>2, <1>4, ImbalanceIsPercentage
  <2> QED  BY <2>1, SettingsTyped, FeeAssumption
<1>6. /\ Total(balances) = Total(old) + taken
      /\ Deviation(old, Median(old)) <= Deviation(balances, Median(balances)) + taken
  <2>1. ShortOf(old, balances, i, taken)
    BY DEF ShortOf
  <2> HIDE DEF old
  <2> QED  BY <1>2, <1>3, <2>1, LessOfOne
<1> DEFINE x == Deviation(old, Median(old))
           y == Deviation(balances, Median(balances)) + taken
           t == Total(old)
<1>7. x \in Nat /\ y \in Nat
  <2>1. Median(old) \in Int /\ Median(balances) \in Int
    <3>1. Median(old) \in Nat
      BY <1>2, <1>3, MedianIs
    <3>2. Median(balances) \in Nat
      BY <1>2, MedianIs
    <3> QED  BY <3>1, <3>2
  <2>2. Deviation(old, Median(old)) \in Nat
    BY <1>2, <1>3, <2>1, DeviationNat
  <2>3. Deviation(balances, Median(balances)) \in Nat
    BY <1>2, <2>1, DeviationNat
  <2> QED  BY <1>2, <2>2, <2>3
<1>8. t \in Nat \ {0}
  <2>1. PICK j \in 1..l : j # i
    <3>1. 1 \in 1..l /\ 2 \in 1..l
      BY <1>1
    <3> QED  BY <3>1
  <2> DEFINE o == [k \in 1..l |-> IF k \in {j} THEN 1 ELSE 0]
  <2>2. Total(o) = Cardinality({j})
    BY <1>2, TotalCounts
  <2>3. o \in [1..l -> Int] /\ \A k \in 1..l : o[k] = (IF k = j THEN 1 ELSE 0)
    OBVIOUS
  <2> HIDE DEF o
  <2>4. Total(o) = 1
    BY <2>2, FS_Singleton
  <2>5. old \in [1..l -> Int] /\ \A k \in 1..l : old[k] \in Nat
    BY <1>3
  <2>6. old[j] \in Nat \ {0}
    BY <1>2, <1>3, <2>1
  <2> HIDE DEF old
  <2>7. \A k \in 1..l : o[k] <= old[k]
    BY <2>3, <2>5, <2>6
  <2>8. Total(o) <= Total(old) /\ Total(old) \in Int
    BY <1>2, <2>3, <2>5, <2>7, TotalMonotone
  <2> QED  BY <2>4, <2>8
<1>9. Total(balances) - taken = t
  <2> HIDE DEF old
  <2> QED  BY <1>2, <1>6, <1>8
<1>10. Imbalance(old) = (x * One) \div t /\ ImbalanceBut(taken) = (y * One) \div t
  <2>1. ImbalanceBut(taken) = DivDown(y, t)
    BY <1>9 DEF ImbalanceBut
  <2>2. Imbalance(old) = DivDown(x, t)
    BY DEF Imbalance
  <2> QED  BY <2>1, <2>2 DEF DivDown
<1>11. Imbalance(old) <= ImbalanceBut(taken) /\ Imbalance(old) \in Int /\ ImbalanceBut(taken) \in Int
  <2> HIDE DEF x, y, t
  <2>1. x <= y
    BY <1>6 DEF x, y
  <2>2. One \in Nat /\ x * One \in Int /\ y * One \in Int /\ x * One <= y * One
    <3>1. One \in Nat
      BY FeeAssumption
    <3>2. One * x <= One * y
      BY <1>7, <2>1, <3>1, MulMonotone
    <3> QED  BY <1>7, <3>1, <3>2
  <2> QED  BY <1>8, <1>10, <2>2, DivMonotone, DivBounds
<1>12. \/ Imbalance(balances') = 0
       \/ ~(Imbalance(balances') > Imbalance(old))
       \/ ~(Imbalance(balances') > thresholdPercentage)
  BY <1>3 DEF LiquidityIsSurging, IsSurging
<1> HIDE DEF old
<1> QED  BY <1>5, <1>11, <1>12

\* A proportional operation, that the hook does not look at.
LEMMA ProportionalHardlySurges ==
    ASSUME TypeOK, NEW n \in 1..MaxShares, NEW d \in 1..MaxShares, ChangeProportionally(n, d)
    PROVE  Imbalance(balances')
             <= Imbalance(balances) + DivUp(Len(balances) \div 2, Total(balances'))
<1>1. PICK l \in Nat \ {0, 1} : balances \in [1..l -> 1..MaxBalance]
  BY PoolIs DEF TypeOK
<1>2. /\ l \in Nat \ {0} /\ l \in Nat /\ n \in Nat \ {0} /\ d \in Nat \ {0}
      /\ balances \in [1..l -> Nat \ {0}] /\ balances \in [1..l -> Nat]
  BY <1>1, BoundAssumption
<1>3. balances' \in [1..l -> Nat \ {0}] /\ SharesOf(balances', balances, l, n, d)
  BY <1>1, <1>2, ProportionalIs
<1>4. balances' \in [1..l -> Nat]
  BY <1>3
<1> DEFINE x == Deviation(balances, Median(balances))
           t == Total(balances)
           y == Deviation(balances', Median(balances'))
           u == Total(balances')
           h == l \div 2
<1>5. d * y <= n * x + h * (d - 1)
  BY <1>2, <1>3, <1>4, DeviationOfShares
<1>6. n * t <= d * u
  BY <1>2, <1>3, <1>4, TotalOfShares
<1>7. t \in Nat \ {0} /\ u \in Nat \ {0}
  <2>1. t \in Nat \ {0}
    BY <1>2, TotalPositive
  <2>2. u \in Nat \ {0}
    BY <1>2, <1>3, TotalPositive
  <2> QED  BY <2>1, <2>2
<1>8. x \in Nat /\ y \in Nat /\ h \in Nat
  <2>1. Median(balances) \in Int /\ Median(balances') \in Int
    <3>1. Median(balances) \in Nat
      BY <1>2, MedianIs
    <3>2. Median(balances') \in Nat
      BY <1>2, <1>4, MedianIs
    <3> QED  BY <3>1, <3>2
  <2>2. x \in Nat
    BY <1>2, <2>1, DeviationNat
  <2>3. y \in Nat
    BY <1>2, <1>4, <2>1, DeviationNat
  <2> QED  BY <1>2, <2>2, <2>3
<1>9. Len(balances) = l
  BY <1>1, <1>2, LengthIs
<1>10. /\ Imbalance(balances) = DivDown(x, t) /\ Imbalance(balances') = DivDown(y, u)
       /\ DivUp(Len(balances) \div 2, Total(balances')) = DivUp(h, u)
  BY <1>9 DEF Imbalance
<1> HIDE DEF x, t, y, u, h
<1>11. DivDown(y, u) <= DivDown(x, t) + DivUp(h, u)
  BY <1>2, <1>5, <1>6, <1>7, <1>8, QuotientRises
<1> QED  BY <1>10, <1>11

\* No liquidity operation takes a pool further past the threshold by more than
\* the fee the hook cannot see, or than a unit of rounding for every second token.
THEOREM LiquidityHardlySurges == Spec => LiquidityNeverFeedsSurge
<1> DEFINE Kept == /\ \A i \in DOMAIN balances, amount \in 1..MaxBalance, taken \in 0..MaxBalance :
                          \/ AddLiquidityUnbalanced(i, amount, taken)
                          \/ RemoveLiquidityUnbalanced(i, amount, taken)
                          => \/ Imbalance(balances') <= thresholdPercentage
                             \/ Imbalance(balances') <= ImbalanceBut(taken)
                   /\ \A n, d \in 1..MaxShares :
                          ChangeProportionally(n, d) =>
                              Imbalance(balances')
                                <= Imbalance(balances) + DivUp(Len(balances) \div 2, Total(balances'))
<1>1. TypeOK /\ [Next]_vars => [Kept]_balances
  <2> SUFFICES ASSUME TypeOK PROVE Kept
    OBVIOUS
  <2> QED  BY UnbalancedHardlySurges, ProportionalHardlySurges
<1>2. [][Kept]_balances => LiquidityNeverFeedsSurge
  BY DEF LiquidityNeverFeedsSurge
<1> QED  BY <1>1, <1>2, SurgeTypeCorrect, PTL DEF Spec
=============================================================================
