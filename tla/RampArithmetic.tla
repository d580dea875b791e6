--------------------------- MODULE RampArithmetic ---------------------------
(***************************************************************************)
(* Facts about Solidity's integer division on the operands the pools give  *)
(* it, and about a share (a * x) \div d of a distance a after x out of d   *)
(* units of time: what every gradual change of a parameter computes.  Last *)
(* what proofs about loops and powers start from: the least counterexample.*)
(***************************************************************************)
EXTENDS Integers, TLAPS, NaturalsInduction, WellFoundedInduction

\* Division rounds down: the quotient is the largest one that fits.
LEMMA DivBounds ==
    ASSUME NEW a \in Int, NEW d \in Nat \ {0}
    PROVE  /\ a \div d \in Int
           /\ d * (a \div d) <= a
           /\ a < d * (a \div d) + d
OBVIOUS

\* Multiplying by a natural number keeps the order.
LEMMA MulMonotone ==
    ASSUME NEW a \in Nat, NEW x \in Int, NEW y \in Int, x <= y
    PROVE  a * x <= a * y
OBVIOUS

\* Products of natural numbers are natural.
LEMMA MulNat ==
    ASSUME NEW a \in Nat, NEW x \in Nat
    PROVE  a * x \in Nat
OBVIOUS

\* A product with the opposite of a difference.
LEMMA MulOpposite ==
    ASSUME NEW a \in Int, NEW b \in Int, NEW x \in Int
    PROVE  /\ (a - b) * x = -((b - a) * x)
           /\ (a - b) * x \in Int /\ (b - a) * x \in Int
OBVIOUS

\* A product with a sum.
LEMMA MulSum ==
    ASSUME NEW a \in Nat, NEW x \in Nat, NEW y \in Nat
    PROVE  a * (x + y) = a * x + a * y
OBVIOUS

\* Multiples of d less than d apart are in order.
LEMMA MulCancel ==
    ASSUME NEW d \in Nat \ {0}, NEW x \in Int, NEW y \in Int, d * x < d * y + d
    PROVE  x <= y
OBVIOUS

\* Division keeps the order.
LEMMA DivMonotone ==
    ASSUME NEW a \in Int, NEW b \in Int, a <= b, NEW d \in Nat \ {0}
    PROVE  a \div d <= b \div d
<1>1. d * (a \div d) < d * (b \div d) + d
  BY DivBounds
<1> QED  BY <1>1, DivBounds, MulCancel

\* A share of a distance is part of that distance.
LEMMA ShareBounds ==
    ASSUME NEW a \in Nat, NEW d \in Nat \ {0}, NEW x \in Nat, x <= d
    PROVE  (a * x) \div d \in 0..a
<1> DEFINE q == (a * x) \div d
<1>1. a * x \in Nat /\ a * x <= d * a
  BY MulMonotone, MulNat
<1>2. /\ q \in Int
      /\ d * q <= a * x
      /\ a * x < d * q + d
  BY <1>1, DivBounds
<1>3. q <= a
  BY <1>1, <1>2, MulCancel
<1>4. 0 <= q
  BY <1>1, <1>2, MulCancel
<1> QED  BY <1>2, <1>3, <1>4

\* The share grows with the time that has passed.
LEMMA ShareMonotone ==
    ASSUME NEW a \in Nat, NEW d \in Nat \ {0}, NEW x \in Nat, NEW y \in Nat, x <= y
    PROVE  (a * x) \div d <= (a * y) \div d
<1>1. a * x \in Nat /\ a * y \in Nat /\ a * x <= a * y
  BY MulMonotone, MulNat
<1> QED  BY <1>1, DivMonotone

\* No time, no share; the whole time, the whole distance.
LEMMA ShareEnds ==
    ASSUME NEW a \in Nat, NEW d \in Nat \ {0}
    PROVE  (a * 0) \div d = 0 /\ (a * d) \div d = a
<1>1. a * 0 = 0 /\ 0 \div d = 0
  <2>1. a * 0 = 0
    OBVIOUS
  <2>2. /\ 0 \div d \in Int
        /\ d * (0 \div d) <= 0
        /\ 0 < d * (0 \div d) + d
    BY DivBounds
  <2>3. 0 \div d <= 0 /\ 0 <= 0 \div d
    BY <2>2, MulCancel
  <2> QED  BY <2>1, <2>2, <2>3
<1>2. (a * d) \div d = a
  <2> DEFINE q == (a * d) \div d
  <2>1. a * d \in Int /\ a * d = d * a
    OBVIOUS
  <2>2. /\ q \in Int
        /\ d * q <= d * a
        /\ d * a < d * q + d
    BY <2>1, DivBounds
  <2>3. d * q < d * a + d
    BY <2>1, <2>2
  <2>4. q <= a
    BY <2>2, <2>3, MulCancel
  <2>5. a <= q
    BY <2>2, MulCancel
  <2> QED  BY <2>2, <2>4, <2>5
<1> QED  BY <1>1, <1>2

\* Over a stretch y of the whole d the share of c grows by at most k, when
\* the whole of k is no less than that of c over the stretch.
LEMMA ShareStep ==
    ASSUME NEW c \in Nat, NEW d \in Nat \ {0}, NEW x \in Nat, NEW y \in Nat,
           NEW k \in Nat, c * y <= d * k
    PROVE  (c * (x + y)) \div d <= (c * x) \div d + k
<1> DEFINE p == (c * x) \div d
           q == (c * (x + y)) \div d
<1>1. c * x \in Nat /\ c * y \in Nat /\ c * (x + y) = c * x + c * y /\ d * k \in Nat
  BY MulNat, MulSum
<1>2. p \in Int /\ c * x < d * p + d /\ d * p \in Int
  BY <1>1, DivBounds
<1>3. q \in Int /\ d * q <= c * (x + y) /\ d * q \in Int
  BY <1>1, DivBounds
<1> HIDE DEF p, q
<1>4. d * (p + k) = d * p + d * k /\ p + k \in Int
  BY <1>2
<1>5. d * q < d * (p + k) + d
  BY <1>1, <1>2, <1>3, <1>4
<1>6. q <= p + k
  BY <1>3, <1>4, <1>5, MulCancel
<1> QED  BY <1>6 DEF p, q

\* A quotient rounded up that is no more than r: the divisor times r covers
\* the dividend.
LEMMA DivUpCovers ==
    ASSUME NEW a \in Nat, NEW b \in Nat \ {0}, NEW r \in Nat, (a + b - 1) \div b <= r
    PROVE  a <= b * r
<1> DEFINE q == (a + b - 1) \div b
<1>1. a + b - 1 \in Nat
  OBVIOUS
<1>2. q \in Int /\ a + b - 1 < b * q + b
  BY <1>1, DivBounds
<1>3. q <= r
  OBVIOUS
<1> HIDE DEF q
<1>4. b * q <= b * r /\ b * q \in Int /\ b * r \in Int
  BY <1>2, <1>3, MulMonotone
<1> QED  BY <1>2, <1>4

\* A set of natural numbers has a member that follows none of the set.
LEMMA LeastNumber ==
    ASSUME NEW S \in SUBSET Nat, S # {}
    PROVE  \E n \in S : n - 1 \notin S
<1>1. IsWellFoundedOn(OpToRel(<, Nat), Nat)
  BY NatLessThanWellFounded
<1>2. PICK n \in S : \A m \in S : ~(<<m, n>> \in OpToRel(<, Nat))
  BY <1>1, WFMin
<1>3. \A m \in S : ~(m < n)
  BY <1>2 DEF OpToRel
<1> QED  BY <1>3
=============================================================================
