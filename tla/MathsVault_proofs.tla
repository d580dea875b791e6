------------------------- MODULE MathsVault_proofs -------------------------
(***************************************************************************)
(* What is proved of the ports of the mathematics, for every Wad, amount,  *)
(* scaling factor and rate.  The directions of rounding; that the Vault    *)
(* books no swap in the trader's favour, whatever the class of the pool;   *)
(* and, for the pools of ClosedPools, that no sequence of operations is a  *)
(* free lunch or dilutes the shares:                                       *)
(*   - no answer of OnSwap lowers the worth of the balances (PriceKeeps-   *)
(*     Worth), class by class;                                             *)
(*   - so every operation is fair (NextFair): it mints no shares, and with *)
(*     as many shares as before the pool is worth no less;                 *)
(*   - fair operations keep BooksInv (BooksStep), and BooksInv says who    *)
(*     gained (BooksNoFreeLunch).                                          *)
(***************************************************************************)
EXTENDS ClosedPools, RampArithmetic

\* On natural numbers a bigint quotient is the usual one, and rounding it up
\* gives the least number that is enough.
LEMMA QuotNat ==
    ASSUME NEW a \in Nat, NEW d \in Nat \ {0}
    PROVE  /\ Quot(a, d) \in Nat
           /\ d * Quot(a, d) <= a
           /\ a < d * Quot(a, d) + d
  <1>1. Quot(a, d) = a \div d
    BY DEF Quot, Abs
  <1> DEFINE q == a \div d
  <1>2. q \in Int /\ d * q <= a /\ a < d * q + d
    BY DivBounds
  <1>3. 0 <= q
    <2>1. d * 0 < d * q + d
      BY <1>2
    <2> HIDE DEF q
    <2> QED
      BY <1>2, <2>1, MulCancel
  <1> QED
    BY <1>1, <1>2, <1>3

LEMMA QuotUp ==
    ASSUME NEW a \in Nat \ {0}, NEW d \in Nat \ {0}
    PROVE  LET q == Quot(a - 1, d) + 1
           IN q \in Nat /\ a <= d * q /\ d * q < a + d
  <1> DEFINE p == Quot(a - 1, d)
  <1>1. p \in Nat /\ d * p <= a - 1 /\ a - 1 < d * p + d
    BY QuotNat
  <1> HIDE DEF p
  <1>2. d * (p + 1) = d * p + d /\ d * p \in Int
    BY <1>1
  <1>3. p + 1 \in Nat /\ a <= d * (p + 1) /\ d * (p + 1) < a + d
    BY <1>1, <1>2
  <1> QED
    BY <1>3 DEF p

-----------------------------------------------------------------------------

\* A product rounded down is the most that is covered by the exact one.
LEMMA MulDownBounds ==
    ASSUME NEW a \in Nat, NEW b \in Nat
    PROVE  /\ MulDown(a, b) \in Nat
           /\ Wad * MulDown(a, b) <= a * b
           /\ a * b < Wad * MulDown(a, b) + Wad
  BY MulNat, QuotNat, WadAssumption DEF MulDown

\* A product rounded up covers the exact one.
LEMMA MulUpBounds ==
    ASSUME NEW a \in Nat, NEW b \in Nat
    PROVE  /\ MulUp(a, b) \in Nat
           /\ a * b <= Wad * MulUp(a, b)
           /\ Wad * MulUp(a, b) < a * b + Wad
  <1>1. a * b \in Nat
    BY MulNat
  <1>2. CASE a * b = 0
    BY <1>2, WadAssumption DEF MulUp
  <1>3. CASE a * b # 0
    BY <1>1, <1>3, QuotUp, WadAssumption DEF MulUp
  <1> QED
    BY <1>2, <1>3

\* A quotient rounded down, of a positive divisor.
LEMMA DivDownBounds ==
    ASSUME NEW a \in Nat, NEW d \in Nat \ {0}
    PROVE  /\ DivDown(a, d) \in Nat
           /\ d * DivDown(a, d) <= a * Wad
  <1>1. a * Wad \in Nat
    BY MulNat, WadAssumption
  <1>2. CASE a = 0
    BY <1>2, WadAssumption DEF DivDown
  <1>3. CASE a # 0
    BY <1>1, <1>3, QuotNat DEF DivDown
  <1> QED
    BY <1>2, <1>3

\* A quotient rounded up covers the exact one.
LEMMA DivUpFixedBounds ==
    ASSUME NEW a \in Nat, NEW d \in Nat \ {0}
    PROVE  /\ DivUpFixed(a, d) \in Nat
           /\ a * Wad <= d * DivUpFixed(a, d)
           /\ d * DivUpFixed(a, d) < a * Wad + d
  <1>1. a * Wad \in Nat
    BY MulNat, WadAssumption
  <1>2. CASE a * Wad = 0
    BY <1>2 DEF DivUpFixed, MulDivUp
  <1>3. CASE a * Wad # 0
    BY <1>1, <1>3, QuotUp DEF DivUpFixed, MulDivUp
  <1> QED
    BY <1>2, <1>3

\* An amount that is scaled and turned back to raw, both rounded down as on a
\* way out of the pool, is never more than it was, whatever decimals and rate
\* the token has.
THEOREM ScalingNeverGains ==
    \A x \in Nat, factor, rate \in Nat \ {0} :
        ToRawRoundDown(ToScaledRoundDown(x, factor, rate), factor, rate) <= x
  <1> SUFFICES ASSUME NEW x \in Nat, NEW factor \in Nat \ {0}, NEW rate \in Nat \ {0}
               PROVE  ToRawRoundDown(ToScaledRoundDown(x, factor, rate), factor, rate) <= x
    OBVIOUS
  <1> DEFINE s == MulDown(x * factor, rate)
             fr == factor * rate
             back == DivDown(s, fr)
  <1>1. x * factor \in Nat /\ fr \in Nat \ {0} /\ (x * factor) * rate = fr * x
    OBVIOUS
  <1>2. s \in Nat /\ Wad * s <= fr * x
    BY <1>1, MulDownBounds
  <1>3. back \in Nat /\ fr * back <= s * Wad
    <2> HIDE DEF s, fr
    <2> QED
      BY <1>1, <1>2, DivDownBounds
  <1> HIDE DEF s, fr, back
  <1>4. fr * back < fr * x + fr
    <2>1. s * Wad = Wad * s /\ fr * back \in Int /\ fr * x \in Int /\ Wad * s \in Int
      BY <1>1, <1>2, <1>3, WadAssumption
    <2> QED
      BY <1>1, <1>2, <1>3, <2>1
  <1>5. back <= x
    BY <1>1, <1>3, <1>4, MulCancel
  <1> QED
    BY <1>5 DEF back, fr, s, ToRawRoundDown, ToScaledRoundDown

\* A proportional removal leaves each remaining share at least the balances it
\* had: what is left of a token times the old supply is no less than what
\* there was times the new one.
THEOREM RemovalNeverDilutes ==
    ASSUME NEW b \in Seq(Nat), NEW supply \in Nat \ {0}, NEW bpt \in 0..supply
    PROVE  \A i \in DOMAIN b :
             LET out == ProportionalAmountsOut(b, supply, bpt)[i]
             IN out \in 0..b[i] /\ (b[i] - out) * supply >= b[i] * (supply - bpt)
  <1> SUFFICES ASSUME NEW i \in DOMAIN b
               PROVE  LET out == ProportionalAmountsOut(b, supply, bpt)[i]
                      IN out \in 0..b[i] /\ (b[i] - out) * supply >= b[i] * (supply - bpt)
    OBVIOUS
  <1> DEFINE out == Quot(b[i] * bpt, supply)
  <1>1. PICK n \in Nat : n = b[i]
    OBVIOUS
  <1>2. n * bpt \in Nat /\ n * bpt <= n * supply
    BY MulMonotone, MulNat
  <1>3. out \in Nat /\ supply * out <= n * bpt
    BY <1>1, <1>2, QuotNat
  <1> HIDE DEF out
  <1>4. out <= n
    <2>1. n * supply = supply * n /\ supply * out \in Int /\ supply * n \in Int
      BY <1>3
    <2>2. supply * out < supply * n + supply
      BY <1>2, <1>3, <2>1
    <2> QED
      BY <1>3, <2>2, MulCancel
  <1>5. (n - out) * supply = n * supply - supply * out /\ n * (supply - bpt) = n * supply - n * bpt
    BY <1>3
  <1>6. n * supply \in Int /\ supply * out \in Int /\ n * bpt \in Int
    BY <1>2, <1>3
  <1>7. (n - out) * supply >= n * (supply - bpt)
    BY <1>3, <1>5, <1>6
  <1>8. ProportionalAmountsOut(b, supply, bpt)[i] = out
    BY DEF ProportionalAmountsOut, out
  <1> QED
    BY <1>1, <1>3, <1>4, <1>7, <1>8

-----------------------------------------------------------------------------
(* What the Vault books of a swap, whatever the class of the pool *)

Fr(p, i) == p.factors[i] * p.rates[i]

LEMMA RateUpCovers ==
    ASSUME NEW rate \in Positive
    PROVE  RateRoundUp(rate) \in Positive /\ rate <= RateRoundUp(rate)
  BY DEF RateRoundUp, Positive

LEMMA ToRawDownBounds ==
    ASSUME NEW a \in Nat, NEW f \in Positive, NEW r \in Positive
    PROVE  /\ ToRawRoundDown(a, f, r) \in Nat
           /\ (f * r) * ToRawRoundDown(a, f, r) <= Wad * a
  <1> DEFINE d == f * r
  <1>1. d \in Nat \ {0} /\ a * Wad = Wad * a
    BY WadAssumption DEF Positive
  <1> HIDE DEF d
  <1>2. DivDown(a, d) \in Nat /\ d * DivDown(a, d) <= Wad * a
    BY <1>1, DivDownBounds
  <1> QED
    BY <1>2 DEF d, ToRawRoundDown

LEMMA ToRawUpBounds ==
    ASSUME NEW a \in Nat, NEW f \in Positive, NEW r \in Positive
    PROVE  /\ ToRawRoundUp(a, f, r) \in Nat
           /\ Wad * a <= (f * r) * ToRawRoundUp(a, f, r)
  <1> DEFINE d == f * r
  <1>1. d \in Nat \ {0} /\ a * Wad = Wad * a
    BY WadAssumption DEF Positive
  <1> HIDE DEF d
  <1>2. DivUpFixed(a, d) \in Nat /\ Wad * a <= d * DivUpFixed(a, d)
    BY <1>1, DivUpFixedBounds
  <1> QED
    BY <1>2 DEF d, ToRawRoundUp

LEMMA ToScaledDownBounds ==
    ASSUME NEW x \in Nat, NEW f \in Positive, NEW r \in Positive
    PROVE  /\ ToScaledRoundDown(x, f, r) \in Nat
           /\ Wad * ToScaledRoundDown(x, f, r) <= (f * r) * x
           /\ (f * r) * x < Wad * ToScaledRoundDown(x, f, r) + Wad
  <1> DEFINE y == x * f
  <1>1. y \in Nat /\ r \in Nat /\ y * r = (f * r) * x
    BY MulNat DEF Positive
  <1> HIDE DEF y
  <1>2. MulDown(y, r) \in Nat /\ Wad * MulDown(y, r) <= y * r /\ y * r < Wad * MulDown(y, r) + Wad
    BY <1>1, MulDownBounds
  <1> QED
    BY <1>1, <1>2 DEF y, ToScaledRoundDown

LEMMA ToScaledUpBounds ==
    ASSUME NEW x \in Nat, NEW f \in Positive, NEW r \in Positive
    PROVE  /\ ToScaledRoundUp(x, f, r) \in Nat
           /\ (f * r) * x <= Wad * ToScaledRoundUp(x, f, r)
  <1> DEFINE y == x * f
  <1>1. y \in Nat /\ r \in Nat /\ y * r = (f * r) * x
    BY MulNat DEF Positive
  <1> HIDE DEF y
  <1>2. MulUp(y, r) \in Nat /\ y * r <= Wad * MulUp(y, r)
    BY <1>1, MulUpBounds
  <1> QED
    BY <1>1, <1>2 DEF y, ToScaledRoundUp

\* The part of a fee that leaves the pool is worth no more than the fee.
LEMMA AggregateFeeBounds ==
    ASSUME NEW p, NEW i, NEW fee \in Nat, p.aggregateFee \in 0..Wad,
           p.factors[i] \in Positive, p.rates[i] \in Positive
    PROVE  /\ AggregateFee(p, fee, i) \in Nat
           /\ Fr(p, i) * AggregateFee(p, fee, i) <= Wad * fee
  <1> DEFINE d == Fr(p, i)
             all == ToRawRoundDown(fee, p.factors[i], p.rates[i])
             t == MulDown(all, p.aggregateFee)
  <1>1. d \in Nat /\ Wad \in Nat \ {0} /\ Wad * fee \in Nat /\ d * 0 = 0
    BY WadAssumption, MulNat DEF Fr, Positive
  <1>2. all \in Nat /\ d * all <= Wad * fee
    BY ToRawDownBounds DEF Fr
  <1> HIDE DEF d, all
  <1>3. t \in Nat /\ t <= all
    <2>1. p.aggregateFee \in Nat /\ p.aggregateFee <= Wad
      BY <1>1
    <2>2. t \in Nat /\ Wad * t <= all * p.aggregateFee
      BY <1>2, <2>1, MulDownBounds
    <2>3. all * p.aggregateFee <= all * Wad
      BY <1>1, <1>2, <2>1, MulMonotone
    <2> HIDE DEF t
    <2>4. Wad * t \in Int /\ all * Wad = Wad * all /\ Wad * all \in Int /\ all * p.aggregateFee \in Int
      BY <1>1, <1>2, <2>1, <2>2
    <2>5. Wad * t < Wad * all + Wad
      BY <1>1, <2>2, <2>3, <2>4
    <2> QED
      BY <1>1, <1>2, <2>2, <2>5, MulCancel
  <1> HIDE DEF t
  <1>4. d * t <= Wad * fee
    <2>1. d * t <= d * all /\ d * t \in Int /\ d * all \in Int
      BY <1>1, <1>2, <1>3, MulMonotone
    <2> QED
      BY <1>1, <1>2, <2>1
  <1>5. AggregateFee(p, fee, i) = t \/ AggregateFee(p, fee, i) = 0
    BY DEF AggregateFee, t, all
  <1> QED
    BY <1>1, <1>3, <1>4, <1>5 DEF d

\* What is worth n units more raw is n units more scaled.
LEMMA ScaledGain ==
    ASSUME NEW x \in Nat, NEW y \in Nat, NEW n \in Int, NEW f \in Positive, NEW r \in Positive,
           (f * r) * x + Wad * n <= (f * r) * y
    PROVE  ToScaledRoundDown(x, f, r) + n <= ToScaledRoundDown(y, f, r)
  <1> DEFINE s == ToScaledRoundDown(x, f, r)
             t == ToScaledRoundDown(y, f, r)
             fx == (f * r) * x
             fy == (f * r) * y
  <1>1. s \in Nat /\ Wad * s <= fx /\ t \in Nat /\ fy < Wad * t + Wad
    BY ToScaledDownBounds
  <1>2. fx \in Int /\ fy \in Int /\ Wad \in Nat \ {0}
    BY WadAssumption DEF Positive
  <1>3. fx + Wad * n <= fy
    OBVIOUS
  <1> HIDE DEF s, t, fx, fy
  <1>4. Wad * (s + n) = Wad * s + Wad * n /\ Wad * s \in Int /\ Wad * n \in Int /\ Wad * t \in Int
    BY <1>1, <1>2
  <1>5. Wad * (s + n) < Wad * t + Wad
    BY <1>1, <1>2, <1>3, <1>4
  <1>6. s + n <= t
    BY <1>1, <1>2, <1>5, MulCancel
  <1> QED
    BY <1>6 DEF s, t

\* The pool is asked for a price with net units in or paid units out, and
\* answers with the other.
Asked(p, in, out, net, paid) ==
    \/ OnSwap(p, "GivenIn", in, out, net) = paid
    \/ OnSwap(p, "GivenOut", in, out, paid) = net

\* Raw amounts r.in, of which r.fee leaves, against r.out: the pool keeps what
\* is worth net units or more, and pays what is worth paid units or less.
Books(p, in, out, r, net, paid) ==
    /\ r.in \in Nat /\ r.out \in Nat /\ r.fee \in Nat
    /\ Wad * net + Fr(p, in) * r.fee <= Fr(p, in) * r.in
    /\ Fr(p, out) * r.out <= Wad * paid

\* The pools whose swaps SwapBooksPrice speaks of.
Answers(p, in, out) ==
    /\ p.factors[in] \in Positive /\ p.rates[in] \in Positive
    /\ p.factors[out] \in Positive /\ p.rates[out] \in Positive
    /\ p.aggregateFee \in 0..Wad
    /\ \A kind \in Kinds, n \in Nat :
           /\ OnSwap(p, kind, in, out, n) \in Int \cup {Thrown}
           /\ SwapFee(p, kind, in, out, n) \in 0..(Wad - 1) \cup {Thrown}

LEMMA GivenInBooksPrice ==
    ASSUME NEW p, NEW in, NEW out, NEW amount \in Nat, Answers(p, in, out),
           SwapGivenIn(p, in, out, amount) # Thrown
    PROVE  \E net, paid \in Positive :
               Asked(p, in, out, net, paid)
               /\ Books(p, in, out, SwapGivenIn(p, in, out, amount), net, paid)
  <1> DEFINE given == GivenScaled(p, "GivenIn", in, out, amount)
             rate == SwapFee(p, "GivenIn", in, out, given)
             fee == MulUp(given, rate)
             net == given - fee
             paid == OnSwap(p, "GivenIn", in, out, net)
             taken == AggregateFee(p, fee, in)
             back == ToRawRoundDown(paid, p.factors[out], RateRoundUp(p.rates[out]))
             r == [in |-> amount, out |-> back, fee |-> taken,
                   after |-> AfterSwap(p, in, out, given, taken, paid)]
  <1>0. Wad \in Nat \ {0} /\ MinimumTrade \in Nat \ {0}
    BY WadAssumption, TradeAssumption
  <1>1. given \in Nat /\ Wad * given <= Fr(p, in) * amount
    BY ToScaledDownBounds DEF GivenScaled, Fr, Answers
  <1>2. /\ rate # Thrown /\ ~(net < MinimumTrade) /\ paid # Thrown /\ ~(paid < MinimumTrade)
        /\ SwapGivenIn(p, in, out, amount) = r
    BY DEF SwapGivenIn, SwapOfNet, Then
  <1> HIDE DEF given
  <1>3. rate \in Nat
    <2>1. rate \in 0..(Wad - 1) \cup {Thrown}
      BY <1>1 DEF Answers, Kinds
    <2> QED
      BY <1>0, <1>2, <2>1
  <1> HIDE DEF rate
  <1>4. fee \in Nat
    BY <1>1, <1>3, MulUpBounds
  <1> HIDE DEF fee
  <1>5. net \in Positive
    BY <1>0, <1>1, <1>2, <1>4 DEF Positive
  <1>6. paid \in Positive
    <2>1. net \in Nat /\ "GivenIn" \in Kinds
      BY <1>5 DEF Positive, Kinds
    <2>2. paid \in Int \cup {Thrown}
      BY <2>1 DEF Answers
    <2> QED
      BY <1>0, <1>2, <2>2 DEF Positive
  <1>7. taken \in Nat /\ Fr(p, in) * taken <= Wad * fee
    BY <1>4, AggregateFeeBounds DEF Answers
  <1>8. back \in Nat /\ Fr(p, out) * back <= Wad * paid
    <2> DEFINE up == RateRoundUp(p.rates[out])
               f == p.factors[out]
               low == p.rates[out]
    <2>1. f \in Positive /\ up \in Positive /\ low \in Positive /\ low <= up /\ paid \in Nat
      BY <1>6, RateUpCovers DEF Answers, Positive
    <2> HIDE DEF up, paid
    <2>2. back = ToRawRoundDown(paid, f, up)
      BY DEF up
    <2> HIDE DEF back, f, low
    <2>3. back \in Nat /\ (f * up) * back <= Wad * paid
      BY <2>1, <2>2, ToRawDownBounds
    <2>4. (f * low) * back <= (f * up) * back
      <3>1. f * back \in Nat /\ (f * low) * back = (f * back) * low /\ (f * up) * back = (f * back) * up
        BY <2>1, <2>3 DEF Positive
      <3>2. low \in Int /\ up \in Int
        BY <2>1 DEF Positive
      <3> QED
        BY <2>1, <3>1, <3>2, MulMonotone
    <2>5. (f * low) * back \in Int /\ (f * up) * back \in Int /\ Wad * paid \in Int
      BY <1>0, <2>1, <2>3 DEF Positive
    <2>6. (f * low) * back <= Wad * paid
      BY <2>3, <2>4, <2>5
    <2> QED
      BY <2>3, <2>6 DEF Fr, f, low
  <1>9. Wad * net + Fr(p, in) * taken <= Fr(p, in) * amount
    <2> DEFINE d == Fr(p, in)
    <2>1. d \in Nat
      BY DEF Answers, Fr, Positive
    <2> HIDE DEF d, taken
    <2>2. /\ Wad * (given - fee) = Wad * given - Wad * fee
          /\ Wad * given \in Int /\ Wad * fee \in Int /\ d * taken \in Int /\ d * amount \in Int
      BY <1>0, <1>1, <1>4, <1>7, <2>1
    <2>3. d * taken <= Wad * fee /\ Wad * given <= d * amount
      BY <1>1, <1>7 DEF d
    <2>4. Wad * (given - fee) + d * taken <= d * amount
      BY <2>2, <2>3
    <2> QED
      BY <2>4 DEF d
  <1>10. Asked(p, in, out, net, paid)
    BY DEF Asked
  <1> HIDE DEF net, paid, taken, back
  <1>11. Books(p, in, out, r, net, paid)
    BY <1>7, <1>8, <1>9 DEF Books
  <1> QED
    BY <1>2, <1>5, <1>6, <1>10, <1>11

LEMMA GivenOutBooksPrice ==
    ASSUME NEW p, NEW in, NEW out, NEW amount \in Nat, Answers(p, in, out),
           SwapGivenOut(p, in, out, amount) # Thrown
    PROVE  \E net, paid \in Positive :
               Asked(p, in, out, net, paid)
               /\ Books(p, in, out, SwapGivenOut(p, in, out, amount), net, paid)
  <1> DEFINE paid == GivenScaled(p, "GivenOut", in, out, amount)
             rate == SwapFee(p, "GivenOut", in, out, paid)
             net == OnSwap(p, "GivenOut", in, out, paid)
             fee == MulDivUp(net, rate, Complement(rate))
             taken == AggregateFee(p, fee, in)
             whole == ToRawRoundUp(net + fee, p.factors[in], p.rates[in])
             r == [in |-> whole, out |-> amount, fee |-> taken,
                   after |-> AfterSwap(p, in, out, net + fee, taken, paid)]
  <1>0. Wad \in Nat \ {0} /\ MinimumTrade \in Nat \ {0}
    BY WadAssumption, TradeAssumption
  <1>1. paid \in Nat /\ Fr(p, out) * amount <= Wad * paid
    <2> DEFINE up == RateRoundUp(p.rates[out])
               f == p.factors[out]
               low == p.rates[out]
    <2>1. f \in Positive /\ up \in Positive /\ low \in Positive /\ low <= up
      BY RateUpCovers DEF Answers
    <2> HIDE DEF up
    <2>2. paid = ToScaledRoundUp(amount, f, up)
      BY DEF up, GivenScaled
    <2> HIDE DEF paid, f, low
    <2>3. paid \in Nat /\ (f * up) * amount <= Wad * paid
      BY <2>1, <2>2, ToScaledUpBounds
    <2>4. (f * low) * amount <= (f * up) * amount
      <3>1. f * amount \in Nat /\ (f * low) * amount = (f * amount) * low
            /\ (f * up) * amount = (f * amount) * up
        BY <2>1 DEF Positive
      <3>2. low \in Int /\ up \in Int
        BY <2>1 DEF Positive
      <3> QED
        BY <2>1, <3>1, <3>2, MulMonotone
    <2>5. (f * low) * amount \in Int /\ (f * up) * amount \in Int /\ Wad * paid \in Int
      BY <1>0, <2>1, <2>3 DEF Positive
    <2>6. (f * low) * amount <= Wad * paid
      BY <2>3, <2>4, <2>5
    <2> QED
      BY <2>3, <2>6 DEF Fr, f, low
  <1>2. /\ rate # Thrown /\ ~(paid < MinimumTrade) /\ net # Thrown /\ ~(net < MinimumTrade)
        /\ SwapGivenOut(p, in, out, amount) = r
    BY DEF SwapGivenOut, SwapForNet, Then
  <1> HIDE DEF paid
  <1>3. rate \in Nat /\ Complement(rate) \in Nat \ {0}
    <2>1. rate \in 0..(Wad - 1) \cup {Thrown}
      BY <1>1 DEF Answers, Kinds
    <2> QED
      BY <1>0, <1>2, <2>1 DEF Complement
  <1> HIDE DEF rate
  <1>4. paid \in Positive
    BY <1>0, <1>1, <1>2 DEF Positive
  <1>5. net \in Positive
    <2>1. net \in Int \cup {Thrown}
      BY <1>1 DEF Answers, Kinds
    <2> QED
      BY <1>0, <1>2, <2>1 DEF Positive
  <1>6. Asked(p, in, out, net, paid)
    BY DEF Asked
  <1> HIDE DEF net
  <1>7. fee \in Nat
    <2>1. net * rate \in Nat
      BY <1>3, <1>5, MulNat DEF Positive
    <2>2. CASE net * rate = 0
      BY <2>2 DEF MulDivUp
    <2>3. CASE net * rate # 0
      BY <1>3, <2>1, <2>3, QuotUp DEF MulDivUp
    <2> QED
      BY <2>2, <2>3
  <1> HIDE DEF fee
  <1>8. taken \in Nat /\ Fr(p, in) * taken <= Wad * fee
    BY <1>7, AggregateFeeBounds DEF Answers
  <1>9. whole \in Nat /\ Wad * (net + fee) <= Fr(p, in) * whole
    <2>1. net + fee \in Nat
      BY <1>5, <1>7 DEF Positive
    <2> QED
      BY <2>1, ToRawUpBounds DEF Answers, Fr
  <1>10. Wad * net + Fr(p, in) * taken <= Fr(p, in) * whole
    <2> DEFINE d == Fr(p, in)
    <2>1. d \in Nat /\ net \in Nat
      BY <1>5 DEF Answers, Fr, Positive
    <2> HIDE DEF d, taken, whole
    <2>2. /\ Wad * (net + fee) = Wad * net + Wad * fee
          /\ Wad * net \in Int /\ Wad * fee \in Int /\ d * taken \in Int /\ d * whole \in Int
      BY <1>0, <1>7, <1>8, <1>9, <2>1
    <2>3. d * taken <= Wad * fee /\ Wad * (net + fee) <= d * whole
      BY <1>8, <1>9 DEF d
    <2>4. Wad * net + d * taken <= d * whole
      BY <2>2, <2>3
    <2> QED
      BY <2>4 DEF d
  <1> HIDE DEF taken, whole
  <1>11. Books(p, in, out, r, net, paid)
    BY <1>1, <1>8, <1>9, <1>10 DEF Books
  <1> QED
    BY <1>2, <1>4, <1>5, <1>6, <1>11

\* Whatever the class of a pool answers, of whatever decimals and rates and for
\* either kind of swap, the raw amounts the Vault books give the pool what
\* is worth the answer after fees and cost it no more: no rounding on the way
\* is in the trader's favour.
THEOREM SwapBooksPrice ==
    ASSUME NEW p, NEW kind \in Kinds, NEW in, NEW out, NEW amount \in Nat,
           Answers(p, in, out), VaultSwap(p, kind, in, out, amount) # Thrown
    PROVE  \E net, paid \in Positive :
               Asked(p, in, out, net, paid)
               /\ Books(p, in, out, VaultSwap(p, kind, in, out, amount), net, paid)
  <1>1. CASE kind = "GivenIn"
    BY <1>1, GivenInBooksPrice DEF VaultSwap
  <1>2. CASE kind # "GivenIn"
    BY <1>2, GivenOutBooksPrice DEF VaultSwap
  <1> QED
    BY <1>1, <1>2

-----------------------------------------------------------------------------
(* Prices in closed form never lower the worth *)

\* After a swap of net units in against paid units out.
Swapped(b, c, in, out, net, paid) == b[in] + net <= c[in] /\ b[out] - paid <= c[out]

\* A unit of the token in is worth wi, one of the token out wo.
LEMMA LinearPrice ==
    ASSUME NEW wi \in Nat, NEW wo \in Nat, NEW bi \in Nat, NEW bo \in Nat, NEW ci \in Nat,
           NEW co \in Nat, NEW net \in Nat, NEW paid \in Nat,
           wo * paid <= wi * net, bi + net <= ci, bo - paid <= co
    PROVE  wi * bi + wo * bo <= wi * ci + wo * co
  <1>1. wi * (bi + net) <= wi * ci /\ wo * (bo - paid) <= wo * co
    BY MulMonotone
  <1>2. wi * (bi + net) = wi * bi + wi * net /\ wo * (bo - paid) = wo * bo - wo * paid
    OBVIOUS
  <1>3. /\ wi * bi \in Int /\ wi * net \in Int /\ wi * ci \in Int
        /\ wo * bo \in Int /\ wo * paid \in Int /\ wo * co \in Int
    OBVIOUS
  <1> QED
    BY <1>1, <1>2, <1>3

\* Products are in the order of their factors.
LEMMA ProductMonotone ==
    ASSUME NEW x \in Nat, NEW y \in Nat, NEW a \in Nat, NEW b \in Nat, x <= a, y <= b
    PROVE  x * y <= a * b
  <1>1. x * y <= x * b /\ b * x <= b * a
    BY MulMonotone
  <1>2. x * y \in Int /\ x * b \in Int /\ b * x = x * b /\ b * a = a * b /\ a * b \in Int
    OBVIOUS
  <1> QED
    BY <1>1, <1>2

\* Balances x in and y out on a curve of a constant product.
LEMMA ProductPrice ==
    ASSUME NEW x \in Nat, NEW y \in Nat, NEW a \in Nat, NEW b \in Nat,
           NEW net \in Nat, NEW paid \in Nat,
           (x + net) * paid <= y * net, paid <= y, x + net <= a, y - paid <= b
    PROVE  x * y <= a * b
  <1>1. (x + net) * (y - paid) <= a * b
    BY ProductMonotone
  <1>2. (x + net) * (y - paid) = x * y + y * net - (x + net) * paid
    OBVIOUS
  <1>3. x * y \in Int /\ y * net \in Int /\ (x + net) * paid \in Int /\ a * b \in Int
    OBVIOUS
  <1> HIDE DEF Positive
  <1> QED
    BY <1>1, <1>2, <1>3

-----------------------------------------------------------------------------
(* Class by class: what OnSwap answers is within the worth *)

LEMMA SumPrice ==
    ASSUME NEW p, SumTerms(p), NEW in \in 1..2, NEW out \in 1..2, in # out,
           NEW net \in Positive, NEW paid \in Positive, Asked(p, in, out, net, paid)
    PROVE  IF in = 1 THEN Wad * paid <= p.rate * net ELSE p.rate * paid <= Wad * net
  <1>1. Wad \in Nat \ {0} /\ p.rate \in Nat \ {0} /\ net \in Nat /\ paid \in Nat
    BY WadAssumption DEF SumTerms, Positive
  <1>2. /\ net * p.rate = p.rate * net /\ paid * p.rate = p.rate * paid
        /\ net * Wad = Wad * net /\ paid * Wad = Wad * paid
    BY <1>1
  <1>3. CASE OnSwap(p, "GivenIn", in, out, net) = paid
    <2>1. paid = IF in = 1 THEN MulDown(net, p.rate) ELSE DivDown(net, p.rate)
      BY <1>3 DEF OnSwap, SumOnSwap, SumTerms
    <2>2. in = 1 => Wad * paid <= net * p.rate
      BY <1>1, <2>1, MulDownBounds
    <2>3. in # 1 => p.rate * paid <= net * Wad
      BY <1>1, <2>1, DivDownBounds
    <2> QED
      BY <1>2, <2>2, <2>3
  <1>4. CASE OnSwap(p, "GivenOut", in, out, paid) = net
    <2>1. net = IF in = 1 THEN DivUpFixed(paid, p.rate) ELSE MulUp(paid, p.rate)
      BY <1>4 DEF OnSwap, SumOnSwap, SumTerms
    <2>2. in = 1 => paid * Wad <= p.rate * net
      BY <1>1, <2>1, DivUpFixedBounds
    <2>3. in # 1 => paid * p.rate <= Wad * net
      BY <1>1, <2>1, MulUpBounds
    <2> QED
      BY <1>2, <2>2, <2>3
  <1> QED
    BY <1>3, <1>4 DEF Asked

LEMMA FixedPrice ==
    ASSUME NEW p, FixedTerms(p), NEW in \in 1..2, NEW out \in 1..2, in # out,
           NEW net \in Positive, NEW paid \in Positive, Asked(p, in, out, net, paid)
    PROVE  in = 3 - p.project /\ out = p.project /\ p.rate * paid <= Wad * net
  <1>1. Wad \in Nat \ {0} /\ p.rate \in Nat \ {0} /\ net \in Nat /\ paid \in Nat
        /\ p.project \in 1..2
    BY WadAssumption DEF FixedTerms, Positive
  <1>2. net * Wad = Wad * net /\ paid * p.rate = p.rate * paid
    BY <1>1
  <1>3. net # Thrown /\ paid # Thrown
    BY <1>1, ThrownAssumption
  <1>4. CASE OnSwap(p, "GivenIn", in, out, net) = paid
    <2>1. in # p.project /\ paid = DivDown(net, p.rate)
      BY <1>3, <1>4 DEF OnSwap, FixedOnSwap, FixedTerms
    <2>2. p.rate * paid <= net * Wad
      BY <1>1, <2>1, DivDownBounds
    <2> QED
      BY <1>1, <1>2, <2>1, <2>2
  <1>5. CASE OnSwap(p, "GivenOut", in, out, paid) = net
    <2>1. in # p.project /\ net = MulUp(paid, p.rate)
      BY <1>3, <1>5 DEF OnSwap, FixedOnSwap, FixedTerms
    <2>2. paid * p.rate <= Wad * net
      BY <1>1, <2>1, MulUpBounds
    <2> QED
      BY <1>1, <1>2, <2>1, <2>2
  <1> QED
    BY <1>4, <1>5 DEF Asked

\* A quotient of products rounded up.
LEMMA MulDivUpBounds ==
    ASSUME NEW a \in Nat, NEW b \in Nat, NEW d \in Nat \ {0}
    PROVE  MulDivUp(a, b, d) \in Nat /\ a * b <= d * MulDivUp(a, b, d)
  <1> DEFINE n == a * b
  <1>1. n \in Nat
    BY MulNat
  <1>2. CASE n = 0
    BY <1>2 DEF MulDivUp
  <1>3. CASE n # 0
    <2>1. n \in Nat \ {0} /\ MulDivUp(a, b, d) = Quot(n - 1, d) + 1
      BY <1>1, <1>3 DEF MulDivUp
    <2> HIDE DEF n
    <2>2. Quot(n - 1, d) + 1 \in Nat /\ n <= d * (Quot(n - 1, d) + 1)
      BY <2>1, QuotUp
    <2> QED
      BY <2>1, <2>2 DEF n
  <1> QED
    BY <1>2, <1>3

PositivePair(v) == v[1] \in Positive /\ v[2] \in Positive

LEMMA ReClammPrice ==
    ASSUME NEW p, ReClammTerms(p), p.live \in Pairs(Nat),
           Virtual(p) # Thrown, PositivePair(Virtual(p)),
           NEW in \in 1..2, NEW out \in 1..2, in # out,
           NEW net \in Positive, NEW paid \in Positive, Asked(p, in, out, net, paid),
           NEW x, x = p.live[in] + Virtual(p)[in], NEW y, y = p.live[out] + Virtual(p)[out]
    PROVE  x \in Nat /\ y \in Nat /\ paid <= y /\ (x + net) * paid <= y * net
  <1> DEFINE v == Virtual(p)
             b == p.live
  <1>1. /\ b[in] \in Nat /\ b[out] \in Nat /\ v[in] \in Positive /\ v[out] \in Positive
        /\ net \in Nat /\ paid \in Nat
    BY DEF Pairs, PositivePair, Positive
  <1>2. net # Thrown /\ paid # Thrown
    BY <1>1, ThrownAssumption
  <1>3. x = b[in] + v[in] /\ y = b[out] + v[out]
    OBVIOUS
  <1>4. /\ OnSwap(p, "GivenIn", in, out, net) = OutGivenIn(b, v, in, out, net)
        /\ OnSwap(p, "GivenOut", in, out, paid) = InGivenOut(b, v, in, out, paid)
    BY DEF OnSwap, ReClammOnSwap, Then, ReClammTerms, Virtual
  <1> HIDE DEF v, b
  <1>5. x \in Nat /\ y \in Nat /\ b[out] < y
    BY <1>1, <1>3 DEF Positive
  <1>6. CASE OnSwap(p, "GivenIn", in, out, net) = paid
    <2>1. paid = Quot(y * net, x + net) /\ ~(paid > b[out])
      BY <1>2, <1>3, <1>4, <1>6 DEF OutGivenIn
    <2>2. y * net \in Nat /\ x + net \in Nat \ {0}
      BY <1>1, <1>5, MulNat DEF Positive
    <2>3. (x + net) * paid <= y * net
      BY <2>1, <2>2, QuotNat
    <2> QED
      BY <1>1, <1>5, <2>1, <2>3
  <1>7. CASE OnSwap(p, "GivenOut", in, out, paid) = net
    <2>1. ~(paid > b[out]) /\ net = MulDivUp(x, paid, y - paid)
      <3>1. ~(paid > b[out]) /\ net = MulDivUp(b[in] + v[in], paid, b[out] + v[out] - paid)
        BY <1>2, <1>4, <1>7 DEF InGivenOut
      <3>2. b[in] + v[in] = x /\ b[out] + v[out] - paid = y - paid
        BY <1>1, <1>3 DEF Positive
      <3> QED
        BY <3>1, <3>2
    <2>2. y - paid \in Nat \ {0}
      BY <1>1, <1>5, <2>1
    <2>3. x * paid <= (y - paid) * net
      BY <1>1, <1>5, <2>1, <2>2, MulDivUpBounds
    <2>4. /\ (y - paid) * net = y * net - net * paid /\ (x + net) * paid = x * paid + net * paid
          /\ y * net \in Int /\ net * paid \in Int /\ x * paid \in Int
      BY <1>1, <1>5
    <2>5. (x + net) * paid <= y * net
      BY <2>3, <2>4
    <2> QED
      BY <1>1, <1>5, <2>1, <2>5
  <1> QED
    BY <1>6, <1>7 DEF Asked

\* At equal weights the exponents of both prices are one.
LEMMA EqualRatio ==
    ASSUME NEW h \in Positive
    PROVE  DivDown(h, h) = Wad /\ DivUpFixed(h, h) = Wad
  <1> DEFINE q == DivDown(h, h)
             u == DivUpFixed(h, h)
  <1>1. h \in Nat \ {0} /\ Wad \in Nat \ {0} /\ h * Wad \in Nat
    BY WadAssumption, MulNat DEF Positive
  <1>2. q \in Nat /\ h * q <= h * Wad /\ h * Wad < h * q + h
    <2>1. q = Quot(h * Wad, h)
      BY <1>1 DEF DivDown
    <2> HIDE DEF q
    <2> QED
      BY <1>1, <2>1, QuotNat
  <1>3. u \in Nat /\ h * Wad <= h * u /\ h * u < h * Wad + h
    BY <1>1, DivUpFixedBounds
  <1> HIDE DEF q, u
  <1>4. h * q \in Int /\ h * u \in Int
    BY <1>1, <1>2, <1>3
  <1>5. q <= Wad /\ Wad <= q
    <2>1. h * q < h * Wad + h
      BY <1>1, <1>2, <1>4
    <2> QED
      BY <1>1, <1>2, <2>1, MulCancel
  <1>6. u <= Wad /\ Wad <= u
    <2>1. h * Wad < h * u + h
      BY <1>1, <1>3, <1>4
    <2> QED
      BY <1>1, <1>3, <2>1, MulCancel
  <1>7. q = Wad /\ u = Wad
    BY <1>1, <1>2, <1>3, <1>5, <1>6
  <1> QED
    BY <1>7 DEF q, u

\* The curve of two equal weights, given the amount in: x and y are the
\* balances in and out, z the one the price is computed with.
LEMMA EqualOutPrice ==
    ASSUME NEW z \in Nat, NEW y \in Nat, NEW net \in Positive, NEW q, NEW paid,
           q = DivUpFixed(z, z + net), paid = MulDown(y, Complement(q))
    PROVE  paid \in Nat /\ paid <= y /\ (z + net) * paid <= y * net
  <1> DEFINE c == Complement(q)
             k == z + net
  <1>1. Wad \in Nat \ {0} /\ net \in Nat /\ k \in Nat \ {0}
    BY WadAssumption DEF Positive
  <1> HIDE DEF k
  <1>2. q \in Nat /\ z * Wad <= k * q
    BY <1>1, DivUpFixedBounds DEF k
  <1>3. c \in Nat /\ c <= Wad /\ k * c <= net * Wad
    <2>1. c = IF q < Wad THEN Wad - q ELSE 0
      BY DEF Complement
    <2> HIDE DEF c
    <2>2. CASE q < Wad
      <3>1. k * (Wad - q) = k * Wad - k * q /\ k * Wad = z * Wad + net * Wad
        BY <1>1, <1>2 DEF k
      <3>2. k * Wad \in Int /\ k * q \in Int /\ z * Wad \in Int /\ net * Wad \in Int
        BY <1>1, <1>2
      <3>3. k * (Wad - q) <= net * Wad
        BY <1>2, <3>1, <3>2
      <3> QED
        BY <1>1, <1>2, <2>1, <2>2, <3>3
    <2>3. CASE ~(q < Wad)
      <3>1. c = 0 /\ k * c = 0 /\ net * Wad \in Nat
        BY <1>1, <2>1, <2>3, MulNat
      <3> QED
        BY <1>1, <3>1
    <2> QED
      BY <2>2, <2>3
  <1> HIDE DEF c
  <1>4. paid \in Nat /\ Wad * paid <= y * c
    BY <1>3, MulDownBounds DEF c
  <1>5. paid <= y
    <2>1. y * c <= y * Wad
      BY <1>1, <1>3, MulMonotone
    <2>2. y * Wad = Wad * y /\ Wad * y \in Int /\ y * c \in Int /\ Wad * paid \in Int
      BY <1>1, <1>3, <1>4
    <2>3. Wad * paid < Wad * y + Wad
      BY <1>1, <1>4, <2>1, <2>2
    <2> QED
      BY <1>1, <1>4, <2>3, MulCancel
  <1>6. k * paid <= y * net
    <2> DEFINE l == k * paid
               r == y * net
    <2>1. k * (Wad * paid) <= k * (y * c)
      <3>1. Wad * paid \in Int /\ y * c \in Int
        BY <1>1, <1>3, <1>4
      <3> QED
        BY <1>1, <1>4, <3>1, MulMonotone
    <2>2. y * (k * c) <= y * (net * Wad)
      <3>1. k * c \in Int /\ net * Wad \in Int
        BY <1>1, <1>3
      <3> QED
        BY <1>1, <1>3, <3>1, MulMonotone
    <2>3. l \in Nat /\ r \in Nat
      BY <1>1, <1>4, MulNat
    <2>4. /\ k * (Wad * paid) = Wad * l /\ k * (y * c) = y * (k * c) /\ y * (net * Wad) = Wad * r
          /\ k * (y * c) \in Int
      BY <1>1, <1>3, <1>4
    <2> HIDE DEF l, r
    <2>5. Wad * l \in Int /\ Wad * r \in Int
      BY <1>1, <2>3
    <2>6. Wad * l < Wad * r + Wad
      BY <1>1, <2>1, <2>2, <2>4, <2>5
    <2>7. l <= r
      BY <1>1, <2>3, <2>6, MulCancel
    <2> QED
      BY <2>7 DEF l, r
  <1> QED
    BY <1>4, <1>5, <1>6 DEF k

\* Given the amount out.
LEMMA EqualInPrice ==
    ASSUME NEW z \in Nat, NEW y \in Nat, NEW paid \in Positive, paid < y, NEW q, NEW net,
           q = DivUpFixed(y, y - paid), net = MulUp(z, q - Wad)
    PROVE  net \in Nat /\ (z + net) * paid <= y * net
  <1> DEFINE k == y - paid
             e == q - Wad
  <1>1. Wad \in Nat \ {0} /\ paid \in Nat /\ k \in Nat \ {0} /\ y = k + paid
    BY WadAssumption DEF Positive
  <1> HIDE DEF k
  <1>2. q \in Nat /\ y * Wad <= k * q
    BY <1>1, DivUpFixedBounds DEF k
  <1>3. Wad <= q
    <2>1. y * Wad = k * Wad + paid * Wad /\ k * Wad \in Int /\ paid * Wad \in Nat /\ k * q \in Int
      BY <1>1, <1>2, MulNat
    <2>2. k * Wad < k * q + k
      BY <1>1, <1>2, <2>1
    <2> QED
      BY <1>1, <1>2, <2>2, MulCancel
  <1>4. e \in Nat /\ paid * Wad <= k * e
    <2>1. k * (q - Wad) = k * q - k * Wad /\ y * Wad = k * Wad + paid * Wad
      BY <1>1, <1>2
    <2>2. k * Wad \in Int /\ paid * Wad \in Int /\ k * q \in Int
      BY <1>1, <1>2
    <2> QED
      BY <1>1, <1>2, <1>3, <2>1, <2>2
  <1> HIDE DEF e
  <1>5. net \in Nat /\ z * e <= Wad * net
    BY <1>4, MulUpBounds DEF e
  <1>6. z * paid <= k * net
    <2> DEFINE l == z * paid
               r == k * net
    <2>1. z * (paid * Wad) <= z * (k * e)
      <3>1. paid * Wad \in Int /\ k * e \in Int
        BY <1>1, <1>4
      <3> QED
        BY <1>4, <3>1, MulMonotone
    <2>2. k * (z * e) <= k * (Wad * net)
      <3>1. z * e \in Int /\ Wad * net \in Int
        BY <1>1, <1>4, <1>5
      <3> QED
        BY <1>1, <1>5, <3>1, MulMonotone
    <2>3. l \in Nat /\ r \in Nat
      BY <1>1, <1>5, MulNat
    <2>4. /\ z * (paid * Wad) = Wad * l /\ z * (k * e) = k * (z * e) /\ k * (Wad * net) = Wad * r
          /\ k * (z * e) \in Int
      BY <1>1, <1>4, <1>5
    <2> HIDE DEF l, r
    <2>5. Wad * l \in Int /\ Wad * r \in Int
      BY <1>1, <2>3
    <2>6. Wad * l < Wad * r + Wad
      BY <1>1, <2>1, <2>2, <2>4, <2>5
    <2>7. l <= r
      BY <1>1, <2>3, <2>6, MulCancel
    <2> QED
      BY <2>7 DEF l, r
  <1>7. /\ (z + net) * paid = z * paid + net * paid /\ y * net = k * net + net * paid
        /\ z * paid \in Int /\ net * paid \in Int /\ k * net \in Int
    BY <1>1, <1>5
  <1> QED
    BY <1>5, <1>6, <1>7

\* A weighted pool of 50/50 prices a swap by a constant product; what it pays
\* leaves the token out its minimum balance.
LEMMA EqualSwap ==
    ASSUME NEW p, EqualTerms(p), p.live \in Pairs(Nat),
           NEW in \in 1..2, NEW out \in 1..2, in # out, NEW n \in Nat
    PROVE  LET x == p.live[in]
               y == p.live[out]
               paid == OnSwap(p, "GivenIn", in, out, n)
               net == OnSwap(p, "GivenOut", in, out, n)
           IN /\ paid = Thrown \/ n = 0 \/ (paid \in Nat /\ paid < y /\ (x + n) * paid <= y * n)
              /\ net = Thrown \/ n = 0 \/ (net \in Nat /\ n < y /\ (x + net) * n <= y * net)
              /\ paid \in Nat \cup {Thrown}
              /\ net \in Int \cup {Thrown}
  <1> DEFINE x == p.live[in]
             y == p.live[out]
             z == x + 1
             h == p.weights[in]
             q == DivUpFixed(z, z + n)
             e == DivUpFixed(y, y - n)
             bought == MulDown(y, Complement(q))
             cost == MulUp(z, e - Wad)
             paid == OnSwap(p, "GivenIn", in, out, n)
             net == OnSwap(p, "GivenOut", in, out, n)
  <1>1. /\ x \in Nat /\ y \in Nat /\ z \in Nat /\ h \in Positive /\ h = p.weights[out]
        /\ p.minBalances[out] \in Nat \ {0} /\ Wad \in Nat \ {0}
    BY WadAssumption DEF EqualTerms, Pairs, Positive
  <1>2. DivDown(h, h) = Wad /\ DivUpFixed(h, h) = Wad
    BY <1>1, EqualRatio
  <1>3. PowUp(q, Wad) = q /\ PowUp(e, Wad) = e
    BY <1>1 DEF PowUp
  <1>4. paid = Thrown \/ (paid = bought /\ y - bought >= p.minBalances[out])
    <2>1. paid = WeightedOnSwap(p, "GivenIn", p.live, in, out, n)
      BY DEF OnSwap, EqualTerms
    <2>2. WeightedPrice(p.weights, "GivenIn", p.live, in, out, n)
            = WeightedOutGivenIn(z, h, y, h, n)
      BY <1>1 DEF WeightedPrice
    <2>3. WeightedOutGivenIn(z, h, y, h, n) \in {Thrown, bought}
      BY <1>2, <1>3 DEF WeightedOutGivenIn
    <2> HIDE DEF paid, bought
    <2>4. paid = Thrown \/ (paid = bought /\ ~(y - bought < p.minBalances[out]))
      BY <2>1, <2>2, <2>3 DEF WeightedOnSwap, BelowMinimum, Then
    <2>5. bought \in Int
      <3>1. z + n \in Nat \ {0}
        BY <1>1
      <3>2. q \in Nat
        BY <1>1, <3>1, DivUpFixedBounds
      <3>3. Complement(q) \in Nat
        <4> HIDE DEF q
        <4> QED
          BY <1>1, <3>2 DEF Complement
      <3> DEFINE k == Complement(q)
      <3>4. bought = MulDown(y, k) /\ k \in Nat
        BY <3>3 DEF bought
      <3> HIDE DEF k
      <3>5. MulDown(y, k) \in Nat
        BY <1>1, <3>4, MulDownBounds
      <3> QED
        BY <3>4, <3>5
    <2> QED
      BY <1>1, <2>4, <2>5
  <1>5. net = Thrown \/ (net = cost /\ y - n >= p.minBalances[out])
    <2>1. net = WeightedOnSwap(p, "GivenOut", p.live, in, out, n)
      BY DEF OnSwap, EqualTerms
    <2>2. WeightedPrice(p.weights, "GivenOut", p.live, in, out, n)
            = WeightedInGivenOut(z, h, y, h, n)
      BY <1>1 DEF WeightedPrice
    <2>3. WeightedInGivenOut(z, h, y, h, n) \in {Thrown, cost}
      BY <1>2, <1>3 DEF WeightedInGivenOut
    <2> HIDE DEF net, cost
    <2>4. net = Thrown \/ (net = cost /\ ~(y - n < p.minBalances[out]))
      BY <2>1, <2>2, <2>3 DEF WeightedOnSwap, BelowMinimum, Then
    <2> QED
      BY <1>1, <2>4
  <1> HIDE DEF paid, net
  <1>6. bought \in Nat
    <2>1. z + n \in Nat \ {0}
      BY <1>1
    <2>2. q \in Nat
      BY <1>1, <2>1, DivUpFixedBounds
    <2> HIDE DEF q
    <2>3. Complement(q) \in Nat
      BY <1>1, <2>2 DEF Complement
    <2> QED
      BY <1>1, <2>3, MulDownBounds
  <1>7. net # Thrown => cost \in Int
    <2> SUFFICES ASSUME net # Thrown PROVE cost \in Int
      OBVIOUS
    <2>1. y - n \in Nat \ {0}
      BY <1>1, <1>5
    <2>2. e \in Nat
      BY <1>1, <2>1, DivUpFixedBounds
    <2> HIDE DEF e
    <2>3. CASE z * (e - Wad) = 0
      BY <2>3 DEF MulUp
    <2>4. CASE z * (e - Wad) # 0
      <3> DEFINE g == z * (e - Wad) - 1
      <3>1. g \in Int /\ cost = Quot(g, Wad) + 1
        BY <1>1, <2>2, <2>4 DEF MulUp
      <3> HIDE DEF g, cost
      <3>2. Quot(g, Wad) \in Int
        BY <1>1, <3>1 DEF Quot, Abs
      <3> QED
        BY <3>1, <3>2
    <2> QED
      BY <2>3, <2>4
  <1>8. paid = Thrown \/ n = 0 \/ (paid \in Nat /\ paid < y /\ (x + n) * paid <= y * n)
    <2> SUFFICES ASSUME paid # Thrown, n # 0
                 PROVE  paid \in Nat /\ paid < y /\ (x + n) * paid <= y * n
      OBVIOUS
    <2>1. n \in Positive
      BY DEF Positive
    <2>2. bought \in Nat /\ bought <= y /\ (z + n) * bought <= y * n
      BY <1>1, <2>1, EqualOutPrice
    <2>3. paid = bought /\ y - bought >= p.minBalances[out]
      BY <1>4
    <2> HIDE DEF bought
    <2>4. (z + n) * bought = (x + n) * bought + bought /\ (x + n) * bought \in Int /\ y * n \in Int
      BY <1>1, <2>2
    <2>5. (x + n) * bought <= y * n
      BY <2>2, <2>4
    <2> QED
      BY <1>1, <2>2, <2>3, <2>5
  <1>9. net = Thrown \/ n = 0 \/ (net \in Nat /\ n < y /\ (x + net) * n <= y * net)
    <2> SUFFICES ASSUME net # Thrown, n # 0
                 PROVE  net \in Nat /\ n < y /\ (x + net) * n <= y * net
      OBVIOUS
    <2>1. n \in Positive /\ n < y /\ net = cost
      BY <1>1, <1>5 DEF Positive
    <2>2. cost \in Nat /\ (z + cost) * n <= y * cost
      BY <1>1, <2>1, EqualInPrice
    <2> HIDE DEF cost
    <2>3. (z + cost) * n = (x + cost) * n + n /\ (x + cost) * n \in Int /\ y * cost \in Int
      BY <1>1, <2>2
    <2>4. (x + cost) * n <= y * cost
      BY <2>2, <2>3
    <2> QED
      BY <2>1, <2>2, <2>4
  <1> HIDE DEF bought, cost
  <1>10. paid \in Nat \cup {Thrown} /\ net \in Int \cup {Thrown}
    BY <1>4, <1>5, <1>6, <1>7
  <1> QED
    BY <1>8, <1>9, <1>10 DEF paid, net

LEMMA EqualPrice ==
    ASSUME NEW p, EqualTerms(p), p.live \in Pairs(Nat),
           NEW in \in 1..2, NEW out \in 1..2, in # out,
           NEW net \in Positive, NEW paid \in Positive, Asked(p, in, out, net, paid),
           NEW x, x = p.live[in], NEW y, y = p.live[out]
    PROVE  x \in Nat /\ y \in Nat /\ paid < y /\ (x + net) * paid <= y * net
  <1>1. /\ x \in Nat /\ y \in Nat /\ net \in Nat \ {0} /\ paid \in Nat \ {0}
        /\ net # Thrown /\ paid # Thrown
    BY ThrownAssumption DEF Pairs, Positive
  <1>2. CASE OnSwap(p, "GivenIn", in, out, net) = paid
    BY <1>1, <1>2, EqualSwap
  <1>3. CASE OnSwap(p, "GivenOut", in, out, paid) = net
    BY <1>1, <1>3, EqualSwap
  <1> QED
    BY <1>1, <1>2, <1>3 DEF Asked

-----------------------------------------------------------------------------
(* All classes together *)

\* The virtual balances of a ReClamm pool are positive.
Priced(p) ==
    /\ ClosedTerms(p)
    /\ p.type = "ReClamm" => Virtual(p) # Thrown /\ PositivePair(Virtual(p))

\* The classes that swap.
Swaps(p) == Priced(p) /\ p.type # "Buffer" /\ p.live \in Pairs(Nat)

LEMMA TwoTokens ==
    ASSUME NEW i \in 1..2, NEW j \in 1..2, i # j
    PROVE  (i = 1 /\ j = 2) \/ (i = 2 /\ j = 1)
  OBVIOUS

LEMMA ClassOf ==
    ASSUME NEW p, Priced(p), p.type # "Buffer"
    PROVE  SumTerms(p) \/ FixedTerms(p) \/ ReClammTerms(p) \/ EqualTerms(p)
  BY DEF ClosedTerms, BufferTerms, Priced

\* No answer lowers the worth of the balances.
LEMMA PriceKeepsWorth ==
    ASSUME NEW p, Swaps(p), NEW in \in 1..2, NEW out \in 1..2, in # out,
           NEW net \in Positive, NEW paid \in Positive, Asked(p, in, out, net, paid),
           NEW c \in Pairs(Nat), Swapped(p.live, c, in, out, net, paid)
    PROVE  /\ Worth(p, Virtual(p), p.live) <= Worth(p, Virtual(p), c)
           /\ p.type = "Weighted" => \A i \in 1..2 : c[i] >= 1
  <1> DEFINE b == p.live
             v == Virtual(p)
  <1>1. /\ b \in Pairs(Nat) /\ b[1] \in Nat /\ b[2] \in Nat /\ c[1] \in Nat /\ c[2] \in Nat
        /\ b[in] \in Nat /\ b[out] \in Nat /\ c[in] \in Nat /\ c[out] \in Nat
        /\ net \in Nat /\ paid \in Nat /\ net >= 1
        /\ b[in] + net <= c[in] /\ b[out] - paid <= c[out]
        /\ Wad \in Nat
    BY WadAssumption DEF Swaps, Pairs, Positive, Swapped
  <1>2. (in = 1 /\ out = 2) \/ (in = 2 /\ out = 1)
    BY TwoTokens
  <1> HIDE DEF b, v
  <1>3. CASE SumTerms(p)
    <2>1. p.rate \in Nat /\ p.type = "Sum"
      BY <1>3 DEF SumTerms, Positive
    <2>2. IF in = 1 THEN Wad * paid <= p.rate * net ELSE p.rate * paid <= Wad * net
      BY <1>3, SumPrice
    <2>3. CASE in = 1
      <3>1. p.rate * b[1] + Wad * b[2] <= p.rate * c[1] + Wad * c[2]
        BY <1>1, <1>2, <2>1, <2>2, <2>3, LinearPrice
      <3> QED
        BY <2>1, <3>1 DEF Worth, b
    <2>4. CASE in # 1
      <3>1. Wad * b[2] + p.rate * b[1] <= Wad * c[2] + p.rate * c[1]
        BY <1>1, <1>2, <2>1, <2>2, <2>4, LinearPrice
      <3>2. /\ Wad * b[2] \in Int /\ p.rate * b[1] \in Int
            /\ Wad * c[2] \in Int /\ p.rate * c[1] \in Int
        BY <1>1, <2>1
      <3>3. p.rate * b[1] + Wad * b[2] <= p.rate * c[1] + Wad * c[2]
        BY <3>1, <3>2
      <3> QED
        BY <2>1, <3>3 DEF Worth, b
    <2> QED
      BY <2>1, <2>3, <2>4
  <1>4. CASE FixedTerms(p)
    <2>1. p.rate \in Nat /\ p.type = "FixedLBP"
      BY <1>4 DEF FixedTerms, Positive
    <2>2. in = 3 - p.project /\ out = p.project /\ p.rate * paid <= Wad * net
      BY <1>4, FixedPrice
    <2>3. Wad * b[in] + p.rate * b[out] <= Wad * c[in] + p.rate * c[out]
      BY <1>1, <2>1, <2>2, LinearPrice
    <2>4. /\ Wad * b[in] \in Int /\ p.rate * b[out] \in Int
          /\ Wad * c[in] \in Int /\ p.rate * c[out] \in Int
      BY <1>1, <2>1
    <2>5. p.rate * b[out] + Wad * b[in] <= p.rate * c[out] + Wad * c[in]
      BY <2>3, <2>4
    <2> QED
      BY <2>1, <2>2, <2>5 DEF Worth, b
  <1>5. CASE ReClammTerms(p)
    <2>1. p.type = "ReClamm" /\ Virtual(p) # Thrown /\ PositivePair(Virtual(p))
      BY <1>5 DEF ReClammTerms, Swaps, Priced
    <2>2. v[1] \in Nat /\ v[2] \in Nat /\ v[in] \in Nat /\ v[out] \in Nat
      BY <2>1 DEF v, PositivePair, Positive
    <2> DEFINE x == b[in] + v[in]
               y == b[out] + v[out]
               g == c[in] + v[in]
               k == c[out] + v[out]
    <2>3. x \in Nat /\ y \in Nat /\ paid <= y /\ (x + net) * paid <= y * net
      BY <1>1, <1>5, <2>1, ReClammPrice DEF b, v
    <2>4. g \in Nat /\ k \in Nat /\ x + net <= g /\ y - paid <= k
      BY <1>1, <2>2
    <2> HIDE DEF x, y, g, k
    <2>5. x * y <= g * k
      BY <1>1, <2>3, <2>4, ProductPrice
    <2>6. y * x = x * y /\ k * g = g * k
      BY <2>3, <2>4
    <2>7. (b[1] + v[1]) * (b[2] + v[2]) <= (c[1] + v[1]) * (c[2] + v[2])
      <3>1. CASE in = 1
        BY <1>2, <2>5, <3>1 DEF x, y, g, k
      <3>2. CASE in = 2
        <4>1. y * x <= k * g
          BY <2>5, <2>6
        <4> QED
          BY <1>2, <3>2, <4>1 DEF x, y, g, k
      <3> QED
        BY <3>1, <3>2
    <2> QED
      BY <2>1, <2>7 DEF Worth, b, v
  <1>6. CASE EqualTerms(p)
    <2>1. p.type = "Weighted"
      BY <1>6 DEF EqualTerms
    <2> DEFINE x == b[in]
               y == b[out]
               g == c[in]
               k == c[out]
    <2>2. x \in Nat /\ y \in Nat /\ paid < y /\ (x + net) * paid <= y * net
      BY <1>1, <1>6, EqualPrice DEF b
    <2>3. g \in Nat /\ k \in Nat /\ x + net <= g /\ y - paid <= k
      BY <1>1
    <2> HIDE DEF x, y, g, k
    <2>4. x * y <= g * k /\ g >= 1 /\ k >= 1
      BY <1>1, <2>2, <2>3, ProductPrice
    <2>5. y * x = x * y /\ k * g = g * k
      BY <2>2, <2>3
    <2>6. b[1] * b[2] <= c[1] * c[2]
      <3>1. CASE in = 1
        BY <1>2, <2>4, <3>1 DEF x, y, g, k
      <3>2. CASE in = 2
        <4>1. y * x <= k * g
          BY <2>4, <2>5
        <4> QED
          BY <1>2, <3>2, <4>1 DEF x, y, g, k
      <3> QED
        BY <3>1, <3>2
    <2>7. c[1] >= 1 /\ c[2] >= 1
      BY <1>2, <2>4 DEF g, k
    <2> QED
      BY <2>1, <2>6, <2>7 DEF Worth, b
  <1> QED
    BY <1>3, <1>4, <1>5, <1>6, ClassOf DEF Swaps, SumTerms, FixedTerms, ReClammTerms, EqualTerms

\* A price is a number, or thrown.
LEMMA ClosedAnswers ==
    ASSUME NEW p, Swaps(p), NEW in \in 1..2, NEW out \in 1..2, in # out
    PROVE  Answers(p, in, out)
  <1>1. /\ p.factors[in] \in Positive /\ p.rates[in] \in Positive
        /\ p.factors[out] \in Positive /\ p.rates[out] \in Positive
        /\ p.aggregateFee \in 0..Wad
    BY DEF Swaps, Priced, ClosedTerms, CommonTerms, Pairs
  <1>2. ASSUME NEW kind \in Kinds, NEW n \in Nat
        PROVE  /\ OnSwap(p, kind, in, out, n) \in Int \cup {Thrown}
               /\ SwapFee(p, kind, in, out, n) \in 0..(Wad - 1) \cup {Thrown}
    <2> DEFINE a == OnSwap(p, kind, in, out, n)
    <2>1. kind = "GivenIn" \/ kind = "GivenOut"
      BY DEF Kinds
    <2>2. SwapFee(p, kind, in, out, n) \in 0..(Wad - 1)
      BY DEF SwapFee, Swaps, Priced, ClosedTerms, CommonTerms
    <2>3. CASE SumTerms(p)
      <3>1. p.type = "Sum" /\ p.rate \in Nat \ {0} /\ p.rate \in Nat
        BY <2>3 DEF SumTerms, Positive
      <3>2. a \in {MulDown(n, p.rate), DivDown(n, p.rate), DivUpFixed(n, p.rate),
                   MulUp(n, p.rate)}
        BY <2>1, <3>1 DEF OnSwap, SumOnSwap
      <3> HIDE DEF a
      <3>3. a \in Nat
        BY <3>1, <3>2, MulDownBounds, DivDownBounds, DivUpFixedBounds, MulUpBounds
      <3> QED
        BY <2>2, <3>3 DEF a
    <2>4. CASE FixedTerms(p)
      <3>1. p.type = "FixedLBP" /\ p.rate \in Nat \ {0} /\ p.rate \in Nat
        BY <2>4 DEF FixedTerms, Positive
      <3>2. a \in {Thrown, DivDown(n, p.rate), MulUp(n, p.rate)}
        BY <2>1, <3>1 DEF OnSwap, FixedOnSwap
      <3> HIDE DEF a
      <3>3. a \in Nat \cup {Thrown}
        BY <3>1, <3>2, DivDownBounds, MulUpBounds
      <3> QED
        BY <2>2, <3>3 DEF a
    <2>5. CASE ReClammTerms(p)
      <3> DEFINE v == Virtual(p)
                 b == p.live
                 x == b[in] + v[in]
                 y == b[out] + v[out]
      <3>1. /\ p.type = "ReClamm" /\ v # Thrown
            /\ v[in] \in Positive /\ v[out] \in Positive /\ b[in] \in Nat /\ b[out] \in Nat
        BY <2>5 DEF Swaps, Priced, ReClammTerms, PositivePair, Pairs
      <3>2. a = IF kind = "GivenIn" THEN OutGivenIn(b, v, in, out, n)
                                    ELSE InGivenOut(b, v, in, out, n)
        BY <3>1 DEF OnSwap, ReClammOnSwap, Then, Virtual
      <3> HIDE DEF a, v, b
      <3>3. x \in Nat \ {0} /\ y \in Nat \ {0} /\ b[out] < y
        BY <3>1 DEF Positive
      <3>4. OutGivenIn(b, v, in, out, n) \in {Thrown, Quot(y * n, x + n)}
        BY DEF OutGivenIn
      <3>5. InGivenOut(b, v, in, out, n) = Thrown
              \/ (~(n > b[out]) /\ InGivenOut(b, v, in, out, n) = MulDivUp(x, n, y - n))
        <4>1. b[out] + v[out] - n = y - n
          BY <3>1 DEF Positive
        <4> QED
          BY <4>1 DEF InGivenOut
      <3> HIDE DEF x, y
      <3>6. Quot(y * n, x + n) \in Nat
        <4>1. y * n \in Nat /\ x + n \in Nat \ {0}
          BY <3>3, MulNat
        <4> QED
          BY <4>1, QuotNat
      <3>7. ~(n > b[out]) => MulDivUp(x, n, y - n) \in Nat
        <4>1. ~(n > b[out]) => y - n \in Nat \ {0}
          BY <3>1, <3>3
        <4> QED
          BY <3>3, <4>1, MulDivUpBounds
      <3>8. a \in Nat \cup {Thrown}
        BY <3>2, <3>4, <3>5, <3>6, <3>7
      <3> QED
        BY <2>2, <3>8 DEF a
    <2>6. CASE EqualTerms(p)
      <3>1. p.live \in Pairs(Nat)
        BY DEF Swaps
      <3>2. a \in Int \cup {Thrown}
        BY <2>1, <2>6, <3>1, EqualSwap
      <3> QED
        BY <2>2, <3>2 DEF a
    <2> QED
      BY <2>3, <2>4, <2>5, <2>6, ClassOf DEF Swaps
  <1> QED
    BY <1>1, <1>2 DEF Answers

-----------------------------------------------------------------------------
(* The worth as a measure of balances *)

LEMMA LinearMonotone ==
    ASSUME NEW w \in Nat, NEW u \in Nat, NEW x \in Nat, NEW y \in Nat, NEW a \in Nat,
           NEW b \in Nat, x <= a, y <= b
    PROVE  w * x + u * y <= w * a + u * b
  <1>1. w * x <= w * a /\ u * y <= u * b
    BY MulMonotone
  <1>2. w * x \in Int /\ w * a \in Int /\ u * y \in Int /\ u * b \in Int
    OBVIOUS
  <1> QED
    BY <1>1, <1>2

\* Where every unit counts, less of something is worth less.
LEMMA LinearStrict ==
    ASSUME NEW w \in Positive, NEW u \in Positive, NEW x \in Nat, NEW y \in Nat, NEW a \in Nat,
           NEW b \in Nat, x <= a, y <= b, w * a + u * b <= w * x + u * y
    PROVE  x = a /\ y = b
  <1>1. w \in Nat \ {0} /\ u \in Nat \ {0}
    BY DEF Positive
  <1>2. w * x <= w * a /\ u * y <= u * b
    BY <1>1, MulMonotone
  <1>3. w * x \in Int /\ w * a \in Int /\ u * y \in Int /\ u * b \in Int
    BY <1>1
  <1>4. w * a < w * x + w /\ u * b < u * y + u
    BY <1>1, <1>2, <1>3
  <1>5. a <= x /\ b <= y
    BY <1>1, <1>4, MulCancel
  <1> QED
    BY <1>5

LEMMA ProductStrict ==
    ASSUME NEW x \in Positive, NEW y \in Positive, NEW a \in Nat, NEW b \in Nat,
           x <= a, y <= b, a * b <= x * y
    PROVE  x = a /\ y = b
  <1>1. x \in Nat \ {0} /\ y \in Nat \ {0}
    BY DEF Positive
  <1>2. x * b <= a * b /\ a * y <= a * b
    <2>1. b * x <= b * a /\ a * y <= a * b
      BY <1>1, MulMonotone
    <2> QED
      BY <1>1, <2>1
  <1>3. /\ x * b \in Int /\ a * b \in Int /\ x * y \in Int /\ a * y \in Int
        /\ a * y = y * a /\ x * y = y * x /\ y * a \in Int /\ y * x \in Int
    BY <1>1
  <1>4. x * b < x * y + x /\ y * a < y * x + y
    BY <1>1, <1>2, <1>3
  <1>5. b <= y /\ a <= x
    BY <1>1, <1>4, MulCancel
  <1> QED
    BY <1>1, <1>5

LEMMA WorthNat ==
    ASSUME NEW p, Priced(p), p.type # "Buffer", NEW b \in Pairs(Nat)
    PROVE  Worth(p, Virtual(p), b) \in Nat
  <1> DEFINE v == Virtual(p)
  <1>1. b[1] \in Nat /\ b[2] \in Nat /\ Wad \in Nat
    BY WadAssumption DEF Pairs
  <1>2. CASE SumTerms(p)
    <2>1. p.type = "Sum" /\ p.rate * b[1] \in Nat /\ Wad * b[2] \in Nat
      BY <1>1, <1>2, MulNat DEF SumTerms, Positive
    <2> QED
      BY <2>1 DEF Worth
  <1>3. CASE FixedTerms(p)
    <2>1. p.type = "FixedLBP" /\ p.rate \in Nat /\ p.project \in 1..2
      BY <1>3 DEF FixedTerms, Positive
    <2>2. b[p.project] \in Nat /\ b[3 - p.project] \in Nat
      BY <1>1, <2>1
    <2>3. p.rate * b[p.project] \in Nat /\ Wad * b[3 - p.project] \in Nat
      BY <1>1, <2>1, <2>2, MulNat
    <2> QED
      BY <2>1, <2>3 DEF Worth
  <1>4. CASE ReClammTerms(p)
    <2>1. p.type = "ReClamm" /\ v[1] \in Nat /\ v[2] \in Nat
      BY <1>4 DEF ReClammTerms, Priced, PositivePair, Positive
    <2>2. (b[1] + v[1]) * (b[2] + v[2]) \in Nat
      BY <1>1, <2>1, MulNat
    <2> QED
      BY <2>1, <2>2 DEF Worth
  <1>5. CASE EqualTerms(p)
    <2>1. p.type = "Weighted" /\ b[1] * b[2] \in Nat
      BY <1>1, <1>5, MulNat DEF EqualTerms
    <2> QED
      BY <2>1 DEF Worth
  <1> QED
    BY <1>2, <1>3, <1>4, <1>5, ClassOf

\* More of a token is never worth less.
LEMMA WorthMonotone ==
    ASSUME NEW p, Priced(p), p.type # "Buffer", NEW b \in Pairs(Nat), NEW c \in Pairs(Nat),
           \A i \in 1..2 : b[i] <= c[i]
    PROVE  Worth(p, Virtual(p), b) <= Worth(p, Virtual(p), c)
  <1> DEFINE v == Virtual(p)
  <1>1. /\ b[1] \in Nat /\ b[2] \in Nat /\ c[1] \in Nat /\ c[2] \in Nat
        /\ b[1] <= c[1] /\ b[2] <= c[2] /\ Wad \in Nat
    BY WadAssumption DEF Pairs
  <1>2. CASE SumTerms(p)
    <2>1. p.type = "Sum" /\ p.rate \in Nat
      BY <1>2 DEF SumTerms, Positive
    <2>2. p.rate * b[1] + Wad * b[2] <= p.rate * c[1] + Wad * c[2]
      BY <1>1, <2>1, LinearMonotone
    <2> QED
      BY <2>1, <2>2 DEF Worth
  <1>3. CASE FixedTerms(p)
    <2>1. p.type = "FixedLBP" /\ p.rate \in Nat /\ (p.project = 1 \/ p.project = 2)
      BY <1>3 DEF FixedTerms, Positive
    <2>2. p.project = 1 => p.rate * b[1] + Wad * b[2] <= p.rate * c[1] + Wad * c[2]
      BY <1>1, <2>1, LinearMonotone
    <2>3. p.project = 2 => p.rate * b[2] + Wad * b[1] <= p.rate * c[2] + Wad * c[1]
      BY <1>1, <2>1, LinearMonotone
    <2> QED
      BY <2>1, <2>2, <2>3 DEF Worth
  <1>4. CASE ReClammTerms(p)
    <2>1. p.type = "ReClamm" /\ v[1] \in Nat /\ v[2] \in Nat
      BY <1>4 DEF ReClammTerms, Priced, PositivePair, Positive
    <2>2. (b[1] + v[1]) * (b[2] + v[2]) <= (c[1] + v[1]) * (c[2] + v[2])
      BY <1>1, <2>1, ProductMonotone
    <2> QED
      BY <2>1, <2>2 DEF Worth
  <1>5. CASE EqualTerms(p)
    <2>1. p.type = "Weighted" /\ b[1] * b[2] <= c[1] * c[2]
      BY <1>1, <1>5, ProductMonotone DEF EqualTerms
    <2> QED
      BY <2>1 DEF Worth
  <1> QED
    BY <1>2, <1>3, <1>4, <1>5, ClassOf

\* Fewer balances of no less worth are the same.
LEMMA WorthStrict ==
    ASSUME NEW p, Priced(p), p.type # "Buffer", NEW b \in Pairs(Nat), NEW c \in Pairs(Nat),
           \A i \in 1..2 : b[i] <= c[i], Worth(p, Virtual(p), c) <= Worth(p, Virtual(p), b),
           p.type = "Weighted" => b \in Pairs(Positive)
    PROVE  \A i \in 1..2 : b[i] = c[i]
  <1> DEFINE v == Virtual(p)
  <1>1. /\ b[1] \in Nat /\ b[2] \in Nat /\ c[1] \in Nat /\ c[2] \in Nat
        /\ b[1] <= c[1] /\ b[2] <= c[2] /\ Wad \in Positive
    BY WadAssumption DEF Pairs, Positive
  <1>2. CASE SumTerms(p)
    <2>1. p.type = "Sum" /\ p.rate \in Positive
      BY <1>2 DEF SumTerms
    <2>2. p.rate * c[1] + Wad * c[2] <= p.rate * b[1] + Wad * b[2]
      BY <2>1 DEF Worth
    <2>3. b[1] = c[1] /\ b[2] = c[2]
      BY <1>1, <2>1, <2>2, LinearStrict
    <2> QED
      BY <2>3
  <1>3. CASE FixedTerms(p)
    <2>1. p.type = "FixedLBP" /\ p.rate \in Positive /\ (p.project = 1 \/ p.project = 2)
      BY <1>3 DEF FixedTerms
    <2>2. CASE p.project = 1
      <3>1. p.rate * c[1] + Wad * c[2] <= p.rate * b[1] + Wad * b[2]
        BY <2>1, <2>2 DEF Worth
      <3>2. b[1] = c[1] /\ b[2] = c[2]
        BY <1>1, <2>1, <3>1, LinearStrict
      <3> QED
        BY <3>2
    <2>3. CASE p.project = 2
      <3>1. p.rate * c[2] + Wad * c[1] <= p.rate * b[2] + Wad * b[1]
        BY <2>1, <2>3 DEF Worth
      <3>2. b[2] = c[2] /\ b[1] = c[1]
        BY <1>1, <2>1, <3>1, LinearStrict
      <3> QED
        BY <3>2
    <2> QED
      BY <2>1, <2>2, <2>3
  <1>4. CASE ReClammTerms(p)
    <2>1. p.type = "ReClamm" /\ v[1] \in Positive /\ v[2] \in Positive
      BY <1>4 DEF ReClammTerms, Priced, PositivePair
    <2>2. (c[1] + v[1]) * (c[2] + v[2]) <= (b[1] + v[1]) * (b[2] + v[2])
      BY <2>1 DEF Worth
    <2> HIDE DEF v
    <2>3. /\ b[1] + v[1] \in Positive /\ b[2] + v[2] \in Positive
          /\ c[1] + v[1] \in Nat /\ c[2] + v[2] \in Nat
          /\ b[1] + v[1] <= c[1] + v[1] /\ b[2] + v[2] <= c[2] + v[2]
      BY <1>1, <2>1 DEF Positive
    <2>4. b[1] + v[1] = c[1] + v[1] /\ b[2] + v[2] = c[2] + v[2]
      BY <2>2, <2>3, ProductStrict
    <2>5. b[1] = c[1] /\ b[2] = c[2]
      BY <1>1, <2>1, <2>4 DEF Positive
    <2> QED
      BY <2>5
  <1>5. CASE EqualTerms(p)
    <2>1. p.type = "Weighted" /\ b[1] \in Positive /\ b[2] \in Positive
      BY <1>5 DEF EqualTerms, Pairs
    <2>2. c[1] * c[2] <= b[1] * b[2]
      BY <2>1 DEF Worth
    <2>3. b[1] = c[1] /\ b[2] = c[2]
      BY <1>1, <2>1, <2>2, ProductStrict
    <2> QED
      BY <2>3
  <1> QED
    BY <1>2, <1>3, <1>4, <1>5, ClassOf

-----------------------------------------------------------------------------
(* Raw balances and what they are worth *)

LEMMA LiveAt ==
    ASSUME NEW p, CommonTerms(p), NEW r \in Pairs(Nat)
    PROVE  /\ Live(p, r) \in Pairs(Nat)
           /\ \A i \in 1..2 : Live(p, r)[i] = ToScaledRoundDown(r[i], p.factors[i], p.rates[i])
  <1>1. /\ DOMAIN r = 1..2
        /\ \A i \in 1..2 : r[i] \in Nat /\ p.factors[i] \in Positive /\ p.rates[i] \in Positive
    BY DEF Pairs, CommonTerms
  <1>2. \A i \in 1..2 : ToScaledRoundDown(r[i], p.factors[i], p.rates[i]) \in Nat
    BY <1>1, ToScaledDownBounds
  <1> QED
    BY <1>1, <1>2 DEF Live, ScaledDown, Pairs

\* Raw balances worth n units more are scaled to n units more.
LEMMA LiveGain ==
    ASSUME NEW p, CommonTerms(p), NEW r \in Pairs(Nat), NEW s \in Pairs(Nat), NEW i \in 1..2,
           NEW n \in Int, Fr(p, i) * r[i] + Wad * n <= Fr(p, i) * s[i]
    PROVE  Live(p, r)[i] + n <= Live(p, s)[i]
  <1>1. r[i] \in Nat /\ s[i] \in Nat /\ p.factors[i] \in Positive /\ p.rates[i] \in Positive
    BY DEF Pairs, CommonTerms
  <1>2. ToScaledRoundDown(r[i], p.factors[i], p.rates[i]) + n
          <= ToScaledRoundDown(s[i], p.factors[i], p.rates[i])
    BY <1>1, ScaledGain DEF Fr
  <1> QED
    BY <1>2, LiveAt

LEMMA FrWhole ==
    ASSUME NEW p, CommonTerms(p), NEW i \in 1..2
    PROVE  Fr(p, i) \in Positive /\ Wad <= Fr(p, i) /\ Wad \in Positive
  <1>1. p.factors[i] \in Nat \ {0} /\ p.rates[i] \in Nat \ {0} /\ p.factors[i] * p.rates[i] >= Wad
    BY DEF CommonTerms, WholeUnits, Pairs, Positive
  <1>2. p.factors[i] * p.rates[i] \in Nat /\ Wad \in Nat \ {0}
    BY <1>1, MulNat, WadAssumption
  <1> QED
    BY <1>1, <1>2 DEF Fr, Positive

\* Scaling keeps the order, and tells balances apart.
LEMMA LiveOrder ==
    ASSUME NEW p, CommonTerms(p), NEW r \in Pairs(Nat), NEW s \in Pairs(Nat), NEW i \in 1..2,
           r[i] <= s[i]
    PROVE  /\ Live(p, r)[i] <= Live(p, s)[i]
           /\ Live(p, r)[i] = Live(p, s)[i] => r[i] = s[i]
  <1> DEFINE d == Fr(p, i)
             x == r[i]
             y == s[i]
  <1>1. x \in Nat /\ y \in Nat /\ x <= y /\ Live(p, r)[i] \in Nat /\ Live(p, s)[i] \in Nat
    BY LiveAt DEF Pairs
  <1>2. d \in Nat \ {0} /\ Wad <= d /\ Wad \in Nat \ {0}
    BY FrWhole DEF Positive
  <1> HIDE DEF d, x, y
  <1>3. d * x <= d * y /\ d * x \in Int /\ d * y \in Int
    BY <1>1, <1>2, MulMonotone
  <1>4. Live(p, r)[i] + 0 <= Live(p, s)[i]
    <2>1. d * x + Wad * 0 <= d * y
      BY <1>2, <1>3
    <2> QED
      BY <2>1, LiveGain DEF d, x, y
  <1>5. ASSUME x < y PROVE Live(p, r)[i] + 1 <= Live(p, s)[i]
    <2>1. d * (x + 1) <= d * y /\ d * (x + 1) = d * x + d
      <3>1. x + 1 \in Int /\ x + 1 <= y
        BY <1>1, <1>5
      <3> QED
        BY <1>1, <1>2, <3>1, MulMonotone
    <2>2. d * x + Wad * 1 <= d * y
      BY <1>2, <1>3, <2>1
    <2> QED
      BY <2>2, LiveGain DEF d, x, y
  <1>6. Live(p, r)[i] = Live(p, s)[i] => x = y
    BY <1>1, <1>5
  <1> QED
    BY <1>1, <1>4, <1>6 DEF x, y

LEMMA LivePositive ==
    ASSUME NEW p, CommonTerms(p), NEW r \in Pairs(Nat), NEW i \in 1..2
    PROVE  Live(p, r)[i] >= 1 <=> r[i] >= 1
  <1> DEFINE z == [j \in 1..2 |-> 0]
  <1>1. z \in Pairs(Nat) /\ z[i] = 0 /\ r[i] \in Nat /\ Live(p, r)[i] \in Nat
    BY LiveAt DEF Pairs
  <1>2. Live(p, z)[i] = 0
    <2>1. p.factors[i] \in Nat /\ p.rates[i] \in Nat
      BY DEF CommonTerms, Pairs, Positive
    <2>2. 0 * p.factors[i] = 0 /\ 0 * p.rates[i] = 0
      BY <2>1
    <2>3. ToScaledRoundDown(0, p.factors[i], p.rates[i]) = Quot(0, Wad)
      BY <2>2 DEF ToScaledRoundDown, MulDown
    <2>4. Quot(0, Wad) = 0
      <3>1. Wad \in Nat \ {0} /\ 0 \div Wad = 0
        BY WadAssumption, ShareEnds
      <3> QED
        BY <3>1 DEF Quot, Abs
    <2> QED
      BY <1>1, <2>3, <2>4, LiveAt
  <1> HIDE DEF z
  <1>3. Live(p, z)[i] = Live(p, r)[i] => z[i] = r[i]
    BY <1>1, LiveOrder
  <1>4. r[i] = 0 => Live(p, r)[i] = 0
    <2>1. Live(p, r)[i] = ToScaledRoundDown(r[i], p.factors[i], p.rates[i])
      BY LiveAt
    <2>2. Live(p, z)[i] = ToScaledRoundDown(z[i], p.factors[i], p.rates[i])
      BY <1>1, LiveAt
    <2> QED
      BY <1>1, <1>2, <2>1, <2>2
  <1> QED
    BY <1>1, <1>2, <1>3, <1>4

LEMMA BufferValue ==
    ASSUME NEW p, Priced(p), p.type = "Buffer", NEW r
    PROVE  /\ p.rate \in Positive /\ Wad \in Positive
           /\ Value(p, r) = Wad * r[1] + p.rate * r[2]
  <1>1. BufferTerms(p)
    BY DEF Priced, ClosedTerms, SumTerms, FixedTerms, ReClammTerms, EqualTerms
  <1> QED
    BY <1>1, WadAssumption DEF BufferTerms, Value, Positive

LEMMA ValueNat ==
    ASSUME NEW p, Priced(p), NEW r \in Pairs(Nat)
    PROVE  Value(p, r) \in Nat
  <1>1. CASE p.type = "Buffer"
    <2>1. r[1] \in Nat /\ r[2] \in Nat /\ Wad \in Nat /\ p.rate \in Nat
      BY <1>1, BufferValue DEF Pairs, Positive
    <2>2. Wad * r[1] \in Nat /\ p.rate * r[2] \in Nat
      BY <2>1, MulNat
    <2> QED
      BY <1>1, <2>2, BufferValue
  <1>2. CASE p.type # "Buffer"
    <2>1. Live(p, r) \in Pairs(Nat)
      BY LiveAt DEF Priced, ClosedTerms
    <2> QED
      BY <1>2, <2>1, WorthNat DEF Value
  <1> QED
    BY <1>1, <1>2

LEMMA ValueMonotone ==
    ASSUME NEW p, Priced(p), NEW r \in Pairs(Nat), NEW s \in Pairs(Nat),
           \A i \in 1..2 : r[i] <= s[i]
    PROVE  Value(p, r) <= Value(p, s)
  <1>1. CASE p.type = "Buffer"
    <2>1. /\ r[1] \in Nat /\ r[2] \in Nat /\ s[1] \in Nat /\ s[2] \in Nat
          /\ r[1] <= s[1] /\ r[2] <= s[2] /\ Wad \in Nat /\ p.rate \in Nat
      BY <1>1, BufferValue DEF Pairs, Positive
    <2>2. Wad * r[1] + p.rate * r[2] <= Wad * s[1] + p.rate * s[2]
      BY <2>1, LinearMonotone
    <2> QED
      BY <1>1, <2>2, BufferValue
  <1>2. CASE p.type # "Buffer"
    <2>1. CommonTerms(p)
      BY DEF Priced, ClosedTerms
    <2>2. Live(p, r) \in Pairs(Nat) /\ Live(p, s) \in Pairs(Nat)
      BY <2>1, LiveAt
    <2>3. \A i \in 1..2 : Live(p, r)[i] <= Live(p, s)[i]
      BY <2>1, LiveOrder
    <2>4. Worth(p, Virtual(p), Live(p, r)) <= Worth(p, Virtual(p), Live(p, s))
      BY <1>2, <2>2, <2>3, WorthMonotone
    <2> QED
      BY <1>2, <2>4 DEF Value
  <1> QED
    BY <1>1, <1>2

LEMMA ValueStrict ==
    ASSUME NEW p, Priced(p), NEW r \in Pairs(Nat), NEW s \in Pairs(Nat),
           \A i \in 1..2 : r[i] <= s[i], Value(p, s) <= Value(p, r),
           p.type = "Weighted" => r \in Pairs(Positive)
    PROVE  \A i \in 1..2 : r[i] = s[i]
  <1>1. CASE p.type = "Buffer"
    <2>1. /\ r[1] \in Nat /\ r[2] \in Nat /\ s[1] \in Nat /\ s[2] \in Nat
          /\ r[1] <= s[1] /\ r[2] <= s[2] /\ Wad \in Positive /\ p.rate \in Positive
      BY <1>1, BufferValue DEF Pairs
    <2>2. Wad * s[1] + p.rate * s[2] <= Wad * r[1] + p.rate * r[2]
      BY <1>1, BufferValue
    <2>3. r[1] = s[1] /\ r[2] = s[2]
      BY <2>1, <2>2, LinearStrict
    <2> QED
      BY <2>3
  <1>2. CASE p.type # "Buffer"
    <2>1. CommonTerms(p)
      BY DEF Priced, ClosedTerms
    <2>2. Live(p, r) \in Pairs(Nat) /\ Live(p, s) \in Pairs(Nat)
      BY <2>1, LiveAt
    <2>3. \A i \in 1..2 : Live(p, r)[i] <= Live(p, s)[i]
      BY <2>1, LiveOrder
    <2>4. Worth(p, Virtual(p), Live(p, s)) <= Worth(p, Virtual(p), Live(p, r))
      BY <1>2 DEF Value
    <2>5. p.type = "Weighted" => Live(p, r) \in Pairs(Positive)
      <3> SUFFICES ASSUME p.type = "Weighted" PROVE Live(p, r) \in Pairs(Positive)
        OBVIOUS
      <3>1. \A i \in 1..2 : r[i] >= 1
        BY DEF Pairs, Positive
      <3>2. \A i \in 1..2 : Live(p, r)[i] >= 1
        BY <2>1, <3>1, LivePositive
      <3> QED
        BY <2>2, <3>2 DEF Pairs, Positive
    <2>6. \A i \in 1..2 : Live(p, r)[i] = Live(p, s)[i]
      BY <1>2, <2>2, <2>3, <2>4, <2>5, WorthStrict
    <2> QED
      BY <2>1, <2>6, LiveOrder
  <1> QED
    BY <1>1, <1>2

-----------------------------------------------------------------------------
(* Pools that have a price, and operations that keep the terms *)

HasPrice(p) ==
    p.type = "ReClamm" => Virtual(p) # Thrown /\ \A i \in 1..2 : Virtual(p)[i] \in Nat \ {0}

LEMMA PricedOf ==
    ASSUME NEW p, ClosedTerms(p), HasPrice(p)
    PROVE  Priced(p)
  BY DEF Priced, HasPrice, PositivePair, Positive

LEMMA BooksPriced ==
    ASSUME ClosedTerms(pool), VirtualBalancesPositive
    PROVE  Priced(pool)
  <1>1. HasPrice(pool)
    BY DEF VirtualBalancesPositive, HasPrice, Virtual
  <1> QED
    BY <1>1, PricedOf

\* The fields of a pool that may change without changing its terms.
Shifting == {"live", "supply", "virtual", "lastTimestamp", "now"}

SameTerms(p, q) == DOMAIN p \subseteq DOMAIN q /\ \A f \in DOMAIN p \ Shifting : q[f] = p[f]

LEMMA TermsKept ==
    ASSUME NEW p, NEW q, ClosedTerms(p), SameTerms(p, q)
    PROVE  /\ ClosedTerms(q)
           /\ q.type = p.type /\ q.factors = p.factors /\ q.rates = p.rates
           /\ SumTerms(p) \/ BufferTerms(p) => q.rate = p.rate
           /\ FixedTerms(p) => q.rate = p.rate /\ q.project = p.project
  <1>1. /\ {"type", "raw", "supply", "factors", "rates", "nextRates", "swapFee", "aggregateFee",
            "unbalanced", "hook", "protocolFee"} \subseteq DOMAIN q
        /\ q.type = p.type /\ q.factors = p.factors /\ q.rates = p.rates
        /\ q.nextRates = p.nextRates /\ q.swapFee = p.swapFee
        /\ q.aggregateFee = p.aggregateFee /\ q.unbalanced = p.unbalanced /\ q.hook = p.hook
        /\ q.protocolFee = p.protocolFee
    BY DEF SameTerms, Shifting, ClosedTerms, CommonTerms
  <1>2. CommonTerms(q)
    <2>1. CommonTerms(p)
      BY DEF ClosedTerms
    <2> QED
      BY <1>1, <2>1 DEF CommonTerms
  <1>3. SumTerms(p) => SumTerms(q) /\ q.rate = p.rate
    BY <1>1 DEF SameTerms, Shifting, SumTerms
  <1>4. FixedTerms(p) => FixedTerms(q) /\ q.rate = p.rate /\ q.project = p.project
    BY <1>1 DEF SameTerms, Shifting, FixedTerms
  <1>5. BufferTerms(p) => BufferTerms(q) /\ q.rate = p.rate
    BY <1>1 DEF SameTerms, Shifting, BufferTerms
  <1>6. ReClammTerms(p) => ReClammTerms(q)
    BY <1>1 DEF SameTerms, ReClammTerms
  <1>7. EqualTerms(p) => EqualTerms(q)
    <2> SUFFICES ASSUME EqualTerms(p) PROVE EqualTerms(q)
      OBVIOUS
    <2>1. q.weights = p.weights /\ q.minBalances = p.minBalances
          /\ {"weights", "minBalances"} \subseteq DOMAIN q
      BY DEF SameTerms, Shifting, EqualTerms
    <2> QED
      BY <1>1, <2>1 DEF EqualTerms
  <1> QED
    BY <1>1, <1>2, <1>3, <1>4, <1>5, <1>6, <1>7 DEF ClosedTerms

\* With the same terms and the same virtual balances, the same worth.
LEMMA ValueKept ==
    ASSUME NEW p, NEW q, ClosedTerms(p), SameTerms(p, q),
           p.type = "ReClamm" => \A i \in 1..2 : Virtual(q)[i] = Virtual(p)[i],
           NEW r \in Pairs(Nat)
    PROVE  Live(q, r) = Live(p, r) /\ Value(q, r) = Value(p, r)
  <1>1. q.type = p.type /\ Live(q, r) = Live(p, r)
    BY TermsKept DEF Live, ScaledDown
  <1>2. CASE SumTerms(p) \/ BufferTerms(p)
    <2>1. q.rate = p.rate /\ (p.type = "Sum" \/ p.type = "Buffer")
      BY <1>2, TermsKept DEF SumTerms, BufferTerms
    <2> QED
      BY <1>1, <2>1 DEF Value, Worth
  <1>3. CASE FixedTerms(p)
    <2>1. q.rate = p.rate /\ q.project = p.project /\ p.type = "FixedLBP"
      BY <1>3, TermsKept DEF FixedTerms
    <2> QED
      BY <1>1, <2>1 DEF Value, Worth
  <1>4. CASE ReClammTerms(p)
    <2>1. p.type = "ReClamm" /\ Virtual(q)[1] = Virtual(p)[1] /\ Virtual(q)[2] = Virtual(p)[2]
      BY <1>4 DEF ReClammTerms
    <2> QED
      BY <1>1, <2>1 DEF Value, Worth
  <1>5. CASE EqualTerms(p)
    <2>1. p.type = "Weighted"
      BY <1>5 DEF EqualTerms
    <2> QED
      BY <1>1, <2>1 DEF Value, Worth
  <1> QED
    BY <1>1, <1>2, <1>3, <1>4, <1>5 DEF ClosedTerms

\* The raw balances after a gain.
Left(gain) == [i \in 1..2 |-> raw[i] + gain[i]]

\* What operations have in common: they mint no shares, and with as many
\* shares as before the pool is worth no less; for every share it never is.
Fair(gain, taken, supply) ==
    /\ gain \in Pairs(Int) /\ taken \in Pairs(Nat)
    /\ supply \in Positive /\ supply <= pool.supply
    /\ Left(gain) \in Pairs(Nat)
    /\ pool.type = "Weighted" => Left(gain) \in Pairs(Positive)
    /\ supply = pool.supply => Value(pool, raw) <= Value(pool, Left(gain))
    /\ pool.type \in {"Sum", "FixedLBP"} =>
           Value(pool, raw) * supply <= Value(pool, Left(gain)) * pool.supply

FairStep ==
    \E gain, taken, supply, after :
        Settle(gain, taken, supply, after) /\ Fair(gain, taken, supply)

\* A pool as Settle leaves it, once its virtual balances are stored.
Refilled(touched, l, supply) == [touched EXCEPT !.live = l, !.supply = supply]

LEMMA TouchedPool ==
    ASSUME BooksInv, VirtualBalancesPositive, NEW supply \in Positive, NEW l, NEW touched, NEW q,
           touched = Touched(pool, supply), touched # Thrown, q = Refilled(touched, l, supply)
    PROVE  /\ SameTerms(pool, q) /\ "live" \in DOMAIN q
           /\ q.live = l /\ q.supply = supply
           /\ (pool.type = "ReClamm" /\ supply = pool.supply) =>
                  \A i \in 1..2 : Virtual(q)[i] = Virtual(pool)[i]
  <1>1. ClosedTerms(pool) /\ {"live", "supply"} \subseteq DOMAIN pool
    BY DEF BooksInv, ClosedTerms, CommonTerms
  <1>2. CASE pool.type # "ReClamm"
    <2>1. q = [pool EXCEPT !.live = l, !.supply = supply]
      BY <1>2 DEF Touched, Refilled
    <2>2. /\ DOMAIN q = DOMAIN pool /\ q.live = l /\ q.supply = supply
          /\ \A f \in DOMAIN pool \ {"live", "supply"} : q[f] = pool[f]
      BY <1>1, <2>1
    <2> QED
      BY <1>1, <1>2, <2>2 DEF SameTerms, Shifting
  <1>3. CASE pool.type = "ReClamm"
    <2> DEFINE v == Virtual(pool)
               scaled == [i \in 1..2 |-> (v[i] * supply) \div pool.supply]
    <2>1. /\ Priced(pool) /\ v # Thrown /\ PositivePair(v)
          /\ {"virtual", "lastTimestamp", "now"} \subseteq DOMAIN pool
      <3>1. ReClammTerms(pool)
        BY <1>1, <1>3 DEF ClosedTerms, SumTerms, FixedTerms, BufferTerms, EqualTerms
      <3> QED
        BY <1>1, <1>3, <3>1, BooksPriced DEF Priced, ReClammTerms
    <2>2. touched = [pool EXCEPT !.virtual = scaled, !.lastTimestamp = pool.now]
      BY <1>3, <2>1 DEF Touched, Then, Virtual
    <2> HIDE DEF v, scaled
    <2>3. /\ DOMAIN q = DOMAIN pool /\ q.live = l /\ q.supply = supply
          /\ q.virtual = scaled /\ q.lastTimestamp = pool.now /\ q.now = pool.now
          /\ \A f \in DOMAIN pool \ Shifting : q[f] = pool[f]
      <3>1. DOMAIN touched = DOMAIN pool
        BY <2>2
      <3>2. /\ touched.virtual = scaled /\ touched.lastTimestamp = pool.now
            /\ \A f \in DOMAIN pool \ {"virtual", "lastTimestamp"} : touched[f] = pool[f]
        BY <2>1, <2>2
      <3>3. /\ DOMAIN q = DOMAIN pool /\ q.live = l /\ q.supply = supply
            /\ \A f \in DOMAIN pool \ {"live", "supply"} : q[f] = touched[f]
        BY <1>1, <3>1 DEF Refilled
      <3>4. q.virtual = touched.virtual /\ q.lastTimestamp = touched.lastTimestamp
            /\ q.now = touched.now /\ touched.now = pool.now
        BY <2>1, <3>2, <3>3
      <3>5. \A f \in DOMAIN pool \ Shifting : q[f] = pool[f]
        BY <3>2, <3>3 DEF Shifting
      <3> QED
        BY <3>2, <3>3, <3>4, <3>5
    <2>4. Virtual(q) = scaled
      BY <2>3 DEF Virtual, CurrentVirtualBalances
    <2>5. ASSUME supply = pool.supply, NEW i \in 1..2 PROVE scaled[i] = v[i]
      <3>1. v[i] \in Nat /\ supply \in Nat \ {0}
        BY <2>1 DEF PositivePair, Positive
      <3>2. (v[i] * supply) \div supply = v[i]
        BY <3>1, ShareEnds
      <3> QED
        BY <2>5, <3>2 DEF scaled
    <2> QED
      BY <1>1, <2>3, <2>4, <2>5 DEF SameTerms, v
  <1> QED
    BY <1>2, <1>3

\* What a fair operation does to the state.
FairEffect(gain, taken, supply) ==
    /\ Fair(gain, taken, supply)
    /\ raw' = Left(gain) /\ fees' \in Pairs(Nat) /\ base' = base
    /\ SameTerms(pool, pool') /\ "live" \in DOMAIN pool'
    /\ pool'.live = Live(pool, raw') /\ pool'.supply = supply
    /\ (pool.type = "ReClamm" /\ supply = pool.supply) =>
           \A i \in 1..2 : Virtual(pool')[i] = Virtual(pool)[i]

LEMMA FairStepEffect ==
    ASSUME BooksInv, VirtualBalancesPositive, FairStep
    PROVE  \E gain, taken, supply : FairEffect(gain, taken, supply)
  <1>1. PICK gain, taken, supply, after :
            Settle(gain, taken, supply, after) /\ Fair(gain, taken, supply)
    BY SMTT(30) DEF FairStep
  <1>2. PICK touched \in {Touched(pool, supply)} \ {Thrown} :
            /\ raw' = [i \in Tokens |-> raw[i] + gain[i]]
            /\ fees' = [i \in Tokens |-> fees[i] + taken[i]]
            /\ pool' = [touched EXCEPT !.live = Live(pool, raw'), !.supply = supply]
            /\ base' = base
    BY <1>1 DEF Settle
  <1>3. Tokens = 1..2 /\ fees \in Pairs(Nat)
    BY DEF BooksInv, Tokens, Pairs
  <1>4. raw' = Left(gain)
    BY <1>2, <1>3 DEF Left
  <1>5. fees' \in Pairs(Nat)
    BY <1>1, <1>2, <1>3 DEF Fair, Pairs
  <1>6. /\ SameTerms(pool, pool') /\ "live" \in DOMAIN pool'
        /\ pool'.live = Live(pool, raw') /\ pool'.supply = supply
        /\ (pool.type = "ReClamm" /\ supply = pool.supply) =>
               \A i \in 1..2 : Virtual(pool')[i] = Virtual(pool)[i]
    <2> DEFINE l == Live(pool, raw')
               q == pool'
    <2>1. supply \in Positive /\ touched = Touched(pool, supply) /\ touched # Thrown
          /\ q = Refilled(touched, l, supply)
      BY <1>1, <1>2 DEF Fair, Refilled
    <2> HIDE DEF l, q
    <2>2. /\ SameTerms(pool, q) /\ "live" \in DOMAIN q
          /\ q.live = l /\ q.supply = supply
          /\ (pool.type = "ReClamm" /\ supply = pool.supply) =>
                 \A i \in 1..2 : Virtual(q)[i] = Virtual(pool)[i]
      BY <2>1, TouchedPool
    <2> QED
      BY <2>2 DEF l, q
  <1> QED
    BY <1>1, <1>2, <1>4, <1>5, <1>6 DEF FairEffect

\* A fair operation keeps the invariant.
LEMMA FairStepKeeps ==
    ASSUME BooksInv, VirtualBalancesPositive, FairStep
    PROVE  BooksInv'
  <1>1. PICK gain, taken, supply : FairEffect(gain, taken, supply)
    BY FairStepEffect
  <1>2. raw \in Pairs(Nat) /\ raw' \in Pairs(Nat) /\ fees' \in Pairs(Nat)
    BY <1>1 DEF FairEffect, Fair, BooksInv
  <1>3. ClosedTerms(pool) /\ Priced(pool)
    BY BooksPriced DEF BooksInv
  <1>4. /\ SameTerms(pool, pool') /\ "live" \in DOMAIN pool' /\ base' = base
        /\ pool'.live = Live(pool, raw') /\ pool'.supply = supply
        /\ (pool.type = "ReClamm" /\ supply = pool.supply) =>
               \A i \in 1..2 : Virtual(pool')[i] = Virtual(pool)[i]
    BY <1>1 DEF FairEffect
  <1>5. ClosedTerms(pool') /\ pool'.type = pool.type /\ Live(pool', raw') = Live(pool, raw')
    BY <1>3, <1>4, TermsKept DEF Live, ScaledDown
  <1>6. /\ pool'.supply \in Positive /\ base'.supply \in Positive
        /\ pool'.supply <= base'.supply
    BY <1>1, <1>4 DEF BooksInv, FairEffect, Fair, Positive
  <1>7. pool'.type = "Weighted" => raw' \in Pairs(Positive)
    BY <1>1, <1>5 DEF FairEffect, Fair
  <1>8. Kept'
    <2> SUFFICES ASSUME pool'.supply = base'.supply
                 PROVE  Value(pool', base'.raw) <= Value(pool', raw')
      BY DEF Kept
    <2>1. supply = pool.supply /\ pool.supply = base.supply
      BY <1>1, <1>4 DEF BooksInv, FairEffect, Fair, Positive
    <2>2. Value(pool, base.raw) <= Value(pool, raw) /\ Value(pool, raw) <= Value(pool, raw')
      BY <1>1, <2>1 DEF BooksInv, Kept, FairEffect, Fair
    <2>3. base.raw \in Pairs(Nat) /\ base'.raw = base.raw
      BY <1>4 DEF BooksInv
    <2>4. Value(pool', base.raw) = Value(pool, base.raw) /\ Value(pool', raw') = Value(pool, raw')
      BY <1>2, <1>3, <1>4, <2>1, <2>3, ValueKept
    <2>5. Value(pool, base.raw) \in Int /\ Value(pool, raw) \in Int /\ Value(pool, raw') \in Int
      BY <1>2, <1>3, <2>3, ValueNat
    <2>6. Value(pool, base.raw) <= Value(pool, raw')
      BY <2>2, <2>5
    <2> QED
      BY <2>3, <2>4, <2>6
  <1>9. base'.raw \in Pairs(Nat)
    BY <1>4 DEF BooksInv
  <1> QED
    BY <1>2, <1>4, <1>5, <1>6, <1>7, <1>8, <1>9 DEF BooksInv

-----------------------------------------------------------------------------
(* Every operation is fair *)

LEMMA LeftNat ==
    ASSUME BooksInv, NEW gain \in Pairs(Int), NEW taken, NEW supply, NEW after,
           Settle(gain, taken, supply, after)
    PROVE  Left(gain) \in Pairs(Nat) /\ supply >= MinimumSupply
  <1>1. Tokens = 1..2 /\ \A i \in 1..2 : raw[i] \in Nat /\ gain[i] \in Int
    BY DEF BooksInv, Tokens, Pairs
  <1>2. supply >= MinimumSupply /\ \A i \in 1..2 : raw[i] + gain[i] >= 0
    BY <1>1 DEF Settle
  <1> QED
    BY <1>1, <1>2 DEF Left, Pairs

LEMMA FairOfSameShares ==
    ASSUME BooksInv, VirtualBalancesPositive, NEW gain \in Pairs(Int), NEW taken \in Pairs(Nat),
           Left(gain) \in Pairs(Nat), pool.type = "Weighted" => Left(gain) \in Pairs(Positive),
           Value(pool, raw) <= Value(pool, Left(gain))
    PROVE  Fair(gain, taken, pool.supply)
  <1> DEFINE x == Value(pool, raw)
             y == Value(pool, Left(gain))
             z == pool.supply
  <1>1. x \in Nat /\ y \in Nat /\ z \in Positive /\ z \in Nat /\ z <= z
    BY BooksPriced, ValueNat DEF BooksInv, Positive
  <1>2. x <= y
    OBVIOUS
  <1> HIDE DEF x, y, z
  <1>3. x * z <= y * z
    <2>1. z * x <= z * y
      BY <1>1, <1>2, MulMonotone
    <2> QED
      BY <1>1, <2>1
  <1> QED
    BY <1>1, <1>3 DEF Fair, x, y, z

LEMMA SwapFair ==
    ASSUME BooksInv, VirtualBalancesPositive, NEW kind \in Kinds, NEW in \in 1..2, NEW out \in 1..2,
           NEW amount \in Nat, Swap(kind, in, out, amount)
    PROVE  FairStep
  <1> DEFINE r == VaultSwap(pool, kind, in, out, amount)
             gain == [i \in Tokens |-> IF i = in THEN r.in - r.fee
                                       ELSE IF i = out THEN -r.out ELSE 0]
             taken == OnlyAt(in, r.fee)
             s == Left(gain)
             c == Live(pool, s)
  <1>1. pool.type # "Buffer" /\ in # out /\ r # Thrown /\ Settle(gain, taken, pool.supply, r.after)
    BY DEF Swap
  <1>2. Tokens = 1..2 /\ raw \in Pairs(Nat) /\ raw[in] \in Nat /\ raw[out] \in Nat
    BY DEF BooksInv, Tokens, Pairs
  <1>3. Priced(pool) /\ CommonTerms(pool) /\ pool.live = Live(pool, raw)
    BY BooksPriced DEF BooksInv, ClosedTerms
  <1>4. pool.live \in Pairs(Nat) /\ Swaps(pool)
    BY <1>1, <1>2, <1>3, LiveAt DEF Swaps
  <1>5. PICK net, paid \in Positive :
            Asked(pool, in, out, net, paid) /\ Books(pool, in, out, r, net, paid)
    BY <1>1, <1>4, ClosedAnswers, SwapBooksPrice
  <1>6. /\ r.in \in Nat /\ r.out \in Nat /\ r.fee \in Nat
        /\ Wad * net + Fr(pool, in) * r.fee <= Fr(pool, in) * r.in
        /\ Fr(pool, out) * r.out <= Wad * paid
    BY <1>5 DEF Books
  <1> HIDE DEF r
  <1>7. /\ gain \in Pairs(Int) /\ taken \in Pairs(Nat)
        /\ gain[in] = r.in - r.fee /\ gain[out] = -r.out
    BY <1>1, <1>2, <1>6 DEF Pairs, OnlyAt
  <1>8. s \in Pairs(Nat)
    <2> HIDE DEF gain, taken
    <2> QED
      BY <1>1, <1>7, LeftNat
  <1>9. s[in] = raw[in] + (r.in - r.fee) /\ s[out] = raw[out] - r.out
    BY <1>2, <1>6, <1>7 DEF Left
  <1> HIDE DEF gain, taken, s
  <1>10. Fr(pool, in) * raw[in] + Wad * net <= Fr(pool, in) * s[in]
    <2> DEFINE d == Fr(pool, in)
               x == raw[in]
               a == r.in
               f == r.fee
    <2>1. /\ d \in Nat /\ Wad \in Nat /\ net \in Nat /\ x \in Nat /\ a \in Nat /\ f \in Nat
          /\ s[in] = x + (a - f) /\ Wad * net + d * f <= d * a
      BY <1>2, <1>3, <1>6, <1>9, FrWhole DEF Positive
    <2> HIDE DEF d, x, a, f
    <2>2. /\ d * (x + (a - f)) = d * x + (d * a - d * f)
          /\ d * x \in Int /\ d * a \in Int /\ d * f \in Int /\ Wad * net \in Int
      BY <2>1
    <2>3. d * x + Wad * net <= d * (x + (a - f))
      BY <2>1, <2>2
    <2> QED
      BY <2>1, <2>3 DEF d, x
  <1>11. Fr(pool, out) * raw[out] + Wad * (-paid) <= Fr(pool, out) * s[out]
    <2> DEFINE d == Fr(pool, out)
               x == raw[out]
               a == r.out
    <2>1. /\ d \in Nat /\ Wad \in Nat /\ paid \in Nat /\ x \in Nat /\ a \in Nat
          /\ s[out] = x - a /\ d * a <= Wad * paid
      BY <1>2, <1>3, <1>6, <1>9, FrWhole DEF Positive
    <2> HIDE DEF d, x, a
    <2>2. /\ d * (x - a) = d * x - d * a /\ Wad * (-paid) = -(Wad * paid)
          /\ d * x \in Int /\ d * a \in Int /\ Wad * paid \in Int
      BY <2>1
    <2>3. d * x + Wad * (-paid) <= d * (x - a)
      BY <2>1, <2>2
    <2> QED
      BY <2>1, <2>3 DEF d, x
  <1>12. c \in Pairs(Nat) /\ Swapped(pool.live, c, in, out, net, paid)
    <2>1. c \in Pairs(Nat)
      BY <1>3, <1>8, LiveAt
    <2>2. pool.live[in] + net <= c[in]
      <3>1. net \in Int
        BY DEF Positive
      <3> QED
        BY <1>2, <1>3, <1>8, <1>10, <3>1, LiveGain
    <2>3. pool.live[out] - paid <= c[out]
      <3>1. -paid \in Int /\ paid \in Int /\ pool.live[out] \in Int
        BY <1>4 DEF Positive, Pairs
      <3>2. pool.live[out] + (-paid) <= c[out]
        BY <1>2, <1>3, <1>8, <1>11, <3>1, LiveGain
      <3>3. pool.live[out] + (-paid) = pool.live[out] - paid
        BY <3>1
      <3> QED
        BY <3>2, <3>3
    <2> QED
      BY <2>1, <2>2, <2>3 DEF Swapped
  <1>13. /\ Worth(pool, Virtual(pool), pool.live) <= Worth(pool, Virtual(pool), c)
         /\ pool.type = "Weighted" => \A i \in 1..2 : c[i] >= 1
    BY <1>1, <1>4, <1>5, <1>12, PriceKeepsWorth
  <1>14. Value(pool, raw) <= Value(pool, s)
    BY <1>1, <1>3, <1>13 DEF Value
  <1>15. pool.type = "Weighted" => s \in Pairs(Positive)
    <2> SUFFICES ASSUME pool.type = "Weighted" PROVE s \in Pairs(Positive)
      OBVIOUS
    <2>1. \A i \in 1..2 : s[i] >= 1
      BY <1>3, <1>8, <1>13, LivePositive
    <2> QED
      BY <1>8, <2>1 DEF Pairs, Positive
  <1>16. Fair(gain, taken, pool.supply)
    BY <1>7, <1>8, <1>14, <1>15, FairOfSameShares DEF s
  <1> QED
    BY <1>1, <1>16 DEF FairStep

LEMMA WrapFair ==
    ASSUME BooksInv, VirtualBalancesPositive, NEW kind \in Kinds, NEW in \in 1..2,
           NEW amount \in Nat, Wrap(kind, in, amount)
    PROVE  FairStep
  <1>1. Tokens = 1..2 /\ raw \in Pairs(Nat) /\ raw[1] \in Nat /\ raw[2] \in Nat
    BY DEF BooksInv, Tokens, Pairs
  <1>2. Priced(pool) /\ pool.type = "Buffer"
    BY BooksPriced DEF BooksInv, Wrap
  <1>3. /\ pool.rate \in Nat \ {0} /\ pool.rate \in Nat /\ Wad \in Nat
        /\ \A r : Value(pool, r) = Wad * r[1] + pool.rate * r[2]
    BY <1>2, BufferValue DEF Positive
  <1>4. PICK other \in {BufferWrapOrUnwrap(pool, kind, in, amount)} \ {Thrown} :
            Settle([i \in Tokens |-> IF i = in THEN (IF kind = "GivenIn" THEN amount ELSE other)
                                     ELSE -(IF kind = "GivenIn" THEN other ELSE amount)],
                   OnlyAt(in, 0), pool.supply, <<>>)
    BY DEF Wrap
  <1> DEFINE paid == IF kind = "GivenIn" THEN amount ELSE other
             got == IF kind = "GivenIn" THEN other ELSE amount
             gain == [i \in Tokens |-> IF i = in THEN paid ELSE -got]
             taken == OnlyAt(in, 0)
             s == Left(gain)
  <1>5. other = BufferAmount(pool, kind, in, amount) /\ other # Thrown
    BY <1>4 DEF BufferWrapOrUnwrap
  <1>6. /\ paid \in Nat /\ got \in Nat
        /\ IF in = 1 THEN pool.rate * got <= Wad * paid ELSE Wad * got <= pool.rate * paid
    <2>1. amount * Wad = Wad * amount /\ amount * pool.rate = pool.rate * amount
      BY <1>3
    <2>2. CASE in = 1 /\ kind = "GivenIn"
      <3>1. other = DivDown(amount, pool.rate)
        BY <1>5, <2>2 DEF BufferAmount
      <3> QED
        BY <1>3, <2>1, <2>2, <3>1, DivDownBounds
    <2>3. CASE in = 1 /\ kind = "GivenOut"
      <3>1. other = MulUp(amount, pool.rate)
        BY <1>5, <2>3 DEF BufferAmount
      <3> QED
        BY <1>3, <2>1, <2>3, <3>1, MulUpBounds
    <2>4. CASE in # 1 /\ kind = "GivenIn"
      <3>1. other = MulDown(amount, pool.rate)
        BY <1>5, <2>4 DEF BufferAmount
      <3> QED
        BY <1>3, <2>1, <2>4, <3>1, MulDownBounds
    <2>5. CASE in # 1 /\ kind = "GivenOut"
      <3>1. other = DivUpFixed(amount, pool.rate)
        BY <1>5, <2>5 DEF BufferAmount
      <3> QED
        BY <1>3, <2>1, <2>5, <3>1, DivUpFixedBounds
    <2> QED
      BY <2>2, <2>3, <2>4, <2>5 DEF Kinds
  <1>7. Settle(gain, taken, pool.supply, <<>>)
    BY <1>4
  <1> HIDE DEF paid, got
  <1>8. gain \in Pairs(Int) /\ taken \in Pairs(Nat)
    BY <1>1, <1>6 DEF Pairs, OnlyAt
  <1>9. s \in Pairs(Nat)
    <2> HIDE DEF gain, taken
    <2> QED
      BY <1>7, <1>8, LeftNat
  <1>10. \A i \in 1..2 : s[i] = raw[i] + (IF i = in THEN paid ELSE -got)
    BY <1>1 DEF Left
  <1> HIDE DEF gain, taken, s
  <1>11. Wad * raw[1] + pool.rate * raw[2] <= Wad * s[1] + pool.rate * s[2]
    <2>1. s[1] \in Nat /\ s[2] \in Nat
      BY <1>9 DEF Pairs
    <2>2. CASE in = 1
      <3>1. raw[1] + paid <= s[1] /\ raw[2] - got <= s[2] /\ pool.rate * got <= Wad * paid
        BY <1>1, <1>6, <1>10, <2>1, <2>2
      <3> QED
        BY <1>1, <1>3, <1>6, <2>1, <3>1, LinearPrice
    <2>3. CASE in = 2
      <3>1. raw[2] + paid <= s[2] /\ raw[1] - got <= s[1] /\ Wad * got <= pool.rate * paid
        BY <1>1, <1>6, <1>10, <2>1, <2>3
      <3>2. pool.rate * raw[2] + Wad * raw[1] <= pool.rate * s[2] + Wad * s[1]
        BY <1>1, <1>3, <1>6, <2>1, <3>1, LinearPrice
      <3>3. /\ pool.rate * raw[2] \in Int /\ Wad * raw[1] \in Int
            /\ pool.rate * s[2] \in Int /\ Wad * s[1] \in Int
        BY <1>1, <1>3, <2>1
      <3> QED
        BY <3>2, <3>3
    <2> QED
      BY <2>2, <2>3
  <1>12. Value(pool, raw) <= Value(pool, s)
    BY <1>3, <1>11
  <1>13. Fair(gain, taken, pool.supply)
    BY <1>2, <1>8, <1>9, <1>12, FairOfSameShares DEF s
  <1> QED
    BY <1>7, <1>13 DEF FairStep

LEMMA DonateFair ==
    ASSUME BooksInv, VirtualBalancesPositive, Donate
    PROVE  FairStep
  <1>1. Tokens = 1..2 /\ raw \in Pairs(Nat) /\ Priced(pool)
    BY BooksPriced DEF BooksInv, Tokens, Pairs
  <1> DEFINE fee(amount) == DonationFee(amount, pool.protocolFee)
  <1>2. PICK j \in Tokens, amount \in TokenAmounts :
            /\ pool.type = "Weighted" /\ pool.protocolFee \in 1..MaxProtocolFee
            /\ Settle(OnlyAt(j, amount - fee(amount)), OnlyAt(j, fee(amount)), pool.supply, <<>>)
    BY DEF Donate
  <1> DEFINE f == fee(amount)
             gain == OnlyAt(j, amount - f)
             taken == OnlyAt(j, f)
             s == Left(gain)
  <1>3. amount \in Nat /\ j \in 1..2 /\ Wad \in Nat \ {0}
    BY <1>1, <1>2, AmountsAssumption, WadAssumption
  <1>4. pool.protocolFee \in Nat /\ pool.protocolFee <= Wad
    <2>1. Wad \div 2 \in Int /\ 2 * (Wad \div 2) <= Wad
      BY <1>3, DivBounds
    <2>2. pool.protocolFee \in Nat /\ pool.protocolFee <= Wad \div 2
      BY <1>2, <2>1 DEF MaxProtocolFee
    <2> QED
      BY <1>3, <2>1, <2>2
  <1>5. f \in Nat /\ f <= amount
    <2> DEFINE q == pool.protocolFee
    <2>1. f \in Nat /\ Wad * f < amount * q + Wad
      BY <1>3, <1>4, MulUpBounds DEF DonationFee
    <2>2. amount * q <= amount * Wad /\ q \in Nat
      BY <1>3, <1>4, MulMonotone
    <2> HIDE DEF f, q
    <2>3. amount * Wad = Wad * amount /\ Wad * amount \in Int /\ amount * q \in Int /\ Wad * f \in Int
      BY <1>3, <2>1, <2>2
    <2>4. Wad * f < Wad * amount + Wad
      BY <1>3, <2>1, <2>2, <2>3
    <2> QED
      BY <1>3, <2>1, <2>4, MulCancel
  <1>6. Settle(gain, taken, pool.supply, <<>>)
    BY <1>2
  <1> HIDE DEF f
  <1>7. gain \in Pairs(Int) /\ taken \in Pairs(Nat) /\ \A i \in 1..2 : gain[i] >= 0
    BY <1>1, <1>3, <1>5 DEF Pairs, OnlyAt
  <1> HIDE DEF gain, taken
  <1>8. s \in Pairs(Nat)
    BY <1>6, <1>7, LeftNat
  <1>9. \A i \in 1..2 : raw[i] <= s[i]
    BY <1>1, <1>7 DEF Left, Pairs
  <1> HIDE DEF s
  <1>10. Value(pool, raw) <= Value(pool, s)
    BY <1>1, <1>8, <1>9, ValueMonotone
  <1>11. s \in Pairs(Positive)
    <2>1. raw \in Pairs(Positive)
      BY <1>2 DEF BooksInv
    <2> QED
      BY <1>8, <1>9, <2>1 DEF Pairs, Positive
  <1>12. Fair(gain, taken, pool.supply)
    BY <1>7, <1>8, <1>10, <1>11, FairOfSameShares DEF s
  <1> QED
    BY <1>6, <1>12 DEF FairStep

\* A proportional removal of k out of z shares pays o out of a scaled balance of
\* b, which is t in raw units worth d.
PaidPart(b, z, k, d, o, t) == k <= z /\ z * o <= b * k /\ d * t <= Wad * o

LEMMA RemovedPart ==
    ASSUME NEW b \in Nat, NEW z \in Nat \ {0}, NEW k \in Nat, NEW d \in Nat \ {0},
           NEW o \in Nat, NEW t \in Nat, PaidPart(b, z, k, d, o, t)
    PROVE  /\ b * (z - k) <= (b - o) * z
           /\ k = 0 => t = 0
           /\ (k < z /\ b >= 1) => o < b
  <1>0. k <= z /\ z * o <= b * k /\ d * t <= Wad * o
    BY DEF PaidPart
  <1>1. b * k \in Nat /\ Wad \in Nat \ {0}
    BY MulNat, WadAssumption
  <1>2. b * (z - k) <= (b - o) * z
    <2>1. b * (z - k) = b * z - b * k /\ (b - o) * z = b * z - z * o
      OBVIOUS
    <2>2. b * z \in Int /\ b * k \in Int /\ z * o \in Int
      OBVIOUS
    <2> QED
      BY <1>0, <2>1, <2>2
  <1>3. ASSUME k = 0 PROVE t = 0
    <2>1. b * k = 0 /\ z * 0 = 0
      BY <1>3
    <2>2. z * o < z * 0 + z
      BY <1>0, <2>1
    <2>3. o = 0
      BY <2>2, MulCancel
    <2>4. Wad * 0 = 0 /\ d * 0 = 0
      BY <1>1
    <2>5. d * t < d * 0 + d
      BY <1>0, <2>3, <2>4
    <2> QED
      BY <2>5, MulCancel
  <1>4. ASSUME k < z, b >= 1 PROVE o < b
    <2>1. b * (k + 1) <= b * z /\ b * (k + 1) = b * k + b /\ b * z = z * b /\ z * b \in Int
      <3>1. k + 1 \in Int /\ k + 1 <= z
        BY <1>0, <1>4
      <3> QED
        BY <3>1, MulMonotone
    <2>2. z * o \in Int /\ z * o + b <= z * b
      BY <1>0, <1>1, <2>1
    <2>3. z * (o + 1) = z * o + z
      OBVIOUS
    <2>4. z * (o + 1) < z * b + z
      BY <1>4, <2>1, <2>2, <2>3
    <2>5. o + 1 <= b
      BY <2>4, MulCancel
    <2> QED
      BY <2>5
  <1> QED
    BY <1>2, <1>3, <1>4

\* Where the balances are for each share, so is what is worth a constant.
LEMMA LinearShares ==
    ASSUME NEW w \in Nat, NEW u \in Nat, NEW x \in Nat, NEW y \in Nat, NEW a \in Nat, NEW b \in Nat,
           NEW m \in Nat, NEW n \in Nat, x * m <= a * n, y * m <= b * n
    PROVE  (w * x + u * y) * m <= (w * a + u * b) * n
  <1>1. w * (x * m) <= w * (a * n) /\ u * (y * m) <= u * (b * n)
    <2>1. x * m \in Int /\ a * n \in Int /\ y * m \in Int /\ b * n \in Int
      OBVIOUS
    <2> QED
      BY <2>1, MulMonotone
  <1>2. /\ (w * x + u * y) * m = w * (x * m) + u * (y * m)
        /\ (w * a + u * b) * n = w * (a * n) + u * (b * n)
    OBVIOUS
  <1>3. /\ w * (x * m) \in Int /\ w * (a * n) \in Int
        /\ u * (y * m) \in Int /\ u * (b * n) \in Int
    OBVIOUS
  <1> QED
    BY <1>1, <1>2, <1>3

LEMMA RemovalFair ==
    ASSUME BooksInv, VirtualBalancesPositive, NEW bpt \in Nat, bpt <= pool.supply,
           pool.type # "Buffer", SettleRemoval(RemoveProportional(pool, bpt))
    PROVE  FairStep
  <1> DEFINE out == ProportionalAmountsOut(pool.live, pool.supply, bpt)
             r == RemoveProportional(pool, bpt)
             gain == [i \in Tokens |-> -r.amounts[i] - r.fees[i]]
             supply == pool.supply - bpt
             s == Left(gain)
             c == Live(pool, s)
  <1>1. /\ Tokens = 1..2 /\ raw \in Pairs(Nat) /\ DOMAIN raw = 1..2
        /\ Priced(pool) /\ CommonTerms(pool) /\ pool.live = Live(pool, raw)
        /\ pool.supply \in Nat \ {0}
    BY BooksPriced DEF BooksInv, Tokens, Pairs, ClosedTerms, Positive
  <1>2. pool.live \in Pairs(Nat) /\ DOMAIN pool.live = 1..2
    BY <1>1, LiveAt DEF Pairs
  <1>3. \A i \in 1..2 :
            /\ pool.live[i] \in Nat /\ raw[i] \in Nat
            /\ pool.factors[i] \in Positive /\ pool.rates[i] \in Positive
    BY <1>1, <1>2 DEF CommonTerms, Pairs
  <1>4. /\ r.bpt = bpt
        /\ \A i \in 1..2 :
               /\ out[i] = Quot(pool.live[i] * bpt, pool.supply)
               /\ r.amounts[i] = ToRawRoundDown(out[i], pool.factors[i], pool.rates[i])
               /\ r.fees[i] = 0
        /\ r.fees \in Pairs(Nat)
    <2>1. DOMAIN out = 1..2 /\ \A i \in 1..2 : out[i] = Quot(pool.live[i] * bpt, pool.supply)
      BY <1>2 DEF ProportionalAmountsOut
    <2> HIDE DEF out
    <2>2. /\ r.amounts = RawDown(pool, out) /\ r.bpt = bpt
          /\ r.fees = AggregateFees(pool, NoFees(pool.live))
      BY DEF RemoveProportional, Removed, out
    <2> HIDE DEF r
    <2>3. \A i \in 1..2 : r.amounts[i] = ToRawRoundDown(out[i], pool.factors[i], pool.rates[i])
      BY <2>1, <2>2 DEF RawDown
    <2>4. r.fees = [i \in 1..2 |-> 0]
      BY <1>2, <2>2 DEF AggregateFees, NoFees, AggregateFee
    <2> QED
      BY <2>1, <2>2, <2>3, <2>4 DEF Pairs
  <1>5. Settle(gain, r.fees, supply, r.after)
    BY <1>4 DEF SettleRemoval
  <1> DEFINE t(i) == r.amounts[i]
  <1>6. ASSUME NEW i \in 1..2
        PROVE  /\ out[i] \in Nat /\ t(i) \in Nat
               /\ Fr(pool, i) * t(i) <= Wad * out[i]
               /\ pool.live[i] * supply <= (pool.live[i] - out[i]) * pool.supply
               /\ bpt = 0 => t(i) = 0
               /\ (bpt < pool.supply /\ pool.live[i] >= 1) => out[i] < pool.live[i]
    <2> HIDE DEF out, r
    <2> DEFINE b == pool.live[i]
               z == pool.supply
               f == pool.factors[i]
               m == pool.rates[i]
               o == out[i]
               e == t(i)
    <2>1. /\ b \in Nat /\ z \in Nat \ {0} /\ bpt \in Nat /\ bpt <= z
          /\ f \in Positive /\ m \in Positive
          /\ o = Quot(b * bpt, z) /\ e = ToRawRoundDown(o, f, m)
      BY <1>1, <1>3, <1>4
    <2> HIDE DEF b, z, f, m, o, e
    <2>2. o \in Nat /\ z * o <= b * bpt
      <3> DEFINE n == b * bpt
      <3>1. n \in Nat /\ o = Quot(n, z)
        BY <2>1, MulNat
      <3> HIDE DEF n
      <3>2. o \in Nat /\ z * o <= n
        BY <2>1, <3>1, QuotNat
      <3> QED
        BY <3>2 DEF n
    <2>3. e \in Nat /\ (f * m) * e <= Wad * o
      BY <2>1, <2>2, ToRawDownBounds
    <2>4. f * m \in Nat \ {0}
      BY <2>1 DEF Positive
    <2>5. /\ b * (z - bpt) <= (b - o) * z
          /\ bpt = 0 => e = 0
          /\ (bpt < z /\ b >= 1) => o < b
      <3> DEFINE d == f * m
      <3>1. d \in Nat \ {0} /\ PaidPart(b, z, bpt, d, o, e)
        BY <2>1, <2>2, <2>3, <2>4 DEF PaidPart
      <3> HIDE DEF d
      <3> QED
        BY <2>1, <2>2, <2>3, <3>1, RemovedPart
    <2> QED
      BY <2>2, <2>3, <2>5 DEF Fr, b, z, f, m, o, e
  <1> HIDE DEF out, r
  <1>7. gain \in Pairs(Int) /\ \A i \in 1..2 : gain[i] = -t(i)
    <2>1. \A i \in 1..2 : t(i) \in Nat /\ r.fees[i] = 0
      BY <1>4, <1>6
    <2> QED
      BY <1>1, <2>1 DEF Pairs
  <1>8. s \in Pairs(Nat) /\ supply >= MinimumSupply
    <2> HIDE DEF gain, supply
    <2> QED
      BY <1>5, <1>7, LeftNat
  <1>9. \A i \in 1..2 : s[i] = raw[i] - t(i)
    BY <1>3, <1>6, <1>7 DEF Left
  <1>10. supply \in Positive /\ supply \in Nat /\ supply <= pool.supply /\ bpt < pool.supply
    BY <1>1, <1>8, AmountsAssumption DEF Positive
  <1> HIDE DEF gain, s
  <1>11. c \in Pairs(Nat)
    BY <1>1, <1>8, LiveAt
  <1>12. ASSUME NEW i \in 1..2 PROVE pool.live[i] - out[i] <= c[i]
    <2> DEFINE d == Fr(pool, i)
               x == raw[i]
               o == out[i]
               e == t(i)
    <2>1. /\ d \in Nat /\ Wad \in Nat /\ x \in Nat /\ e \in Nat /\ o \in Nat
          /\ s[i] = x - e /\ d * e <= Wad * o
      BY <1>1, <1>3, <1>6, <1>9, FrWhole DEF Positive
    <2> HIDE DEF d, x, o, e
    <2>2. /\ d * (x - e) = d * x - d * e /\ Wad * (-o) = -(Wad * o)
          /\ d * x \in Int /\ d * e \in Int /\ Wad * o \in Int /\ -o \in Int
      BY <2>1
    <2>3. d * x + Wad * (-o) <= d * s[i]
      BY <2>1, <2>2
    <2>4. Live(pool, raw)[i] + (-o) <= c[i]
      BY <1>1, <1>8, <2>2, <2>3, LiveGain DEF d, x
    <2>5. Live(pool, raw)[i] + (-o) = pool.live[i] - o
      BY <1>1, <1>3, <2>1
    <2> QED
      BY <2>4, <2>5 DEF o
  <1>13. pool.type = "Weighted" => s \in Pairs(Positive)
    <2> SUFFICES ASSUME pool.type = "Weighted", NEW i \in 1..2 PROVE s[i] >= 1
      BY <1>8 DEF Pairs, Positive
    <2>1. raw[i] >= 1
      BY DEF BooksInv, Pairs, Positive
    <2>2. pool.live[i] >= 1
      BY <1>1, <2>1, LivePositive
    <2>3. out[i] < pool.live[i]
      BY <1>6, <1>10, <2>2
    <2>4. c[i] >= 1
      BY <1>3, <1>6, <1>11, <1>12, <2>3 DEF Pairs
    <2> QED
      BY <1>1, <1>8, <2>4, LivePositive
  <1>14. supply = pool.supply => Value(pool, raw) <= Value(pool, s)
    <2> SUFFICES ASSUME supply = pool.supply PROVE Value(pool, raw) <= Value(pool, s)
      OBVIOUS
    <2>1. bpt = 0
      BY <1>1
    <2>2. \A i \in 1..2 : raw[i] <= s[i]
      BY <1>3, <1>6, <1>9, <2>1
    <2> QED
      BY <1>1, <1>8, <2>2, ValueMonotone
  <1>15. ASSUME pool.type \in {"Sum", "FixedLBP"}
         PROVE  Value(pool, raw) * supply <= Value(pool, s) * pool.supply
    <2>1. /\ Value(pool, raw) = Worth(pool, Virtual(pool), pool.live)
          /\ Value(pool, s) = Worth(pool, Virtual(pool), c)
      BY <1>1, <1>15 DEF Value
    <2>2. ASSUME NEW i \in 1..2
          PROVE  /\ pool.live[i] \in Nat /\ c[i] \in Nat
                 /\ pool.live[i] * supply <= c[i] * pool.supply
      <3> DEFINE b == pool.live[i]
                 o == out[i]
                 g == c[i]
                 z == pool.supply
      <3>1. b \in Nat /\ o \in Nat /\ g \in Nat /\ z \in Nat /\ supply \in Nat /\ b - o <= g
        BY <1>1, <1>3, <1>6, <1>10, <1>11, <1>12 DEF Pairs
      <3>2. b * supply <= (b - o) * z
        BY <1>6
      <3> HIDE DEF b, o, g, z, supply
      <3>3. z * (b - o) <= z * g /\ z * (b - o) = (b - o) * z /\ z * g = g * z
        BY <3>1, MulMonotone
      <3>4. b * supply \in Int /\ (b - o) * z \in Int /\ g * z \in Int
        BY <3>1
      <3>5. b * supply <= g * z
        BY <3>2, <3>3, <3>4
      <3> QED
        BY <3>1, <3>5 DEF b, g, z
    <2> HIDE DEF c, supply
    <2>3. /\ pool.live[1] \in Nat /\ c[1] \in Nat /\ pool.live[2] \in Nat /\ c[2] \in Nat
          /\ pool.live[1] * supply <= c[1] * pool.supply
          /\ pool.live[2] * supply <= c[2] * pool.supply
          /\ Wad \in Nat /\ supply \in Nat /\ pool.supply \in Nat
      BY <1>1, <1>10, <2>2, WadAssumption
    <2>4. CASE pool.type = "Sum"
      <3>1. pool.rate \in Nat
        BY <1>1, <2>4, ClassOf DEF SumTerms, FixedTerms, ReClammTerms, EqualTerms, Positive
      <3>2. (pool.rate * pool.live[1] + Wad * pool.live[2]) * supply
              <= (pool.rate * c[1] + Wad * c[2]) * pool.supply
        BY <2>3, <3>1, LinearShares
      <3> QED
        BY <2>1, <2>4, <3>2 DEF Worth
    <2>5. CASE pool.type = "FixedLBP"
      <3>1. pool.rate \in Nat /\ (pool.project = 1 \/ pool.project = 2)
        BY <1>1, <2>5, ClassOf DEF SumTerms, FixedTerms, ReClammTerms, EqualTerms, Positive
      <3>2. (pool.rate * pool.live[1] + Wad * pool.live[2]) * supply
              <= (pool.rate * c[1] + Wad * c[2]) * pool.supply
        BY <2>3, <3>1, LinearShares
      <3>3. (pool.rate * pool.live[2] + Wad * pool.live[1]) * supply
              <= (pool.rate * c[2] + Wad * c[1]) * pool.supply
        BY <2>3, <3>1, LinearShares
      <3> QED
        BY <2>1, <2>5, <3>1, <3>2, <3>3 DEF Worth
    <2> QED
      BY <1>15, <2>4, <2>5
  <1>16. Fair(gain, r.fees, supply)
    BY <1>4, <1>7, <1>8, <1>10, <1>13, <1>14, <1>15 DEF Fair, s
  <1> QED
    BY <1>5, <1>16 DEF FairStep

-----------------------------------------------------------------------------
(* New terms, and the invariant of the specification *)

LEMMA NewTermsKeep ==
    ASSUME BooksInv, VirtualBalancesPositive', NEW p, NewTerms(p), ClosedTerms(p),
           "live" \in DOMAIN p, p.live = Live(p, raw), p.supply = pool.supply, p.type = pool.type
    PROVE  BooksInv'
  <1>1. /\ pool' = p /\ raw' = raw /\ base'.raw = raw /\ base'.supply = pool.supply
        /\ fees' = [i \in Tokens |-> 0]
    BY DEF NewTerms
  <1>2. Tokens = 1..2 /\ raw \in Pairs(Nat) /\ pool.supply \in Positive /\ pool.supply <= pool.supply
    BY DEF BooksInv, Tokens, Pairs, Positive
  <1>3. fees' \in Pairs(Nat)
    BY <1>1, <1>2 DEF Pairs
  <1>4. Priced(p)
    <2>1. HasPrice(p)
      BY <1>1 DEF VirtualBalancesPositive, HasPrice, Virtual
    <2> QED
      BY <2>1, PricedOf
  <1>5. Value(p, raw) \in Nat
    BY <1>2, <1>4, ValueNat
  <1>6. Kept'
    <2>1. Value(p, raw) <= Value(p, raw)
      BY <1>5
    <2> QED
      BY <1>1, <2>1 DEF Kept
  <1>7. p.type = "Weighted" => raw \in Pairs(Positive)
    BY DEF BooksInv
  <1> QED
    BY <1>1, <1>2, <1>3, <1>6, <1>7 DEF BooksInv

LEMMA TickKeeps ==
    ASSUME BooksInv, VirtualBalancesPositive', Tick
    PROVE  BooksInv'
  <1> DEFINE p == [pool EXCEPT !.now = @ + 1]
  <1>1. NewTerms(p)
    BY DEF Tick
  <1>2. ClosedTerms(pool) /\ {"live", "supply", "type"} \subseteq DOMAIN pool
    BY DEF BooksInv, ClosedTerms, CommonTerms
  <1>3. /\ DOMAIN p = DOMAIN pool /\ \A f \in DOMAIN pool \ {"now"} : p[f] = pool[f]
        /\ p.live = pool.live /\ p.supply = pool.supply /\ p.type = pool.type
    BY <1>2
  <1> HIDE DEF p
  <1>4. SameTerms(pool, p)
    BY <1>3 DEF SameTerms, Shifting
  <1>5. ClosedTerms(p) /\ p.live = Live(p, raw)
    BY <1>2, <1>3, <1>4, TermsKept DEF BooksInv, Live, ScaledDown
  <1> QED
    BY <1>1, <1>2, <1>3, <1>5, NewTermsKeep

LEMMA ChangeRatesKeeps ==
    ASSUME BooksInv, VirtualBalancesPositive', ChangeRates
    PROVE  BooksInv'
  <1>1. PICK rates \in pool.nextRates :
            NewTerms([[pool EXCEPT !.rates = rates, !.nextRates = {}]
                        EXCEPT !.live = Live([pool EXCEPT !.rates = rates, !.nextRates = {}], raw)])
    BY DEF ChangeRates
  <1> DEFINE m == [pool EXCEPT !.rates = rates, !.nextRates = {}]
             p == [m EXCEPT !.live = Live(m, raw)]
  <1>2. ClosedTerms(pool) /\ CommonTerms(pool) /\ "live" \in DOMAIN pool
    BY DEF BooksInv, ClosedTerms
  <1>3. {"type", "raw", "supply", "factors", "rates", "nextRates", "swapFee", "aggregateFee",
         "unbalanced", "hook", "protocolFee"} \subseteq DOMAIN pool
    BY <1>2 DEF CommonTerms
  <1>4. /\ DOMAIN m = DOMAIN pool /\ m.rates = rates /\ m.nextRates = {}
        /\ m.factors = pool.factors
        /\ \A f \in DOMAIN pool \ {"rates", "nextRates"} : m[f] = pool[f]
    BY <1>3
  <1>5. /\ DOMAIN p = DOMAIN pool /\ p.live = Live(m, raw) /\ p.rates = m.rates
        /\ p.nextRates = m.nextRates /\ p.factors = m.factors
        /\ \A f \in DOMAIN pool \ {"rates", "nextRates", "live"} : p[f] = pool[f]
    <2> HIDE DEF m
    <2> QED
      BY <1>2, <1>3, <1>4
  <1>6. NewTerms(p)
    BY <1>1
  <1> HIDE DEF p, m
  <1>7. /\ p.type = pool.type /\ p.supply = pool.supply /\ p.swapFee = pool.swapFee
        /\ p.aggregateFee = pool.aggregateFee /\ p.unbalanced = pool.unbalanced
        /\ p.hook = pool.hook /\ p.protocolFee = pool.protocolFee /\ p.factors = pool.factors
        /\ p.rates = rates /\ p.nextRates = {}
    BY <1>3, <1>4, <1>5
  <1>8. CommonTerms(p)
    BY <1>2, <1>3, <1>5, <1>7 DEF CommonTerms
  <1>9. ClosedTerms(p)
    <2>1. SumTerms(pool) => SumTerms(p)
      BY <1>5, <1>7 DEF SumTerms
    <2>2. FixedTerms(pool) => FixedTerms(p)
      BY <1>5, <1>7 DEF FixedTerms
    <2>3. BufferTerms(pool) => BufferTerms(p)
      BY <1>5, <1>7 DEF BufferTerms
    <2>4. ReClammTerms(pool) => ReClammTerms(p)
      BY <1>5, <1>7 DEF ReClammTerms
    <2>5. EqualTerms(pool) => EqualTerms(p)
      <3> SUFFICES ASSUME EqualTerms(pool) PROVE EqualTerms(p)
        OBVIOUS
      <3>1. {"weights", "minBalances"} \subseteq DOMAIN pool
        BY DEF EqualTerms
      <3>2. p.weights = pool.weights /\ p.minBalances = pool.minBalances
        BY <1>5, <3>1
      <3> QED
        BY <1>5, <1>7, <3>1, <3>2 DEF EqualTerms
    <2> QED
      BY <1>2, <1>8, <2>1, <2>2, <2>3, <2>4, <2>5 DEF ClosedTerms
  <1>10. p.live = Live(p, raw)
    BY <1>4, <1>5 DEF Live, ScaledDown
  <1> QED
    BY <1>2, <1>5, <1>6, <1>7, <1>9, <1>10, NewTermsKeep

\* Every step of the specification is a fair operation or a change of the terms.
LEMMA NextFair ==
    ASSUME BooksInv, VirtualBalancesPositive, Next
    PROVE  FairStep \/ Tick \/ ChangeRates
  <1>1. Tokens = 1..2 /\ pool.unbalanced = FALSE
    BY DEF BooksInv, Tokens, Pairs, ClosedTerms, CommonTerms
  <1>2. ASSUME NEW kind \in Kinds, NEW in \in Tokens, NEW out \in Tokens,
               NEW amount \in SwapAmounts, Swap(kind, in, out, amount)
        PROVE  FairStep
    BY <1>1, <1>2, AmountsAssumption, SwapFair
  <1>3. ASSUME NEW kind \in Kinds, NEW in \in Tokens, NEW amount \in SwapAmounts,
               Wrap(kind, in, amount)
        PROVE  FairStep
    BY <1>1, <1>3, AmountsAssumption, WrapFair
  <1>4. ~AddLiquidity
    <2>1. ASSUME NEW amounts PROVE AddUnbalanced(pool, amounts) = Thrown
      BY <1>1 DEF AddUnbalanced
    <2>2. ASSUME NEW amounts, NEW bpt PROVE AddSingleTokenExactOut(pool, amounts, bpt) = Thrown
      BY <1>1 DEF AddSingleTokenExactOut
    <2> QED
      BY <2>1, <2>2 DEF AddLiquidity, SettleAddition
  <1>5. ASSUME RemoveLiquidity PROVE FairStep
    <2>1. ASSUME NEW amounts, NEW bpt
          PROVE  RemoveSingleTokenExactIn(pool, amounts, bpt) = Thrown
      BY <1>1 DEF RemoveSingleTokenExactIn
    <2>2. ASSUME NEW amounts PROVE RemoveSingleTokenExactOut(pool, amounts) = Thrown
      BY <1>1 DEF RemoveSingleTokenExactOut
    <2>3. PICK bpt \in ShareAmounts :
              bpt <= pool.supply /\ SettleRemoval(RemoveProportional(pool, bpt))
      BY <1>5, <2>1, <2>2 DEF RemoveLiquidity, SettleRemoval
    <2>4. pool.type # "Buffer" /\ bpt \in Nat
      BY <1>5, AmountsAssumption DEF RemoveLiquidity, HasLiquidity
    <2> QED
      BY <2>3, <2>4, RemovalFair
  <1> QED
    BY <1>2, <1>3, <1>4, <1>5, DonateFair DEF Next

LEMMA BooksInit ==
    ASSUME \A p \in Pools : ClosedForm(p), Init, VirtualBalancesPositive
    PROVE  BooksInv
  <1>1. PICK p \in Pools :
            /\ raw = p.raw /\ pool = WithLive(p, Live(p, p.raw))
            /\ fees = [i \in DOMAIN p.raw |-> 0]
            /\ base = [raw |-> p.raw, supply |-> p.supply]
    BY DEF Init
  <1>2. /\ ClosedTerms(p) /\ CommonTerms(p) /\ p.supply \in Positive /\ p.raw \in Pairs(Nat)
        /\ p.type = "Weighted" => p.raw \in Pairs(Positive)
    BY DEF ClosedForm, ClosedTerms
  <1>3. {"type", "supply"} \subseteq DOMAIN p
    BY <1>2 DEF CommonTerms
  <1>4. /\ DOMAIN pool = DOMAIN p \cup {"live"} /\ pool.live = Live(p, raw)
        /\ \A f \in DOMAIN p \ {"live"} : pool[f] = p[f]
        /\ pool.supply = p.supply
    BY <1>1, <1>3 DEF WithLive
  <1>5. SameTerms(p, pool)
    BY <1>4 DEF SameTerms, Shifting
  <1>6. ClosedTerms(pool) /\ pool.type = p.type /\ pool.live = Live(pool, raw)
    BY <1>2, <1>4, <1>5, TermsKept DEF Live, ScaledDown
  <1>7. /\ raw \in Pairs(Nat) /\ fees \in Pairs(Nat) /\ base.raw = raw
        /\ pool.supply \in Positive /\ base.supply = pool.supply /\ pool.supply <= base.supply
        /\ pool.type = "Weighted" => raw \in Pairs(Positive)
    BY <1>1, <1>2, <1>4, <1>6 DEF Pairs, Positive
  <1>8. Kept
    <2>1. Value(pool, raw) \in Nat
      BY <1>6, <1>7, BooksPriced, ValueNat
    <2>2. Value(pool, raw) <= Value(pool, raw)
      BY <2>1
    <2> QED
      BY <1>7, <2>2 DEF Kept
  <1> QED
    BY <1>4, <1>6, <1>7, <1>8 DEF BooksInv

LEMMA BooksStep ==
    ASSUME BooksInv, VirtualBalancesPositive, VirtualBalancesPositive', [Next]_vars
    PROVE  BooksInv'
  <1>1. CASE Next
    BY <1>1, NextFair, FairStepKeeps, TickKeeps, ChangeRatesKeeps
  <1>2. CASE UNCHANGED vars
    BY <1>2 DEF vars, BooksInv, Kept
  <1> QED
    BY <1>1, <1>2

\* The invariant says who gained: no token and no share is left over.
LEMMA BooksNoFreeLunch ==
    ASSUME BooksInv, VirtualBalancesPositive
    PROVE  NoFreeLunch
  <1>1. Tokens = 1..2 /\ Priced(pool)
    BY BooksPriced DEF BooksInv, Tokens, Pairs
  <1> SUFFICES ASSUME \A i \in 1..2 : raw[i] + fees[i] <= base.raw[i],
                      pool.supply >= base.supply
               PROVE  (\A i \in 1..2 : raw[i] + fees[i] = base.raw[i]) /\ pool.supply = base.supply
    BY <1>1 DEF NoFreeLunch
  <1>2. \A i \in 1..2 : raw[i] \in Nat /\ fees[i] \in Nat /\ base.raw[i] \in Nat
    BY DEF BooksInv, Pairs
  <1>3. pool.supply = base.supply
    BY DEF BooksInv, Positive
  <1>4. Value(pool, base.raw) <= Value(pool, raw)
    BY <1>3 DEF BooksInv, Kept
  <1>5. \A i \in 1..2 : raw[i] <= base.raw[i]
    BY <1>2
  <1>6. \A i \in 1..2 : raw[i] = base.raw[i]
    BY <1>1, <1>4, <1>5, ValueStrict DEF BooksInv
  <1> QED
    BY <1>2, <1>3, <1>6

\* From pools of closed form, as long as a ReClamm pool has a price, every
\* operation keeps the books: balances stay natural, live ones are those of the
\* raw ones, and with as many shares the pool is worth no less than it was.
THEOREM ClosedPoolsKeepBooks ==
    ASSUME \A p \in Pools : ClosedForm(p)
    PROVE  Spec /\ []VirtualBalancesPositive => []BooksKept
  <1>1. Init /\ VirtualBalancesPositive => BooksInv
    BY BooksInit
  <1>2. BooksInv /\ VirtualBalancesPositive /\ VirtualBalancesPositive' /\ [Next]_vars => BooksInv'
    BY BooksStep
  <1>3. BooksInv => BooksKept
    BY DEF BooksKept
  <1> QED
    BY <1>1, <1>2, <1>3, PTL DEF Spec

\* From pools of closed form, as long as a ReClamm pool has a price, no sequence
\* of swaps, wraps, proportional removals and donations is a free lunch: who
\* ends with as many shares and no less of any token ends with what they had.
THEOREM ClosedPoolsNoFreeLunch ==
    ASSUME \A p \in Pools : ClosedForm(p)
    PROVE  Spec /\ []VirtualBalancesPositive => []NoFreeLunch
  <1>1. Init /\ VirtualBalancesPositive => BooksInv
    BY BooksInit
  <1>2. BooksInv /\ VirtualBalancesPositive /\ VirtualBalancesPositive' /\ [Next]_vars => BooksInv'
    BY BooksStep
  <1>3. BooksInv /\ VirtualBalancesPositive => NoFreeLunch
    BY BooksNoFreeLunch
  <1> QED
    BY <1>1, <1>2, <1>3, PTL DEF Spec

-----------------------------------------------------------------------------
(* The invariant of a pool for each share *)

LEMMA InvariantBounds ==
    ASSUME NEW p, Priced(p), p.live \in Pairs(Nat), p.type \in {"Sum", "FixedLBP", "ReClamm"}
    PROVE  /\ ComputeInvariant(p, p.live, "Up") \in Nat
           /\ Worth(p, Virtual(p), p.live) <= Wad * ComputeInvariant(p, p.live, "Up")
           /\ ComputeInvariant(p, p.live, "Down") \in Nat
           /\ Wad * ComputeInvariant(p, p.live, "Down") <= Worth(p, Virtual(p), p.live)
  <1> DEFINE b == p.live
             v == Virtual(p)
             up == ComputeInvariant(p, b, "Up")
             down == ComputeInvariant(p, b, "Down")
  <1>1. b[1] \in Nat /\ b[2] \in Nat /\ Wad \in Nat \ {0}
    BY WadAssumption DEF Pairs
  \* A token at a rate and another one.
  <1>2. ASSUME NEW x \in Nat, NEW y \in Nat, NEW rate \in Nat
        PROVE  /\ y + MulUp(x, rate) \in Nat /\ y + MulDown(x, rate) \in Nat
               /\ rate * x + Wad * y <= Wad * (y + MulUp(x, rate))
               /\ Wad * (y + MulDown(x, rate)) <= rate * x + Wad * y
    <2> DEFINE u == MulUp(x, rate)
               d == MulDown(x, rate)
    <2>1. u \in Nat /\ x * rate <= Wad * u /\ d \in Nat /\ Wad * d <= x * rate
      BY MulUpBounds, MulDownBounds
    <2> HIDE DEF u, d
    <2>2. /\ Wad * (y + u) = Wad * y + Wad * u /\ Wad * (y + d) = Wad * y + Wad * d
          /\ x * rate = rate * x /\ rate * x \in Int
          /\ Wad * y \in Int /\ Wad * u \in Int /\ Wad * d \in Int
      BY <1>1, <2>1
    <2>3. /\ rate * x + Wad * y <= Wad * (y + u) /\ Wad * (y + d) <= rate * x + Wad * y
          /\ y + u \in Nat /\ y + d \in Nat
      BY <2>1, <2>2
    <2> QED
      BY <2>3 DEF u, d
  <1>3. CASE SumTerms(p)
    <2>1. p.type = "Sum" /\ p.rate \in Nat
      BY <1>3 DEF SumTerms, Positive
    <2>2. /\ up = b[2] + MulUp(b[1], p.rate) /\ down = b[2] + MulDown(b[1], p.rate)
          /\ Worth(p, v, b) = p.rate * b[1] + Wad * b[2]
      BY <2>1 DEF ComputeInvariant, SumInvariant, Worth
    <2> DEFINE x == b[1]
               y == b[2]
               rate == p.rate
    <2>3. x \in Nat /\ y \in Nat /\ rate \in Nat
      BY <1>1, <2>1
    <2>4. up = y + MulUp(x, rate) /\ down = y + MulDown(x, rate)
          /\ Worth(p, v, b) = rate * x + Wad * y
      BY <2>2
    <2> HIDE DEF x, y, rate, up, down, v, b
    <2>5. up \in Nat /\ down \in Nat /\ Worth(p, v, b) <= Wad * up /\ Wad * down <= Worth(p, v, b)
      BY <1>2, <2>3, <2>4
    <2> QED
      BY <2>5 DEF up, down, v, b
  <1>4. CASE FixedTerms(p)
    <2>1. p.type = "FixedLBP" /\ p.rate \in Nat /\ p.project \in 1..2
      BY <1>4 DEF FixedTerms, Positive
    <2> DEFINE x == b[p.project]
               y == b[3 - p.project]
               rate == p.rate
    <2>2. /\ up = y + MulUp(x, rate) /\ down = y + MulDown(x, rate)
          /\ Worth(p, v, b) = rate * x + Wad * y
      BY <2>1 DEF ComputeInvariant, FixedInvariant, Worth
    <2>3. x \in Nat /\ y \in Nat /\ rate \in Nat
      BY <1>1, <2>1
    <2> HIDE DEF x, y, rate, up, down, v, b
    <2>4. up \in Nat /\ down \in Nat /\ Worth(p, v, b) <= Wad * up /\ Wad * down <= Worth(p, v, b)
      BY <1>2, <2>2, <2>3
    <2> QED
      BY <2>4 DEF up, down, v, b
  <1>5. CASE ReClammTerms(p)
    <2>1. p.type = "ReClamm" /\ v # Thrown /\ v[1] \in Nat /\ v[2] \in Nat
      BY <1>5 DEF ReClammTerms, Priced, PositivePair, Positive
    <2> DEFINE x == b[1] + v[1]
               y == b[2] + v[2]
    <2>2. /\ up = MulUp(x, y) /\ down = MulDown(x, y) /\ Worth(p, v, b) = x * y
      BY <2>1 DEF ComputeInvariant, ReClammPoolInvariant, ReClammInvariant, Then, Worth, Virtual
    <2>3. x \in Nat /\ y \in Nat
      BY <1>1, <2>1
    <2> HIDE DEF x, y, up, down, v, b
    <2>4. up \in Nat /\ down \in Nat /\ Worth(p, v, b) <= Wad * up /\ Wad * down <= Worth(p, v, b)
      BY <2>2, <2>3, MulUpBounds, MulDownBounds
    <2> QED
      BY <2>4 DEF up, down, v, b
  <1> QED
    BY <1>3, <1>4, <1>5, ClassOf DEF EqualTerms

LEMMA BooksNeverDilute ==
    ASSUME BooksInv, VirtualBalancesPositive, VirtualBalancesPositive', [Next]_vars,
           steps' # steps, HasInvariant
    PROVE  ComputeInvariant(pool', pool'.live, "Up") * pool.supply
             >= ComputeInvariant(pool, pool.live, "Down") * pool'.supply
  <1>1. FairStep
    <2>1. Next /\ ~Tick /\ ~ChangeRates
      BY DEF vars, Tick, ChangeRates, NewTerms
    <2> QED
      BY <2>1, NextFair
  <1>2. PICK gain, taken, supply : FairEffect(gain, taken, supply)
    BY <1>1, FairStepEffect
  <1>3. /\ ClosedTerms(pool) /\ Priced(pool) /\ raw \in Pairs(Nat) /\ pool.unbalanced = FALSE
        /\ CommonTerms(pool) /\ pool.live = Live(pool, raw) /\ pool.live \in Pairs(Nat)
        /\ pool.supply \in Nat
    BY BooksPriced, LiveAt DEF BooksInv, ClosedTerms, CommonTerms, Positive
  <1>4. /\ SameTerms(pool, pool') /\ pool'.live = Live(pool, raw') /\ pool'.supply = supply
        /\ raw' \in Pairs(Nat) /\ supply \in Nat /\ raw' = Left(gain)
        /\ (pool.type = "ReClamm" /\ supply = pool.supply) =>
               \A i \in 1..2 : Virtual(pool')[i] = Virtual(pool)[i]
    BY <1>2 DEF FairEffect, Fair, Positive
  <1>5. /\ ClosedTerms(pool') /\ pool'.type = pool.type /\ CommonTerms(pool')
        /\ pool'.live = Live(pool', raw')
    BY <1>3, <1>4, TermsKept DEF Live, ScaledDown, ClosedTerms
  <1>6. Priced(pool') /\ pool'.live \in Pairs(Nat)
    <2>1. HasPrice(pool')
      BY DEF VirtualBalancesPositive, HasPrice, Virtual
    <2> QED
      BY <1>4, <1>5, <2>1, PricedOf, LiveAt
  <1>7. /\ pool.type \in {"Sum", "FixedLBP", "ReClamm"}
        /\ pool.type = "ReClamm" => supply = pool.supply
    <2>1. pool.type # "Stable"
      BY <1>3 DEF ClosedTerms, SumTerms, FixedTerms, BufferTerms, ReClammTerms, EqualTerms
    <2> QED
      BY <1>3, <1>4, <2>1 DEF HasInvariant
  <1> DEFINE w == Value(pool, raw)
             x == Value(pool, raw')
             u == ComputeInvariant(pool', pool'.live, "Up")
             d == ComputeInvariant(pool, pool.live, "Down")
             m == pool.supply
  <1>8. w \in Nat /\ x \in Nat /\ w * supply <= x * m
    <2>1. w \in Nat /\ x \in Nat
      BY <1>3, <1>4, ValueNat
    <2>2. CASE pool.type \in {"Sum", "FixedLBP"}
      BY <1>2, <1>4, <2>1, <2>2 DEF FairEffect, Fair
    <2>3. CASE pool.type = "ReClamm"
      <3>1. supply = m /\ w <= x
        BY <1>2, <1>4, <1>7, <2>3 DEF FairEffect, Fair
      <3> HIDE DEF w, x
      <3>2. m * w <= m * x /\ m * w = w * m /\ m * x = x * m
        BY <1>3, <2>1, <3>1, MulMonotone
      <3> QED
        BY <2>1, <3>1, <3>2
    <2> QED
      BY <1>7, <2>2, <2>3
  <1>9. d \in Nat /\ Wad * d <= w
    <2>1. w = Worth(pool, Virtual(pool), pool.live)
      BY <1>3, <1>7 DEF Value
    <2> QED
      BY <1>3, <1>7, <2>1, InvariantBounds
  <1>10. u \in Nat /\ x <= Wad * u
    <2>1. x = Value(pool', raw')
      BY <1>3, <1>4, <1>7, ValueKept
    <2>2. Value(pool', raw') = Worth(pool', Virtual(pool'), pool'.live)
      BY <1>5, <1>7 DEF Value
    <2>3. Worth(pool', Virtual(pool'), pool'.live) <= Wad * u /\ u \in Nat
      <3> DEFINE q == pool'
      <3>1. Priced(q) /\ q.live \in Pairs(Nat) /\ q.type \in {"Sum", "FixedLBP", "ReClamm"}
        BY <1>5, <1>6, <1>7
      <3> HIDE DEF q
      <3>2. /\ Worth(q, Virtual(q), q.live) <= Wad * ComputeInvariant(q, q.live, "Up")
            /\ ComputeInvariant(q, q.live, "Up") \in Nat
        BY <3>1, InvariantBounds
      <3> QED
        BY <3>2 DEF q
    <2> QED
      BY <2>1, <2>2, <2>3
  <1>11. Wad \in Nat \ {0} /\ m \in Nat /\ supply \in Nat
    BY <1>3, <1>4, WadAssumption
  <1> HIDE DEF w, x, u, d, m
  <1>12. d * supply <= u * m
    <2>1. supply * (Wad * d) <= supply * w /\ m * x <= m * (Wad * u)
      <3>1. Wad * d \in Int /\ Wad * u \in Int
        BY <1>9, <1>10, <1>11
      <3> QED
        BY <1>8, <1>9, <1>10, <1>11, <3>1, MulMonotone
    <2> DEFINE l == d * supply
               r == u * m
    <2>2. /\ supply * (Wad * d) = Wad * l /\ m * (Wad * u) = Wad * r
          /\ supply * w = w * supply /\ m * x = x * m
          /\ w * supply \in Int /\ x * m \in Int /\ l \in Nat /\ r \in Nat
      BY <1>8, <1>9, <1>10, <1>11, MulNat
    <2> HIDE DEF l, r
    <2>3. Wad * l \in Int /\ Wad * r \in Int
      BY <1>11, <2>2
    <2>4. Wad * l < Wad * r + Wad
      BY <1>8, <1>11, <2>1, <2>2, <2>3
    <2>5. l <= r
      BY <1>11, <2>2, <2>4, MulCancel
    <2> QED
      BY <2>5 DEF l, r
  <1>13. u * m \in Int /\ d * supply \in Int
    BY <1>9, <1>10, <1>11
  <1>14. u * m >= d * supply
    BY <1>12, <1>13
  <1> QED
    BY <1>4, <1>14 DEF u, d, m

\* From pools of closed form, as long as a ReClamm pool has a price, no operation
\* lowers the invariant for each share, beyond the invariant's own rounding.
THEOREM ClosedPoolsNeverDiluted ==
    ASSUME \A p \in Pools : ClosedForm(p)
    PROVE  Spec /\ []VirtualBalancesPositive => SharesNeverDiluted
  <1>1. Init /\ VirtualBalancesPositive => BooksInv
    BY BooksInit
  <1>2. BooksInv /\ VirtualBalancesPositive /\ VirtualBalancesPositive' /\ [Next]_vars => BooksInv'
    BY BooksStep
  <1>3. BooksInv /\ VirtualBalancesPositive /\ VirtualBalancesPositive' /\ [Next]_vars
        => [(steps' # steps /\ HasInvariant)
            => ComputeInvariant(pool', pool'.live, "Up") * pool.supply
                 >= ComputeInvariant(pool, pool.live, "Down") * pool'.supply]_vars
    BY BooksNeverDilute
  <1> QED
    BY <1>1, <1>2, <1>3, PTL DEF Spec, SharesNeverDiluted

-----------------------------------------------------------------------------
(* Where no virtual balances are needed, nothing is left to assume *)

LEMMA TypeKept ==
    ASSUME BooksInv, VirtualBalancesPositive, [Next]_vars
    PROVE  pool'.type = pool.type
  <1>1. "type" \in DOMAIN pool /\ ClosedTerms(pool)
    BY DEF BooksInv, ClosedTerms, CommonTerms
  <1>2. CASE FairStep
    <2>1. PICK gain, taken, supply : FairEffect(gain, taken, supply)
      BY <1>2, FairStepEffect
    <2> QED
      BY <1>1, <2>1, TermsKept DEF FairEffect
  <1>3. CASE Tick
    <2>1. pool' = [pool EXCEPT !.now = @ + 1]
      BY <1>3 DEF Tick, NewTerms
    <2> QED
      BY <1>1, <2>1
  <1>4. CASE ChangeRates
    <2>1. PICK rates \in pool.nextRates :
              pool' = [[pool EXCEPT !.rates = rates, !.nextRates = {}]
                         EXCEPT !.live = Live([pool EXCEPT !.rates = rates, !.nextRates = {}], raw)]
      BY <1>4 DEF ChangeRates, NewTerms
    <2> DEFINE l == Live([pool EXCEPT !.rates = rates, !.nextRates = {}], raw)
    <2>2. pool' = [[pool EXCEPT !.rates = rates, !.nextRates = {}] EXCEPT !.live = l]
      BY <2>1
    <2> HIDE DEF l
    <2> QED
      BY <1>1, <2>2
  <1>5. CASE UNCHANGED vars
    BY <1>5 DEF vars
  <1> QED
    BY <1>2, <1>3, <1>4, <1>5, NextFair

\* Of constant sums, fixed-price sales, buffers and 50/50 pools both hold in every
\* behaviour: no sequence of operations is a free lunch, and none lowers the
\* invariant for each share, without any hypothesis on what happens.
THEOREM ConstantPricesNoFreeLunch ==
    ASSUME \A p \in Pools : ClosedForm(p) /\ p.type # "ReClamm"
    PROVE  Spec => []NoFreeLunch /\ SharesNeverDiluted
  <1> DEFINE NoCurve == pool.type # "ReClamm"
  <1>1. NoCurve => VirtualBalancesPositive
    BY DEF VirtualBalancesPositive
  <1>2. Init => BooksInv /\ NoCurve
    <2> SUFFICES ASSUME Init PROVE BooksInv /\ NoCurve
      OBVIOUS
    <2>1. PICK p \in Pools : pool = WithLive(p, Live(p, p.raw))
      BY DEF Init
    <2>2. "type" \in DOMAIN p /\ p.type # "ReClamm"
      BY DEF ClosedForm, ClosedTerms, CommonTerms
    <2>3. NoCurve
      BY <2>1, <2>2 DEF WithLive
    <2> QED
      BY <1>1, <2>3, BooksInit
  <1>3. BooksInv /\ NoCurve /\ [Next]_vars => BooksInv' /\ NoCurve'
    <2> SUFFICES ASSUME BooksInv, NoCurve, [Next]_vars PROVE BooksInv' /\ NoCurve'
      OBVIOUS
    <2>1. NoCurve'
      BY <1>1, TypeKept
    <2>2. VirtualBalancesPositive'
      BY <2>1 DEF VirtualBalancesPositive
    <2> QED
      BY <1>1, <2>1, <2>2, BooksStep
  <1>4. Spec => []VirtualBalancesPositive
    <2> HIDE DEF NoCurve
    <2> QED
      BY <1>1, <1>2, <1>3, PTL DEF Spec
  <1>5. \A p \in Pools : ClosedForm(p)
    OBVIOUS
  <1>6. Spec /\ []VirtualBalancesPositive => []NoFreeLunch
    BY <1>5, ClosedPoolsNoFreeLunch
  <1>7. Spec /\ []VirtualBalancesPositive => SharesNeverDiluted
    BY <1>5, ClosedPoolsNeverDiluted
  <1> QED
    BY <1>4, <1>6, <1>7, PTL
=============================================================================
