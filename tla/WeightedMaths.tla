---------------------------- MODULE WeightedMaths ----------------------------
(***************************************************************************)
(* maths/typescript/src/weighted and liquidityBootstrapping: the weighted  *)
(* product, the pool class over it, and the weights of a sale in time.     *)
(*                                                                         *)
(* A weighted pool is a record with weights and minBalances, one for each  *)
(* token; a sale has them computed from its weights at the start and end   *)
(* and from its times.                                                     *)
(***************************************************************************)
EXTENDS FixedPoint, SequencesExt

CONSTANT AbsoluteMinBalance   \* ABSOLUTE_MIN_TOKEN_BALANCE

MaxInRatio       == (3 * Wad) \div 10
MaxOutRatio      == (3 * Wad) \div 10
WeightedMaxRatio == 3 * Wad
WeightedMinRatio == (7 * Wad) \div 10

-----------------------------------------------------------------------------
(* The weighted product *)

Indices(b) == [i \in DOMAIN b |-> i]

\* Both directions throw when nothing is left of the product.
PositiveInvariant(product) == IF product = 0 THEN Thrown ELSE product

ComputeInvariantDown(weights, b) ==
    PositiveInvariant(
        FoldLeft(LAMBDA p, i : MulDown(p, PowDown(b[i], weights[i])), Wad, Indices(b)))

ComputeInvariantUp(weights, b) ==
    PositiveInvariant(
        FoldLeft(LAMBDA p, i : MulUp(p, PowUp(b[i], weights[i])), Wad, Indices(b)))

BalanceOutGivenInvariant(balance, weight, ratio) ==
    MulUp(balance, PowUp(ratio, DivUpFixed(Wad, weight)))

WeightedOutGivenIn(balanceIn, weightIn, balanceOut, weightOut, amount) ==
    IF amount > MulDown(balanceIn, MaxInRatio) THEN Thrown
    ELSE MulDown(balanceOut,
                 Complement(PowUp(DivUpFixed(balanceIn, balanceIn + amount),
                                  DivDown(weightIn, weightOut))))

\* Fault: the two weights are taken the other way round.
WeightedInGivenOutSwapped(balanceIn, weightIn, balanceOut, weightOut, amount) ==
    IF amount > MulDown(balanceOut, MaxOutRatio) THEN Thrown
    ELSE MulUp(balanceIn,
               PowUp(DivUpFixed(balanceOut, balanceOut - amount),
                     DivUpFixed(weightIn, weightOut)) - Wad)

WeightedInGivenOut(balanceIn, weightIn, balanceOut, weightOut, amount) ==
    IF amount > MulDown(balanceOut, MaxOutRatio) THEN Thrown
    ELSE MulUp(balanceIn,
               PowUp(DivUpFixed(balanceOut, balanceOut - amount),
                     DivUpFixed(weightOut, weightIn)) - Wad)

-----------------------------------------------------------------------------
(* The pool class *)

\* The constructor's minima, for tokens with these scaling factors.
MinBalances(factors) ==
    [i \in DOMAIN factors |-> Larger(AbsoluteMinBalance, factors[i])]

BelowMinimum(pool, index, balance) == balance < pool.minBalances[index]

\* The balance in is taken one unit higher.
WeightedPrice(weights, kind, b, in, out, amount) ==
    IF kind = "GivenIn"
    THEN WeightedOutGivenIn(b[in] + 1, weights[in], b[out], weights[out], amount)
    ELSE WeightedInGivenOut(b[in] + 1, weights[in], b[out], weights[out], amount)

\* Neither side may be, or end, below its minimum.
WeightedOnSwap(pool, kind, b, in, out, amount) ==
    IF BelowMinimum(pool, in, b[in] + 1) THEN Thrown
    ELSE Then(WeightedPrice(pool.weights, kind, b, in, out, amount),
              LAMBDA calculated :
                  LET paid == IF kind = "GivenIn" THEN calculated ELSE amount
                  IN IF BelowMinimum(pool, out, b[out] - paid) THEN Thrown ELSE calculated)

WeightedInvariant(pool, b, rounding) ==
    IF \E i \in DOMAIN b : BelowMinimum(pool, i, b[i]) THEN Thrown
    ELSE IF rounding = "Up" THEN ComputeInvariantUp(pool.weights, b)
                            ELSE ComputeInvariantDown(pool.weights, b)

WeightedComputeBalance(pool, b, index, ratio) ==
    Then(BalanceOutGivenInvariant(b[index], pool.weights[index], ratio),
         LAMBDA balance :
             IF BelowMinimum(pool, index, Smaller(b[index], balance))
             THEN Thrown ELSE balance)

\* Fault: the limit of the balance in, for either kind.
WeightedMaxSwapIn(kind, b, in, out) == MulDown(b[in], MaxInRatio)

\* 30% of either balance.
WeightedMaxSwap(kind, b, in, out) ==
    IF kind = "GivenIn" THEN MulDown(b[in], MaxInRatio)
                        ELSE MulDown(b[out], MaxOutRatio)

-----------------------------------------------------------------------------
(* Liquidity bootstrapping: a sale is a pool with the two project weights,  *)
(* its times, the current time and the switches of its swaps               *)

ChangeProgress(now, start, end) ==
    IF now >= end THEN Wad
    ELSE IF now <= start THEN 0
    ELSE DivDown(now - start, end - start)

InterpolateValue(start, end, progress) ==
    IF progress >= Wad \/ start = end THEN end
    ELSE IF progress = 0 THEN start
    ELSE IF start > end THEN start - MulDown(progress, start - end)
    ELSE start + MulDown(progress, end - start)

NormalizedWeights(sale) ==
    LET progress == ChangeProgress(sale.now, sale.startTime, sale.endTime)
        weight   == InterpolateValue(sale.startWeight, sale.endWeight, progress)
    IN [i \in 1..2 |-> IF i = sale.project THEN weight ELSE Wad - weight]

\* The constructor: the weighted pool the sale is now.
AsWeighted(sale) == [weights |-> NormalizedWeights(sale),
                     minBalances |-> sale.minBalances]

LBPOnSwap(sale, kind, b, in, out, amount) ==
    IF \/ ~sale.swapEnabled
       \/ sale.projectInBlocked /\ in = sale.project
    THEN Thrown
    ELSE WeightedOnSwap(AsWeighted(sale), kind, b, in, out, amount)
=============================================================================
