-------------------------- MODULE StableSurgeHook --------------------------
(***************************************************************************)
(* contracts/stable-surge: the hook that raises the swap fee of a stable   *)
(* pool when a swap pushes it further out of balance than a threshold, and *)
(* refuses the liquidity operations that would do the same.                *)
(*                                                                         *)
(* The fee is decided on an estimate: the pool is asked what it would pay  *)
(* for the whole amount, and only then the Vault takes the fee and asks    *)
(* again.  StablePool's curve comes from a library; of its answer the      *)
(* model keeps that it lies between those of a constant sum and a constant *)
(* product.  The Vault's own part (fees, balances, kinds of liquidity      *)
(* operations) is external: it may take any part of a fee out of the pool, *)
(* and rounds the amounts of proportional operations for the pool.  The    *)
(* fee on liquidity that goes in the session it came in is left out.       *)
(***************************************************************************)
EXTENDS Integers, Sequences, FiniteSets

CONSTANTS
    TokenCounts,  \* numbers of tokens a pool may have
    One,          \* FixedPoint.ONE
    StaticFees,   \* static swap fees the pool may be given
    DefaultMaxSurgeFee,          \* _defaultMaxSurgeFeePercentage
    DefaultThresholdPercentage,  \* _defaultSurgeThresholdPercentage
    MaxBalance,   \* model bound: the largest balance of a token
    MaxShares     \* model bound: shares a proportional operation leads from or to

ASSUME CountAssumption == TokenCounts \subseteq Nat \ {0, 1}
ASSUME FeeAssumption == One \in Nat \ {0} /\ StaticFees \subseteq 0..(One - 1)
ASSUME DefaultsAssumption == /\ DefaultMaxSurgeFee \in 0..One
                             /\ DefaultThresholdPercentage \in 0..One
ASSUME BoundAssumption == MaxBalance \in Nat \ {0} /\ MaxShares \in Nat

VARIABLES
    balances,            \* the pool's live balances, a sequence
    staticFee,           \* the pool's static swap fee percentage
    maxSurgeFee,         \* SurgeFeeData.maxSurgeFeePercentage
    thresholdPercentage  \* SurgeFeeData.thresholdPercentage

surgeFeeData == <<maxSurgeFee, thresholdPercentage>>
vars == <<balances, staticFee, maxSurgeFee, thresholdPercentage>>

Percentages == 0..One

-----------------------------------------------------------------------------
(* StableSurgeMedianMath. *)

MulDown(a, b) == (a * b) \div One
MulUp(a, b) == (a * b + One - 1) \div One
DivDown(a, b) == (a * One) \div b
DivUp(a, b) == (a * One + b - 1) \div b

\* What a loop over s adds up, after each of its rounds.
RunningTotals(s) ==
    LET sum[k \in 0..Len(s)] == IF k = 0 THEN 0 ELSE sum[k - 1] + s[k]
    IN  sum

Total(s) == RunningTotals(s)[Len(s)]

\* absSub
Distance(x, y) == IF x > y THEN x - y ELSE y - x

\* The sum of the distances from a centre.
Deviation(b, centre) == Total([i \in DOMAIN b |-> Distance(b[i], centre)])

\* The k-th balance of the sorted array: less than k balances are below it, and
\* at least k are no more.
Ranked(b, k) ==
    CHOOSE x \in {b[i] : i \in DOMAIN b} :
        /\ Cardinality({i \in DOMAIN b : b[i] < x}) < k
        /\ Cardinality({i \in DOMAIN b : b[i] <= x}) >= k

\* Fault: the middle balance of the unsorted pool.
MedianUnsorted(b) == b[(Len(b) \div 2) + 1]

\* _findMedian
Median(b) ==
    LET mid == Len(b) \div 2
    IN  IF Len(b) % 2 = 0
        THEN (Ranked(b, mid) + Ranked(b, mid + 1)) \div 2
        ELSE Ranked(b, mid + 1)

\* calculateImbalance
Imbalance(b) == DivDown(Deviation(b, Median(b)), Total(b))

-----------------------------------------------------------------------------
(* SurgeHookCommon. *)

\* _isSurging, for imbalances before and after an operation.
IsSurging(threshold, old, new) ==
    /\ new # 0
    /\ new > old
    /\ new > threshold

\* Fault: the distance to the threshold is not scaled to what is left above it.
SurgeFeeUnscaled(static, max, threshold, new) ==
    static + MulDown(max - static, DivDown(new, One - threshold))

\* The fee of computeSwapSurgeFeePercentage for a surging swap.
SurgeFee(static, max, threshold, new) ==
    static + MulDown(max - static, DivDown(new - threshold, One - threshold))

\* Fault: the maximum is trusted to be above the static fee.
SwapIsSurgingWhateverMax(static, max, threshold, old, new) ==
    IsSurging(threshold, old, new)

\* StableSurgeHook._isSurgingSwap
SwapIsSurging(static, max, threshold, old, new) ==
    max >= static /\ IsSurging(threshold, old, new)

\* computeSwapSurgeFeePercentage, given the imbalances that _isSurgingSwap
\* computes before the swap and after its estimate.
SwapFee(static, max, threshold, old, new) ==
    IF SwapIsSurging(static, max, threshold, old, new)
    THEN SurgeFee(static, max, threshold, new)
    ELSE static

\* What the pool may pay for an amount: between a constant product's answer and
\* a constant sum's, and never all it has.
Pays(b, i, j, in) ==
    LET product == (b[j] * in) \div (b[i] + in)
        sum == IF in < b[j] THEN in ELSE b[j] - 1
    IN  {out \in 0..(b[j] - 1) : \/ product <= out /\ out <= sum
                                 \/ sum <= out /\ out <= product}

After(b, i, j, in, out) == [b EXCEPT ![i] = @ + in, ![j] = @ - out]

\* The estimated balances after a swap of in of token i for token j.
Estimates(b, i, j, in) == {After(b, i, j, in, out) : out \in Pays(b, i, j, in)}

FeeFor(estimate) == SwapFee(staticFee, maxSurgeFee, thresholdPercentage,
                            Imbalance(balances), Imbalance(estimate))

\* The hook and then the swap itself: the Vault takes the fee from the amount
\* in and pays for the rest; it refuses to pay nothing.  Of the fee the
\* aggregate part leaves the pool.
SwapExactIn(i, j, in, estimate) ==
    LET fee == MulUp(in, FeeFor(estimate))
    IN  \E out \in Pays(balances, i, j, in - fee), taken \in 0..fee :
            /\ out > 0
            /\ out <= balances[j] - estimate[j]
            /\ balances' = After(balances, i, j, in - taken, out)
            /\ UNCHANGED <<staticFee, surgeFeeData>>

\* For an exact amount out the estimate is the swap, and the Vault adds the fee:
\* in is what the pool asks for.  It cannot add a fee of the whole.
SwapExactOut(i, j, in, estimate) ==
    LET fee == FeeFor(estimate)
        charged == (in * fee + (One - fee) - 1) \div (One - fee)
    IN  /\ estimate[j] < balances[j]
        /\ fee < One
        /\ estimate[i] + charged <= MaxBalance
        /\ \E kept \in 0..charged : balances' = [estimate EXCEPT ![i] = @ + kept]
        /\ UNCHANGED <<staticFee, surgeFeeData>>

\* Fault: only operations from a pool that is not past the threshold are judged.
LiquiditySurgesFromBelow(old, new) ==
    /\ Imbalance(old) <= thresholdPercentage
    /\ IsSurging(thresholdPercentage, Imbalance(old), Imbalance(new))

\* _isSurgingUnbalancedLiquidity
LiquidityIsSurging(old, new) ==
    IsSurging(thresholdPercentage, Imbalance(old), Imbalance(new))

\* onAfterAddLiquidity and onAfterRemoveLiquidity refuse the operation of any
\* other kind than proportional by answering FALSE.
ChangeUnbalanced(old, new) ==
    /\ balances' = new
    /\ ~LiquidityIsSurging(old, new)
    /\ UNCHANGED <<staticFee, surgeFeeData>>

\* The hook knows the balances after the operation and its amounts, but not what
\* the Vault has taken of the fee (at most the fee on the whole amount): the old
\* balances it judges are short of that.
AddLiquidityUnbalanced(i, amount, taken) ==
    /\ taken <= MulUp(amount, staticFee) /\ taken <= balances[i]
    /\ ChangeUnbalanced([balances EXCEPT ![i] = @ - taken],
                        [balances EXCEPT ![i] = @ + amount - taken])

RemoveLiquidityUnbalanced(i, amount, taken) ==
    /\ taken <= MulUp(amount + taken, staticFee) /\ amount + taken < balances[i]
    /\ ChangeUnbalanced([balances EXCEPT ![i] = @ - taken],
                        [balances EXCEPT ![i] = @ - amount - taken])

\* From d shares to n: what comes in is rounded up, what goes out down.
ChangeProportionally(n, d) ==
    /\ balances' = [i \in DOMAIN balances |-> (balances[i] * n + d - 1) \div d]
    /\ UNCHANGED <<staticFee, surgeFeeData>>

\* Fault: one too many passes.
ValidPercentageOrMore(percentage) == percentage <= One + 1

\* _ensureValidPercentage
ValidPercentage(percentage) == percentage <= One

\* The setters of the swap fee manager or governance.
SetMaxSurgeFeePercentage(percentage) ==
    /\ ValidPercentage(percentage)
    /\ maxSurgeFee' = percentage
    /\ UNCHANGED <<balances, staticFee, thresholdPercentage>>

SetSurgeThresholdPercentage(percentage) ==
    /\ ValidPercentage(percentage)
    /\ thresholdPercentage' = percentage
    /\ UNCHANGED <<balances, staticFee, maxSurgeFee>>

SetStaticSwapFeePercentage(percentage) ==
    /\ staticFee' = percentage
    /\ UNCHANGED <<balances, surgeFeeData>>

-----------------------------------------------------------------------------

Pools == UNION {[1..n -> 1..MaxBalance] : n \in TokenCounts}

\* onRegister gives a pool the hook's defaults; it is initialized in balance.
Init == /\ balances \in {b \in Pools : \A i \in DOMAIN b : b[i] = b[1]}
        /\ staticFee \in StaticFees
        /\ maxSurgeFee = DefaultMaxSurgeFee
        /\ thresholdPercentage = DefaultThresholdPercentage

Next == \/ \E i, j \in DOMAIN balances, in \in 1..MaxBalance :
               /\ i # j
               /\ balances[i] + in <= MaxBalance
               /\ \E estimate \in Estimates(balances, i, j, in) :
                      \/ SwapExactIn(i, j, in, estimate)
                      \/ SwapExactOut(i, j, in, estimate)
        \/ \E i \in DOMAIN balances, amount \in 1..MaxBalance, taken \in 0..MaxBalance :
               \/ /\ balances[i] + amount <= MaxBalance
                  /\ AddLiquidityUnbalanced(i, amount, taken)
               \/ RemoveLiquidityUnbalanced(i, amount, taken)
        \/ \E n, d \in 1..MaxShares :
               /\ \A i \in DOMAIN balances : balances[i] * n <= MaxBalance * d
               /\ ChangeProportionally(n, d)
        \/ \E percentage \in 0..(One + 1) :
               \/ SetMaxSurgeFeePercentage(percentage)
               \/ SetSurgeThresholdPercentage(percentage)
        \/ \E percentage \in StaticFees : SetStaticSwapFeePercentage(percentage)

Spec == Init /\ [][Next]_vars

-----------------------------------------------------------------------------

\* Every variable has its type.
TypeOK == /\ balances \in Pools
          /\ staticFee \in StaticFees
          /\ maxSurgeFee \in Percentages
          /\ thresholdPercentage \in Percentages

\* The median is a centre no other centre beats, rounding of an even pool's
\* included, so the imbalance of any pool is at most one and its distance from
\* one never underflows.
ImbalanceIsLeastDeviation ==
    /\ \A centre \in 0..MaxBalance :
           Deviation(balances, Median(balances)) <= Deviation(balances, centre)
    /\ Imbalance(balances) <= One

\* The swaps open in a state, as the imbalances their estimates lead to.
NewImbalances ==
    {Imbalance(estimate) : estimate \in
        UNION {UNION {Estimates(balances, i, j, in) : j \in DOMAIN balances \ {i}} :
                   i \in DOMAIN balances, in \in 1..MaxBalance}}

Fee(max, threshold, new) ==
    SwapFee(staticFee, max, threshold, Imbalance(balances), new)

\* No swap is refused by the hook's arithmetic, whatever the two percentages
\* have been set to: the subtractions do not underflow, nothing is divided by
\* zero, and the fee is at least the static fee and at most the larger of the
\* two fees.
FeeBetweenStaticAndMax ==
    \A new \in NewImbalances :
        /\ SwapIsSurging(staticFee, maxSurgeFee, thresholdPercentage,
                         Imbalance(balances), new)
              => new <= One /\ thresholdPercentage < One
        /\ Fee(maxSurgeFee, thresholdPercentage, new) >= staticFee
        /\ \/ Fee(maxSurgeFee, thresholdPercentage, new) <= maxSurgeFee
           \/ Fee(maxSurgeFee, thresholdPercentage, new) = staticFee

\* Of two swaps the one that leaves the pool further out of balance is not the
\* cheaper one, and no swap gets cheaper by a lower threshold or a higher
\* maximum.
FeeFollowsImbalance ==
    \A new \in NewImbalances :
        /\ \A more \in NewImbalances : more >= new =>
               Fee(maxSurgeFee, thresholdPercentage, more)
                   >= Fee(maxSurgeFee, thresholdPercentage, new)
        /\ \A lower \in 0..thresholdPercentage :
               Fee(maxSurgeFee, lower, new) >= Fee(maxSurgeFee, thresholdPercentage, new)
        /\ \A higher \in maxSurgeFee..One :
               Fee(higher, thresholdPercentage, new)
                   >= Fee(maxSurgeFee, thresholdPercentage, new)

\* The imbalance before an operation, had what it takes of a fee both been missing
\* and added to the deviation.
ImbalanceBut(taken) ==
    DivDown(Deviation(balances, Median(balances)) + taken, Total(balances) - taken)

\* No liquidity operation takes a pool further past the threshold, beyond what
\* SurgeHookCommon.sol:129-130 and :159-160 call negligible: an unbalanced one by
\* no more than the part of the fee that the hook cannot see, and a proportional
\* one, that the hook lets pass unseen, by no more than a unit of rounding for
\* every second token.
LiquidityNeverFeedsSurge ==
    [][/\ \A i \in DOMAIN balances, amount \in 1..MaxBalance, taken \in 0..MaxBalance :
              \/ AddLiquidityUnbalanced(i, amount, taken)
              \/ RemoveLiquidityUnbalanced(i, amount, taken)
              => \/ Imbalance(balances') <= thresholdPercentage
                 \/ Imbalance(balances') <= ImbalanceBut(taken)
       /\ \A n, d \in 1..MaxShares :
              ChangeProportionally(n, d) =>
                  Imbalance(balances')
                      <= Imbalance(balances) + DivUp(Len(balances) \div 2, Total(balances'))]_balances
=============================================================================
