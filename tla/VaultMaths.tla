----------------------------- MODULE VaultMaths -----------------------------
(***************************************************************************)
(* maths/typescript/src/vault/vault.ts and hooks: what a swap or liquidity *)
(* operation costs or yields, in raw amounts, from the state of a pool.    *)
(*                                                                         *)
(* A result is Thrown, or a record that also has the balances shown to the *)
(* hook that runs after the operation.                                     *)
(***************************************************************************)
EXTENDS BasePoolMaths

CONSTANT MinimumTrade   \* _MINIMUM_TRADE_AMOUNT

ASSUME TradeAssumption == MinimumTrade \in Nat \ {0}

Kinds == {"GivenIn", "GivenOut"}

-----------------------------------------------------------------------------
(* The stable surge hook *)

\* The median of a multiset of balances is that of the sorted sequence.
MiddleOf(sorted) ==
    LET mid == Len(sorted) \div 2
    IN IF Len(sorted) % 2 = 0 THEN (sorted[mid] + sorted[mid + 1]) \div 2
                              ELSE sorted[mid + 1]

Median(b) == MiddleOf(SortSeq(b, <))

Deviation(b, median) == Total([i \in DOMAIN b |-> Abs(b[i] - median)])

Imbalance(b) == DivDown(Deviation(b, Median(b)), Total(b))

\* Fault: what brings the pool nearer to balance counts as a surge.
SurgesBackwards(hook, old, new) ==
    Imbalance(new) < Imbalance(old) /\ Imbalance(new) > hook.threshold

Surges(hook, old, new) ==
    Imbalance(new) > Imbalance(old) /\ Imbalance(new) > hook.threshold

\* The balances as the swap would leave them without a fee.
Estimate(pool, kind, in, out, amount, calculated) ==
    LET paidIn  == IF kind = "GivenIn" THEN amount ELSE calculated
        paidOut == IF kind = "GivenIn" THEN calculated ELSE amount
    IN [pool.live EXCEPT ![in] = @ + paidIn, ![out] = @ - paidOut]

\* The surge grows with the imbalance past the threshold.
SurgeFeeAt(pool, new) ==
    IF Surges(pool.hook, pool.live, new)
    THEN pool.swapFee + MulDown(pool.hook.maxFee - pool.swapFee,
                                DivDown(Imbalance(new) - pool.hook.threshold,
                                        Complement(pool.hook.threshold)))
    ELSE pool.swapFee

SurgeFee(pool, kind, in, out, amount) ==
    Then(OnSwap(pool, kind, in, out, amount),
         LAMBDA calculated :
             SurgeFeeAt(pool, Estimate(pool, kind, in, out, amount, calculated)))

SwapFee(pool, kind, in, out, amount) ==
    IF pool.hook.type = "StableSurge" THEN SurgeFee(pool, kind, in, out, amount)
                                      ELSE pool.swapFee

\* After a liquidity operation that changed the balances by these amounts.
HookRefuses(pool, after, before) ==
    pool.hook.type = "StableSurge" /\ Surges(pool.hook, before, after)

-----------------------------------------------------------------------------
(* Swaps *)

\* The part of the swap fees that leaves the pool, in raw units.
AggregateFee(pool, fee, index) ==
    IF fee > 0 /\ pool.aggregateFee > 0
    THEN MulDown(ToRawRoundDown(fee, pool.factors[index], pool.rates[index]),
                 pool.aggregateFee)
    ELSE 0

\* Fault: an amount asked for is rounded down like an amount paid.
GivenScaledDown(pool, kind, in, out, amount) ==
    LET index == IF kind = "GivenIn" THEN in ELSE out
    IN ToScaledRoundDown(amount, pool.factors[index], pool.rates[index])

\* Amounts given are rounded against the one who gives them.
GivenScaled(pool, kind, in, out, amount) ==
    IF kind = "GivenIn"
    THEN ToScaledRoundDown(amount, pool.factors[in], pool.rates[in])
    ELSE ToScaledRoundUp(amount, pool.factors[out], RateRoundUp(pool.rates[out]))

\* The balances shown to the hook, with the fee in raw units.
AfterSwap(pool, in, out, paid, taken, got) ==
    [pool.live EXCEPT ![in] = @ + paid - taken, ![out] = @ - got]

\* A swap with the fee taken from the amount in.
SwapOfNet(pool, in, out, amount, given, fee) ==
    IF given - fee < MinimumTrade THEN Thrown
    ELSE Then(OnSwap(pool, "GivenIn", in, out, given - fee),
              LAMBDA paid :
                  LET taken == AggregateFee(pool, fee, in)
                  IN IF paid < MinimumTrade THEN Thrown
                     ELSE [in |-> amount,
                           out |-> ToRawRoundDown(paid, pool.factors[out],
                                                  RateRoundUp(pool.rates[out])),
                           fee |-> taken,
                           after |-> AfterSwap(pool, in, out, given, taken, paid)])

SwapGivenIn(pool, in, out, amount) ==
    LET given == GivenScaled(pool, "GivenIn", in, out, amount)
    IN Then(SwapFee(pool, "GivenIn", in, out, given),
            LAMBDA rate : SwapOfNet(pool, in, out, amount, given, MulUp(given, rate)))

\* A swap with the fee added to the amount in.
SwapForNet(pool, in, out, amount, given, net, fee) ==
    LET taken == AggregateFee(pool, fee, in)
    IN [in |-> ToRawRoundUp(net + fee, pool.factors[in], pool.rates[in]),
        out |-> amount,
        fee |-> taken,
        after |-> AfterSwap(pool, in, out, net + fee, taken, given)]

SwapGivenOut(pool, in, out, amount) ==
    LET given == GivenScaled(pool, "GivenOut", in, out, amount)
    IN IF given < MinimumTrade THEN Thrown
       ELSE Then(SwapFee(pool, "GivenOut", in, out, given),
                 LAMBDA rate :
                     Then(OnSwap(pool, "GivenOut", in, out, given),
                          LAMBDA net :
                              IF net < MinimumTrade THEN Thrown
                              ELSE SwapForNet(pool, in, out, amount, given, net,
                                              MulDivUp(net, rate, Complement(rate)))))

VaultSwap(pool, kind, in, out, amount) ==
    IF kind = "GivenIn" THEN SwapGivenIn(pool, in, out, amount)
                        ELSE SwapGivenOut(pool, in, out, amount)

-----------------------------------------------------------------------------
(* Liquidity *)

\* The one token with an amount, or Thrown when there is none or more.
SingleIndex(amounts) ==
    LET S == {i \in DOMAIN amounts : amounts[i] # 0}
    IN IF \E i \in S : S = {i} THEN CHOOSE i \in S : TRUE ELSE Thrown

ScaledDown(pool, amounts) ==
    [i \in DOMAIN amounts |-> ToScaledRoundDown(amounts[i], pool.factors[i], pool.rates[i])]

ScaledUp(pool, amounts) ==
    [i \in DOMAIN amounts |-> ToScaledRoundUp(amounts[i], pool.factors[i], pool.rates[i])]

RawDown(pool, amounts) ==
    [i \in DOMAIN amounts |-> ToRawRoundDown(amounts[i], pool.factors[i], pool.rates[i])]

RawUp(pool, amounts) ==
    [i \in DOMAIN amounts |-> ToRawRoundUp(amounts[i], pool.factors[i], pool.rates[i])]

AggregateFees(pool, fees) ==
    [i \in DOMAIN fees |-> AggregateFee(pool, fees[i], i)]

\* An addition of these scaled amounts, for these shares and fees.
Added(pool, amounts, bpt, fees) ==
    LET taken  == AggregateFees(pool, fees)
        scaled == ScaledDown(pool, taken)
        after  == [i \in DOMAIN amounts |-> pool.live[i] + amounts[i] - scaled[i]]
        before == [i \in DOMAIN amounts |-> after[i] - amounts[i]]
    IN IF HookRefuses(pool, after, before) THEN Thrown
       ELSE [amounts |-> RawUp(pool, amounts),
             bpt |-> bpt, fees |-> taken, after |-> after]

AddUnbalanced(pool, amounts) ==
    LET scaled == ScaledDown(pool, amounts)
    IN IF ~pool.unbalanced THEN Thrown
       ELSE Then(AddLiquidityUnbalanced(pool, scaled),
                 LAMBDA result : Added(pool, scaled, result.bpt, result.fees))

AddSingleTokenExactOut(pool, maxAmounts, bpt) ==
    LET scaled == ScaledDown(pool, maxAmounts)
    IN IF ~pool.unbalanced THEN Thrown
       ELSE Then(SingleIndex(scaled),
                 LAMBDA index :
                     Then(AddLiquiditySingleTokenExactOut(pool, index, bpt),
                          LAMBDA result :
                              Added(pool, [scaled EXCEPT ![index] = result.amount],
                                    bpt, result.fees)))

\* A removal of these scaled amounts, for these shares and fees.
Removed(pool, kind, amounts, bpt, fees) ==
    LET taken  == AggregateFees(pool, fees)
        after  == [i \in DOMAIN amounts |-> pool.live[i] - (amounts[i] + taken[i])]
        before == [i \in DOMAIN amounts |-> after[i] + amounts[i]]
    IN IF kind # "Proportional" /\ HookRefuses(pool, after, before) THEN Thrown
       ELSE [amounts |-> RawDown(pool, amounts),
             bpt |-> bpt, fees |-> taken, after |-> after]

RemoveProportional(pool, bpt) ==
    Removed(pool, "Proportional", ProportionalAmountsOut(pool.live, pool.supply, bpt),
            bpt, NoFees(pool.live))

RemoveSingleTokenExactIn(pool, minAmounts, bpt) ==
    LET scaled == ScaledUp(pool, minAmounts)
    IN IF ~pool.unbalanced THEN Thrown
       ELSE Then(SingleIndex(minAmounts),
                 LAMBDA index :
                     Then(RemoveLiquiditySingleTokenExactIn(pool, index, bpt),
                          LAMBDA result :
                              Removed(pool, "ExactIn", [scaled EXCEPT ![index] = result.amount],
                                      bpt, result.fees)))

RemoveSingleTokenExactOut(pool, amounts) ==
    LET scaled == ScaledUp(pool, amounts)
    IN IF ~pool.unbalanced THEN Thrown
       ELSE Then(SingleIndex(amounts),
                 LAMBDA index :
                     Then(RemoveLiquiditySingleTokenExactOut(pool, index, scaled[index]),
                          LAMBDA result :
                              Removed(pool, "ExactOut", scaled, result.bpt, result.fees)))
=============================================================================
