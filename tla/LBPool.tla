------------------------------- MODULE LBPool -------------------------------
(***************************************************************************)
(* contracts/lbp/LBPool.sol: a weighted pool whose two weights move        *)
(* linearly from one pair to another during the sale.  A seedless pool     *)
(* starts with no reserve tokens: a virtual balance of them counts in the  *)
(* price, and must never be paid out.                                      *)
(*                                                                         *)
(* Amounts and weights are small integers and One is the unit of weights,  *)
(* so the weighted curve is a product of integer powers and is computed    *)
(* exactly; the library (WeightedMath) rounds against the trader.          *)
(***************************************************************************)
EXTENDS LBPCommon

CONSTANTS
    One,              \* FixedPoint.ONE: what the two weights add up to
    MinWeight,        \* LBPoolLib._MIN_WEIGHT
    MinBalance,       \* WeightedPool._minBalance of either token
    VirtualBalances,  \* reserveTokenVirtualBalance; zero: not seedless
    MaxTrade,         \* model bound: the largest amount given in a swap
    MaxBalance        \* model bound: the largest balance a swap leads to

ASSUME WeightAssumption == /\ One \in Nat \ {0}
                           /\ MinWeight \in Nat \ {0}
                           /\ 2 * MinWeight <= One
ASSUME BalanceAssumption == /\ MinBalance \in Nat
                            /\ VirtualBalances \subseteq Nat
                            /\ MaxTrade \in Nat
                            /\ MaxBalance \in Nat

\* LBPoolLib.verifyWeightUpdateParameters: each weight at least the minimum,
\* the other weight of each pair being One less it.
Weights == MinWeight..(One - MinWeight)

-----------------------------------------------------------------------------
(* GradualValueChange. *)

MulDown(a, b) == (a * b) \div One

\* calculateValueChangeProgress at time t.
Progress(startTime, endTime, t) ==
    IF t >= endTime THEN One
    ELSE IF t <= startTime THEN 0
    ELSE ((t - startTime) * One) \div (endTime - startTime)

\* Fault: a falling weight rises.
InterpolateUpwards(startValue, endValue, progress) ==
    IF progress >= One THEN endValue
    ELSE startValue + MulDown(progress, IF startValue > endValue
                                        THEN startValue - endValue
                                        ELSE endValue - startValue)

\* interpolateValue
Interpolate(startValue, endValue, progress) ==
    IF progress >= One THEN endValue
    ELSE IF startValue > endValue
         THEN startValue - MulDown(progress, startValue - endValue)
         ELSE startValue + MulDown(progress, endValue - startValue)

\* _getProjectTokenNormalizedWeight and _getNormalizedWeights
ProjectWeight == Interpolate(sale.startWeight, sale.endWeight,
                             Progress(sale.startTime, sale.endTime, now))
ReserveWeight == One - ProjectWeight

-----------------------------------------------------------------------------
(* The weighted curve with the virtual balance. *)

\* A balance to the power of its weight.
Power(balance, weight) ==
    LET p[n \in Nat] == IF n = 0 THEN 1 ELSE balance * p[n - 1]
    IN  p[weight]

\* What the pool prices with.
Reserve(r) == r + sale.virtual

\* computeInvariant: the curve through the balances, as an integer.
Curve(p, r) == Power(p, ProjectWeight) * Power(Reserve(r), ReserveWeight)

Largest(S) == {x \in S : \A other \in S : other <= x}

\* Initialization mints the root of the curve, rounded down.
InitialSupply(p, r) ==
    Largest({k \in 0..(p + Reserve(r)) : Power(k, One) <= Curve(p, r)})

\* The amounts out of a trade of in that do not lower the curve.
Outs(balIn, wIn, balOut, wOut, in) ==
    {out \in 0..balOut : Power(balIn + in, wIn) * Power(balOut - out, wOut)
                             >= Power(balIn, wIn) * Power(balOut, wOut)}

\* Exact in, WeightedMath.computeOutGivenExactIn: the largest of them.
OutGivenIn(balIn, wIn, balOut, wOut, in) ==
    Largest(Outs(balIn, wIn, balOut, wOut, in))

\* Exact out, WeightedMath.computeInGivenExactOut: in is the least amount that
\* buys out.
IsInFor(out, in, balIn, wIn, balOut, wOut) ==
    /\ out \in Outs(balIn, wIn, balOut, wOut, in)
    /\ in > 0 => out \notin Outs(balIn, wIn, balOut, wOut, in - 1)

Init == /\ InitCommon
        /\ sale \in [startTime : 0..Horizon, endTime : 0..Horizon,
                     startWeight : Weights, endWeight : Weights,
                     virtual : VirtualBalances, blockProjectIn : BOOLEAN]
        /\ ValidTimes(sale.startTime, sale.endTime, now)

\* onBeforeInitialize: a seedless pool takes no reserve tokens.  The weighted
\* pool refuses balances below the minimum.
InitializeWeighted(caller, viaTrustedRouter, projectIn, reserveIn) ==
    /\ sale.virtual > 0 => reserveIn = 0
    /\ projectIn >= MinBalance
    /\ Reserve(reserveIn) >= MinBalance
    /\ \E minted \in InitialSupply(projectIn, reserveIn) :
           Initialize(caller, viaTrustedRouter, projectIn, reserveIn, minted)

\* Fault: what the pool prices with is taken for what it has.
PoolCanPayPriced(reserveOut) == reserveOut <= Reserve(reserve)

\* onSwap: no more leaves the pool than it really has.
PoolCanPay(reserveOut) == reserveOut <= reserve

\* The conditions of onSwap that do not depend on the amounts.
CanSwap(projectIn) == /\ live
                      /\ IsSwapEnabled
                      /\ projectIn => ~sale.blockProjectIn

\* The trader gives reserve tokens and takes project tokens.
Buy(reserveIn, projectOut) ==
    /\ reserveIn > 0 /\ projectOut > 0
    /\ Reserve(reserve) + 1 >= MinBalance
    /\ project - projectOut >= MinBalance
    /\ reserve' = reserve + reserveIn
    /\ project' = project - projectOut
    /\ UNCHANGED <<now, sale, ownership, live, shares>>

\* The trader gives project tokens and takes reserve tokens.
Sell(projectIn, reserveOut) ==
    /\ projectIn > 0 /\ reserveOut > 0
    /\ project + 1 >= MinBalance
    /\ Reserve(reserve) - reserveOut >= MinBalance
    /\ PoolCanPay(reserveOut)
    /\ project' = project + projectIn
    /\ reserve' = reserve - reserveOut
    /\ UNCHANGED <<now, sale, ownership, live, shares>>

\* Fault: the weights are swapped.
BuyExactInSwapped(given) ==
    /\ CanSwap(FALSE)
    /\ \E out \in OutGivenIn(Reserve(reserve) + 1, ProjectWeight,
                              project, ReserveWeight, given) : Buy(given, out)

\* WeightedPool.onSwap prices with a balance in that is rounded up by one.
BuyExactIn(given) ==
    /\ CanSwap(FALSE)
    /\ \E out \in OutGivenIn(Reserve(reserve) + 1, ReserveWeight,
                              project, ProjectWeight, given) : Buy(given, out)
SellExactIn(given) ==
    /\ CanSwap(TRUE)
    /\ \E out \in OutGivenIn(project + 1, ProjectWeight,
                              Reserve(reserve), ReserveWeight, given) : Sell(given, out)

BuyExactOut(given, in) ==
    /\ CanSwap(FALSE)
    /\ given <= project
    /\ IsInFor(given, in, Reserve(reserve) + 1, ReserveWeight, project, ProjectWeight)
    /\ Buy(in, given)
SellExactOut(given, in) ==
    /\ CanSwap(TRUE)
    /\ given <= Reserve(reserve)
    /\ IsInFor(given, in, project + 1, ProjectWeight, Reserve(reserve), ReserveWeight)
    /\ Sell(in, given)

SwapAmounts == \E given \in 1..MaxTrade :
    \/ BuyExactIn(given)
    \/ SellExactIn(given)
    \/ \E in \in 1..MaxTrade : BuyExactOut(given, in) \/ SellExactOut(given, in)

Next == \/ \E a \in Accounts, trusted \in BOOLEAN, p, r \in 0..MaxFunds :
               InitializeWeighted(a, trusted, p, r)
        \/ \E a \in Accounts, trusted \in BOOLEAN, n \in 1..MaxFunds :
               supply + n <= MaxBalance /\ AddLiquidity(a, trusted, n)
        \/ \E a \in Accounts : \E n \in 1..bpt[a] : RemoveLiquidity(a, n)
        \/ \E a, b \in Accounts : TransferShares(a, b)
        \/ project <= MaxBalance /\ reserve <= MaxBalance /\ SwapAmounts
        \/ Ownership
        \/ Tick

Spec == Init /\ [][Next]_vars

-----------------------------------------------------------------------------

\* Every variable has its type and the sale its order of times.  A natural
\* reserve says that the virtual balance is never paid out, however far the
\* weights have moved the price since buyers paid in.
TypeOK == /\ TypeOKCommon
          /\ sale.startWeight \in Weights
          /\ sale.endWeight \in Weights
          /\ InitializationPeriod <= sale.startTime /\ sale.startTime <= sale.endTime

\* Both weights stay valid at every moment of the change, through the two
\* rounded steps of GradualValueChange: never below the minimum that the
\* library's powers are safe for.
WeightsStayValid == ProjectWeight >= MinWeight /\ ReserveWeight >= MinWeight

\* At one instant trades only move along the curve or above it, so no round
\* trip within a block takes value out of the pool, with or without a virtual
\* balance.
CurveNeverFalls ==
    [][live /\ IsSwapEnabled /\ now' = now
          => Curve(project', reserve') >= Curve(project, reserve)]_vars

\* The project token's weight is a ramp: see Ramp.
R == INSTANCE Ramp WITH value <- ProjectWeight,
                        target <- sale.endWeight,
                        deadline <- sale.endTime
IsRamp == R!Spec
=============================================================================
