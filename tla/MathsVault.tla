----------------------------- MODULE MathsVault -----------------------------
(***************************************************************************)
(* Pools traded at the prices of maths/typescript, one operation after     *)
(* another.  Every operation asks VaultMaths with the state the pool is    *)
(* in, and the Vault, which is another package, settles exactly the raw    *)
(* amounts of the answer: it books them and scales the new balances.  An   *)
(* answer it could not settle it reverts.                                  *)
(*                                                                         *)
(* Everybody who trades with the pool is one counterparty: what the pool   *)
(* and the protocol do not have, they have.                                *)
(***************************************************************************)
EXTENDS VaultMaths

CONSTANTS Pools,           \* the pools to begin with, with raw balances
          SwapAmounts,     \* raw amounts given to swaps
          TokenAmounts,    \* raw amounts added, removed or donated
          ShareAmounts,    \* shares minted or burnt
          MinimumSupply,   \* of shares, that always remain
          MaxSteps,        \* bound on the operations
          Horizon          \* bound on the time

ASSUME AmountsAssumption ==
    /\ SwapAmounts \subseteq Nat /\ TokenAmounts \subseteq Nat /\ ShareAmounts \subseteq Nat
    /\ MinimumSupply \in Nat \ {0}

VARIABLES pool,    \* the PoolState handed to the maths
          raw,     \* the Vault's raw balances
          fees,    \* raw fees that left the pool since the terms changed
          base,    \* raw balances and shares when the terms last changed
          seen,    \* what the hook after the last operation was shown
          steps    \* number of operations

vars == <<pool, raw, fees, base, seen, steps>>

Tokens == DOMAIN raw

Live(p, balances) == ScaledDown(p, balances)

\* The state of a pool with these live balances.
WithLive(p, balances) ==
    [field \in DOMAIN p \cup {"live"} |-> IF field = "live" THEN balances ELSE p[field]]

Init ==
    \E p \in Pools :
        /\ raw = p.raw
        /\ pool = WithLive(p, Live(p, p.raw))
        /\ fees = [i \in DOMAIN p.raw |-> 0]
        /\ base = [raw |-> p.raw, supply |-> p.supply]
        /\ seen = <<>>
        /\ steps = 0

-----------------------------------------------------------------------------
(* Settlement *)

\* The stored virtual balances of a ReClamm pool are those of its operation's
\* time, scaled with its shares; a removal that leaves one of them at zero is
\* refused.
Touched(p, supply) ==
    IF p.type # "ReClamm" THEN p
    ELSE Then(CurrentVirtualBalances(p, p.live),
              LAMBDA v :
                  LET scaled == [i \in 1..2 |-> (v[i] * supply) \div p.supply]
                  IN IF supply < p.supply /\ \E i \in 1..2 : scaled[i] = 0 THEN Thrown
                     ELSE [p EXCEPT !.virtual = scaled, !.lastTimestamp = p.now])

\* The pool gains these raw amounts beyond the fees, and has so many shares.
Settle(gain, taken, supply, after) ==
    \E touched \in {Touched(pool, supply)} \ {Thrown} :
        /\ steps < MaxSteps
        /\ \A i \in Tokens : raw[i] + gain[i] >= 0
        /\ supply >= MinimumSupply
        /\ raw'   = [i \in Tokens |-> raw[i] + gain[i]]
        /\ fees'  = [i \in Tokens |-> fees[i] + taken[i]]
        /\ pool'  = [touched EXCEPT !.live = Live(pool, raw'), !.supply = supply]
        /\ seen'  = IF pool.hook.type = "Observer" THEN after ELSE <<>>
        /\ steps' = steps + 1
        /\ UNCHANGED base

-----------------------------------------------------------------------------
(* Operations *)

OnlyAt(i, x) == [j \in Tokens |-> IF j = i THEN x ELSE 0]

Swap(kind, in, out, amount) ==
    /\ pool.type # "Buffer"
    /\ in # out
    /\ \E r \in {VaultSwap(pool, kind, in, out, amount)} \ {Thrown} :
         Settle([i \in Tokens |-> IF i = in THEN r.in - r.fee
                                  ELSE IF i = out THEN -r.out ELSE 0],
                OnlyAt(in, r.fee), pool.supply, r.after)

Wrap(kind, in, amount) ==
    /\ pool.type = "Buffer"
    /\ \E other \in {BufferWrapOrUnwrap(pool, kind, in, amount)} \ {Thrown} :
         LET paid == IF kind = "GivenIn" THEN amount ELSE other
             got  == IF kind = "GivenIn" THEN other ELSE amount
         IN Settle([i \in Tokens |-> IF i = in THEN paid ELSE -got],
                   OnlyAt(in, 0), pool.supply, <<>>)

\* Shares are checked to be a natural number by the Vault, not by the maths.
SettleAddition(r) ==
    /\ r # Thrown
    /\ r.bpt >= 0
    /\ Settle([i \in Tokens |-> r.amounts[i] - r.fees[i]], r.fees,
              pool.supply + r.bpt, r.after)

SettleRemoval(r) ==
    /\ r # Thrown
    /\ r.bpt >= 0 /\ \A i \in Tokens : r.amounts[i] >= 0
    /\ pool.supply >= r.bpt
    /\ Settle([i \in Tokens |-> -r.amounts[i] - r.fees[i]], r.fees,
              pool.supply - r.bpt, r.after)

HasLiquidity == pool.type # "Buffer"

AddLiquidity ==
    /\ HasLiquidity
    /\ \/ \E amounts \in [Tokens -> TokenAmounts \cup {0}] :
            SettleAddition(AddUnbalanced(pool, amounts))
       \/ \E i \in Tokens, bpt \in ShareAmounts :
            SettleAddition(AddSingleTokenExactOut(pool, OnlyAt(i, 1), bpt))

\* Bound: a removal names at most half of a balance.
WithinBalance(i, amount) == 2 * amount <= raw[i]

RemoveLiquidity ==
    /\ HasLiquidity
    /\ \/ \E bpt \in ShareAmounts :
            bpt <= pool.supply /\ SettleRemoval(RemoveProportional(pool, bpt))
       \/ \E i \in Tokens, bpt \in ShareAmounts :
            /\ bpt <= pool.supply
            /\ SettleRemoval(RemoveSingleTokenExactIn(pool, OnlyAt(i, 1), bpt))
       \/ \E i \in Tokens, amount \in TokenAmounts :
            /\ WithinBalance(i, amount)
            /\ SettleRemoval(RemoveSingleTokenExactOut(pool, OnlyAt(i, amount)))

\* CowRouter: the protocol's part is rounded up, the rest is donated.
DonationFee(amount, percentage) == MulUp(amount, percentage)

MaxProtocolFee == Wad \div 2

Donate ==
    \E i \in Tokens, amount \in TokenAmounts :
        LET fee == DonationFee(amount, pool.protocolFee)
        IN /\ pool.type = "Weighted" /\ pool.protocolFee \in 1..MaxProtocolFee
           /\ Settle(OnlyAt(i, amount - fee), OnlyAt(i, fee), pool.supply, <<>>)

-----------------------------------------------------------------------------
(* The terms of a pool change with the time and with its tokens' rates *)

NewTerms(p) ==
    /\ pool' = p
    /\ base' = [raw |-> raw, supply |-> pool.supply]
    /\ fees' = [i \in Tokens |-> 0]
    /\ seen' = <<>>
    /\ UNCHANGED <<raw, steps>>

Tick ==
    /\ pool.type \in {"LBP", "ReClamm"}
    /\ pool.now < Horizon
    /\ NewTerms([pool EXCEPT !.now = @ + 1])

ChangeRates ==
    \E rates \in pool.nextRates :
        LET p == [pool EXCEPT !.rates = rates, !.nextRates = {}]
        IN NewTerms([p EXCEPT !.live = Live(p, raw)])

Next ==
    \/ \E kind \in Kinds, in, out \in Tokens, amount \in SwapAmounts :
         Swap(kind, in, out, amount)
    \/ \E kind \in Kinds, in \in Tokens, amount \in SwapAmounts :
         Wrap(kind, in, amount)
    \/ AddLiquidity
    \/ RemoveLiquidity
    \/ Donate
    \/ Tick
    \/ ChangeRates

Spec == Init /\ [][Next]_vars

-----------------------------------------------------------------------------
(* Properties *)

\* As long as the terms stay the same, no sequence of operations leaves the
\* counterparty with at least as much of every token and at least as many
\* shares as before, and more of one of them.
NoFreeLunch ==
    (/\ \A i \in Tokens : raw[i] + fees[i] <= base.raw[i]
     /\ pool.supply >= base.supply)
    => /\ \A i \in Tokens : raw[i] + fees[i] = base.raw[i]
       /\ pool.supply = base.supply

\* Weights that are no halves have an invariant RawPow does not give, and the
\* virtual balances of a ReClamm pool are scaled with its shares.
HasInvariant ==
    \/ pool.type \in {"Stable", "Sum", "FixedLBP"}
    \/ pool.type = "Weighted" /\ pool.unbalanced
    \/ pool.type = "ReClamm" /\ pool'.supply = pool.supply

\* No operation lowers the pool's invariant for each share, beyond what the
\* two roundings of the invariant itself differ by.
SharesNeverDiluted ==
    [][(steps' # steps /\ HasInvariant)
       => ComputeInvariant(pool', pool'.live, "Up") * pool.supply
            >= ComputeInvariant(pool, pool.live, "Down") * pool'.supply]_vars

\* A swap of this much goes through, unless swaps do not go through at all.
SwapAccepted(kind, in, out, amount) ==
    OnSwap(pool, kind, in, out, 2 * MinimumTrade) # Thrown
        => VaultSwap(pool, kind, in, out, amount) # Thrown

\* The largest swap a pool class reports is one the Vault's maths accepts,
\* unless a balance is too small to trade or a rate is rounded up in between.
MaxSwapAccepted ==
    \A kind \in Kinds, in, out \in Tokens :
        (/\ pool.type # "Buffer" /\ in # out
         /\ RateRoundUp(pool.rates[out]) = pool.rates[out]
         /\ \A i \in Tokens : pool.live[i] >= 10 * MinimumTrade)
        => \A max \in {MaxSwapAmount(pool, kind, in, out)} \ {Thrown} :
               SwapAccepted(kind, in, out, max)

\* The hook that runs after an operation is shown the balances the operation
\* leaves, within one raw unit of each token.
AfterHookSeesSettled ==
    seen # <<>> =>
        \A i \in Tokens :
            Abs(seen[i] - pool.live[i]) <= ToScaledRoundUp(1, pool.factors[i], pool.rates[i])

\* With the surge hook, no liquidity operation takes a pool further past the
\* threshold, but for the fees it takes, that the hook does not see when it
\* rebuilds the balances from before, and one raw unit of each token.
LiquidityNeverFeedsSurge ==
    [][(pool.hook.type = "StableSurge" /\ pool'.supply # pool.supply)
       => LET unseen   == Total(ScaledUp(pool, [i \in Tokens |-> fees'[i] - fees[i]]))
              rounding == Total(ScaledUp(pool, [i \in Tokens |-> 1]))
          IN \/ Imbalance(pool'.live) <= pool.hook.threshold
             \/ Imbalance(pool'.live)
                    <= DivDown(Deviation(pool.live, Median(pool.live)) + unseen,
                               Total(pool.live) - unseen)
                         + DivUpFixed(rounding, Total(pool'.live))]_vars

\* The virtual balances of a ReClamm pool are positive at every time, so that
\* its price always exists.
VirtualBalancesPositive ==
    pool.type = "ReClamm" =>
        \E v \in {CurrentVirtualBalances(pool, pool.live)} \ {Thrown} :
            \A i \in 1..2 : v[i] \in Nat \ {0}
=============================================================================
