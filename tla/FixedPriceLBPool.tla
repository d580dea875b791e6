-------------------------- MODULE FixedPriceLBPool --------------------------
(***************************************************************************)
(* contracts/lbp/FixedPriceLBPool.sol: a liquidity bootstrapping pool that *)
(* sells the project token at one rate and never buys it back.             *)
(***************************************************************************)
EXTENDS LBPCommon

CONSTANTS
    One,      \* FixedPoint.ONE
    Rates,    \* projectTokenRate, in units of 1/One reserve tokens
    MaxTrade  \* model bound: the largest amount given in a swap

ASSUME PriceAssumption == /\ One \in Nat \ {0}
                          /\ Rates \subseteq Nat \ {0}
                          /\ MaxTrade \in Nat

MulDown(a, b) == (a * b) \div One
MulUp(a, b) == DivUp(a * b, One)
DivDown(a, b) == (a * One) \div b

\* computeInvariant, rounded down as initialization asks.
Invariant(p, r) == MulDown(p, sale.rate) + r

Init == /\ InitCommon
        /\ sale \in [startTime : 0..Horizon, endTime : 0..Horizon, rate : Rates]
        /\ ValidTimes(sale.startTime, sale.endTime, now)

\* onBeforeInitialize: project tokens and nothing else.
InitializeFixedPrice(caller, viaTrustedRouter, projectIn, reserveIn) ==
    /\ projectIn > 0
    /\ reserveIn = 0
    /\ Initialize(caller, viaTrustedRouter, projectIn, reserveIn,
                  Invariant(projectIn, reserveIn))

\* onSwap and the Vault's update of the balances: the pool receives the reserve
\* token and pays project tokens, of which it cannot pay more than it has; the
\* Vault refuses a trade that would move nothing of either token.
Buy(reserveIn, projectOut) ==
    /\ live
    /\ IsSwapEnabled
    /\ reserveIn > 0 /\ projectOut > 0
    /\ projectOut <= project
    /\ reserve' = reserve + reserveIn
    /\ project' = project - projectOut
    /\ UNCHANGED <<now, sale, ownership, live, shares>>

\* Fault: the price of an exact amount out is rounded for the buyer.
SwapExactOutRoundedDown(given) == Buy(MulDown(given, sale.rate), given)

SwapExactIn(given) == Buy(given, DivDown(given, sale.rate))
SwapExactOut(given) == Buy(MulUp(given, sale.rate), given)

Next == \/ \E a \in Accounts, trusted \in BOOLEAN, p, r \in 0..MaxFunds :
               InitializeFixedPrice(a, trusted, p, r)
        \/ \E a \in Accounts, trusted \in BOOLEAN, n \in 1..MaxFunds :
               project + n <= MaxFunds /\ AddLiquidity(a, trusted, n)
        \/ \E a \in Accounts : \E n \in 1..bpt[a] : RemoveLiquidity(a, n)
        \/ \E a, b \in Accounts : TransferShares(a, b)
        \/ \E given \in 1..MaxTrade : SwapExactIn(given) \/ SwapExactOut(given)
        \/ Ownership
        \/ Tick

Spec == Init /\ [][Next]_vars

-----------------------------------------------------------------------------

\* What the pool holds, in 1/One reserve tokens, without rounding.
Worth(p, r) == p * sale.rate + r * One

\* During the sale a buyer pays the announced rate: never less, and the
\* rounding costs it less than one unit of whichever token is computed.
SoldAtRate ==
    [][IsSwapEnabled /\ now' = now =>
        LET gain == Worth(project', reserve') - Worth(project, reserve)
        IN  /\ gain >= 0
            /\ gain < sale.rate \/ gain < One]_vars

\* Buying never returns the reserve token: the proceeds only grow until the
\* sale is over, whoever owns the pool by then.
ProceedsKeptUntilEnd ==
    [][live /\ now >= sale.startTime /\ now <= sale.endTime => reserve' >= reserve]_vars
=============================================================================
