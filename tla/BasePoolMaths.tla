---------------------------- MODULE BasePoolMaths ----------------------------
(***************************************************************************)
(* maths/typescript/src/vault/basePoolMath.ts: what a liquidity operation  *)
(* is worth, with the pool's invariant or the balance it computes from an  *)
(* invariant ratio.                                                        *)
(*                                                                         *)
(* A result is Thrown or a record of what the caller is owed or owes and   *)
(* of the swap fees charged, by token.                                     *)
(***************************************************************************)
EXTENDS PoolMaths

NoFees(b) == [i \in DOMAIN b |-> 0]

\* The balance a token would have had the deposit been proportional.
ProportionalBalance(ratio, balance) == MulDown(ratio, balance)

\* The part of each new balance above its proportional one pays the fee.
ExcessFees(pool, new, ratio) ==
    [i \in DOMAIN new |->
        MulUp(Larger(0, new[i] - ProportionalBalance(ratio, pool.live[i])), pool.swapFee)]

\* The shares minted for the growth of the invariant that is left.
Minted(pool, new, fees, current) ==
    Then(ComputeInvariant(pool, [i \in DOMAIN new |-> new[i] - fees[i]], "Down"),
         LAMBDA taxed : [bpt  |-> Quot(pool.supply * (taxed - current), current),
                         fees |-> fees])

MintedAt(pool, new, ratio, current) ==
    IF ratio > MaxRatio(pool) THEN Thrown
    ELSE Minted(pool, new, ExcessFees(pool, new, ratio), current)

\* What an unbalanced deposit mints.  The new balances are taken one unit
\* lower.
AddLiquidityUnbalanced(pool, amounts) ==
    LET new == [i \in DOMAIN amounts |-> pool.live[i] + amounts[i] - 1]
    IN Then(ComputeInvariant(pool, pool.live, "Up"),
            LAMBDA current :
                IF current = 0 THEN Thrown
                ELSE Then(ComputeInvariant(pool, new, "Down"),
                          LAMBDA grown :
                              MintedAt(pool, new, DivDown(grown, current), current)))

\* An amount of one token, with the fee charged on a part of it.
Charged(pool, index, amount, fee) ==
    [amount |-> amount, fees |-> [NoFees(pool.live) EXCEPT ![index] = fee]]

\* What a fee of the swap percentage adds to an amount that is to be left.
FeeOnTop(pool, taxable) == DivUpFixed(taxable, Complement(pool.swapFee)) - taxable

\* What a single token must pay for an exact mint.
AddLiquiditySingleTokenExactOut(pool, index, bpt) ==
    LET old        == pool.live[index]
        newSupply  == bpt + pool.supply
        ratio      == DivUpFixed(newSupply, pool.supply)
        nonTaxable == DivDown(MulDown(newSupply, old), pool.supply)
    IN IF ratio > MaxRatio(pool) THEN Thrown
       ELSE Then(ComputeBalance(pool, pool.live, index, ratio),
                 LAMBDA new :
                     LET fee == FeeOnTop(pool, new - nonTaxable)
                     IN Charged(pool, index, new - old + fee, fee))

\* Fault: the amounts are rounded up.
ProportionalAmountsOutUp(b, supply, bpt) ==
    [i \in DOMAIN b |-> DivUp(b[i] * bpt, supply)]

ProportionalAmountsOut(b, supply, bpt) ==
    [i \in DOMAIN b |-> Quot(b[i] * bpt, supply)]

\* What burning an exact amount pays out in a single token.
RemoveLiquiditySingleTokenExactIn(pool, index, bpt) ==
    LET old       == pool.live[index]
        newSupply == pool.supply - bpt
        ratio     == DivUpFixed(newSupply, pool.supply)
    IN IF ratio < MinRatio(pool) THEN Thrown
       ELSE Then(ComputeBalance(pool, pool.live, index, ratio),
                 LAMBDA new :
                     LET fee == MulUp(MulDivUp(newSupply, old, pool.supply) - new,
                                      pool.swapFee)
                     IN Charged(pool, index, old - new - fee, fee))

\* The shares burnt for the loss of invariant, with the fee.
Burnt(pool, index, new, fee, current) ==
    Then(ComputeInvariant(pool, [new EXCEPT ![index] = @ - fee], "Down"),
         LAMBDA taxed : [bpt  |-> MulDivUp(pool.supply, current - taxed, current),
                         fees |-> [NoFees(new) EXCEPT ![index] = fee]])

BurntAt(pool, index, new, ratio, current) ==
    IF ratio < MinRatio(pool) THEN Thrown
    ELSE Burnt(pool, index, new,
               FeeOnTop(pool, MulUp(ratio, pool.live[index]) - new[index]), current)

\* What must be burnt for an exact amount of a single token.  All balances
\* are taken one unit lower.
RemoveLiquiditySingleTokenExactOut(pool, index, amount) ==
    LET new == [i \in DOMAIN pool.live |->
                  pool.live[i] - 1 - IF i = index THEN amount ELSE 0]
    IN Then(ComputeInvariant(pool, pool.live, "Up"),
            LAMBDA current :
                IF current = 0 THEN Thrown
                ELSE Then(ComputeInvariant(pool, new, "Up"),
                          LAMBDA shrunk :
                              BurntAt(pool, index, new, DivUpFixed(shrunk, current), current)))
=============================================================================
