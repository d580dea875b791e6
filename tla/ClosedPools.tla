---------------------------- MODULE ClosedPools ----------------------------
(***************************************************************************)
(* The pools of two tokens whose prices need neither a power nor an        *)
(* iteration, and that only take proportional liquidity: constant sums,    *)
(* fixed-price sales, buffers, ReClamm pools and weighted pools of 50/50.  *)
(* Their worth is a closed form of their balances, and the invariant that  *)
(* says it never falls is inductive.                                       *)
(***************************************************************************)
EXTENDS MathsVault

Positive == Nat \ {0}
Pairs(S) == [1..2 -> S]

\* A raw unit of a token is worth a unit of the scaled amounts or more.
WholeUnits(factors, rates) == \A i \in 1..2 : factors[i] * rates[i] >= Wad

\* What is the same for every class.
CommonTerms(p) ==
    /\ {"type", "raw", "supply", "factors", "rates", "nextRates", "swapFee", "aggregateFee",
        "unbalanced", "hook", "protocolFee"} \subseteq DOMAIN p
    /\ p.factors \in Pairs(Positive) /\ p.rates \in Pairs(Positive)
    /\ WholeUnits(p.factors, p.rates)
    /\ \A rates \in p.nextRates : rates \in Pairs(Positive) /\ WholeUnits(p.factors, rates)
    /\ p.swapFee \in 0..(Wad - 1) /\ p.aggregateFee \in 0..Wad /\ p.protocolFee \in Nat
    /\ p.unbalanced = FALSE
    /\ p.hook.type # "StableSurge"

SumTerms(p) == p.type = "Sum" /\ "rate" \in DOMAIN p /\ p.rate \in Positive

FixedTerms(p) ==
    /\ p.type = "FixedLBP"
    /\ {"rate", "project", "swapEnabled"} \subseteq DOMAIN p
    /\ p.rate \in Positive /\ p.project \in 1..2

BufferTerms(p) ==
    /\ p.type = "Buffer"
    /\ {"rate", "maxDeposit", "maxMint"} \subseteq DOMAIN p
    /\ p.rate \in Positive

ReClammTerms(p) ==
    p.type = "ReClamm" /\ {"virtual", "lastTimestamp", "now"} \subseteq DOMAIN p

EqualTerms(p) ==
    /\ p.type = "Weighted"
    /\ {"weights", "minBalances"} \subseteq DOMAIN p
    /\ p.weights[1] \in Positive /\ p.weights[1] = p.weights[2]
    /\ p.minBalances \in Pairs(Positive)

ClosedTerms(p) ==
    /\ CommonTerms(p)
    /\ SumTerms(p) \/ FixedTerms(p) \/ BufferTerms(p) \/ ReClammTerms(p) \/ EqualTerms(p)

\* A weighted pool never begins without a balance of a token.
ClosedForm(p) ==
    /\ ClosedTerms(p)
    /\ p.supply \in Positive
    /\ p.raw \in Pairs(Nat)
    /\ p.type = "Weighted" => p.raw \in Pairs(Positive)

-----------------------------------------------------------------------------
(* The worth of a pool's scaled balances in closed form, with virtual        *)
(* balances v: what a swap may never lower                                   *)

Worth(p, v, b) ==
    CASE p.type = "Sum"      -> p.rate * b[1] + Wad * b[2]
      [] p.type = "FixedLBP" -> p.rate * b[p.project] + Wad * b[3 - p.project]
      [] p.type = "ReClamm"  -> (b[1] + v[1]) * (b[2] + v[2])
      [] p.type = "Weighted" -> b[1] * b[2]

\* Virtual balances at a time.
Virtual(p) == CurrentVirtualBalances(p, p.live)

\* What the raw balances of a pool are worth: wrapped tokens are raw.
Value(p, r) ==
    IF p.type = "Buffer" THEN Wad * r[1] + p.rate * r[2]
                         ELSE Worth(p, Virtual(p), Live(p, r))

-----------------------------------------------------------------------------
(* The inductive invariant, as long as a ReClamm pool has a price *)

\* With the shares the terms began with, the pool is worth no less.
Kept == pool.supply = base.supply => Value(pool, base.raw) <= Value(pool, raw)

\* In a pool of closed form every operation leaves the books typed, the live
\* balances those of the raw ones, a weighted pool funded in both tokens and,
\* unless shares were burnt, the pool worth at least what it was when its terms
\* last changed: the inductive invariant behind NoFreeLunch.
BooksInv ==
    /\ ClosedTerms(pool) /\ "live" \in DOMAIN pool
    /\ raw \in Pairs(Nat) /\ fees \in Pairs(Nat) /\ base.raw \in Pairs(Nat)
    /\ pool.live = Live(pool, raw)
    /\ pool.supply \in Positive /\ base.supply \in Positive /\ pool.supply <= base.supply
    /\ pool.type = "Weighted" => raw \in Pairs(Positive)
    /\ Kept

\* A pool of closed form, once it is, keeps its books: whatever is swapped,
\* wrapped, removed or donated, at any decimals and rates.
BooksKept == ClosedTerms(pool) => BooksInv
=============================================================================
