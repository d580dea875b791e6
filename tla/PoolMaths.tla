----------------------------- MODULE PoolMaths -----------------------------
(***************************************************************************)
(* The pool classes of maths/typescript/src behind one interface: what     *)
(* vault.ts and basePoolMath.ts ask of a pool.                             *)
(*                                                                         *)
(* A pool is a record with its class (type, and the fields its maths       *)
(* read), and for each token its scaling factor, rate and live balance;    *)
(* supply, swapFee, aggregateFee, whether unbalanced liquidity is          *)
(* supported, and its hook.                                                *)
(***************************************************************************)
EXTENDS StableMaths, WeightedMaths, LinearMaths, ReClammMaths

CONSTANT MaxUint         \* MAX_UINT256

OnSwap(pool, kind, in, out, amount) ==
    LET b == pool.live
    IN CASE pool.type = "Weighted" -> WeightedOnSwap(pool, kind, b, in, out, amount)
         [] pool.type = "LBP"      -> LBPOnSwap(pool, kind, b, in, out, amount)
         [] pool.type = "Stable"   -> StableOnSwap(pool, kind, b, in, out, amount)
         [] pool.type = "FixedLBP" -> FixedOnSwap(pool, kind, b, in, out, amount)
         [] pool.type = "Sum"      -> SumOnSwap(pool, kind, b, in, out, amount)
         [] pool.type = "ReClamm"  -> ReClammOnSwap(pool, kind, b, in, out, amount)

ComputeInvariant(pool, b, rounding) ==
    CASE pool.type = "Weighted" -> WeightedInvariant(pool, b, rounding)
      [] pool.type = "LBP"      -> WeightedInvariant(AsWeighted(pool), b, rounding)
      [] pool.type = "Stable"   -> StableInvariant(pool, b, rounding)
      [] pool.type = "FixedLBP" -> FixedInvariant(pool, b, rounding)
      [] pool.type = "Sum"      -> SumInvariant(pool, b, rounding)
      [] pool.type = "ReClamm"  -> ReClammPoolInvariant(pool, b, rounding)

ComputeBalance(pool, b, index, ratio) ==
    CASE pool.type = "Weighted" -> WeightedComputeBalance(pool, b, index, ratio)
      [] pool.type = "LBP"      -> WeightedComputeBalance(AsWeighted(pool), b, index, ratio)
      [] pool.type = "Stable"   -> StableComputeBalance(pool, b, index, ratio)
      [] pool.type = "Sum"      -> SumComputeBalance(pool, b, index, ratio)
      [] pool.type \in {"FixedLBP", "ReClamm"} -> Thrown

MaxRatio(pool) ==
    CASE pool.type \in {"Weighted", "LBP"} -> WeightedMaxRatio
      [] pool.type = "Stable"   -> StableMaxRatio
      [] pool.type = "Sum"      -> SumMaxRatio
      [] pool.type = "FixedLBP" -> MaxUint
      [] pool.type = "ReClamm"  -> 0

MinRatio(pool) ==
    CASE pool.type \in {"Weighted", "LBP"} -> WeightedMinRatio
      [] pool.type = "Stable"   -> StableMinRatio
      [] pool.type = "Sum"      -> SumMinRatio
      [] pool.type = "FixedLBP" -> FixedMinRatio
      [] pool.type = "ReClamm"  -> 0

MaxSwapScaled(pool, kind, b, in, out) ==
    CASE pool.type \in {"Weighted", "LBP"} -> WeightedMaxSwap(kind, b, in, out)
      [] pool.type = "Stable"   -> StableMaxSwap(kind, b, in, out)
      [] pool.type = "Sum"      -> SumMaxSwap(pool, kind, b, in, out)
      [] pool.type = "FixedLBP" -> FixedMaxSwap(pool, kind, b, in, out)
      [] pool.type = "ReClamm"  -> ReClammMaxSwap(pool, kind, b, in, out)

\* The largest amount a swap may give, in the token it is given in.
MaxSwapAmount(pool, kind, in, out) ==
    LET token == IF kind = "GivenIn" THEN in ELSE out
    IN Then(MaxSwapScaled(pool, kind, pool.live, in, out),
            LAMBDA max : ToRawRoundDown(max, pool.factors[token], pool.rates[token]))
=============================================================================
