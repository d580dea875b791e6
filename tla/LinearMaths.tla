----------------------------- MODULE LinearMaths -----------------------------
(***************************************************************************)
(* The pool classes whose price is a constant: the constant sum template   *)
(* and the fixed-price sale of maths/typescript/src, and the wrapping of   *)
(* an ERC-4626 buffer at the wrapper's rate.                               *)
(***************************************************************************)
EXTENDS FixedPoint

\* A token of a constant sum pool is worth pool.rate of the second one when
\* it is the first.
SumMinRatio == (50 * Wad) \div 100
SumMaxRatio == 2 * Wad

SumOnSwap(pool, kind, b, in, out, amount) ==
    CASE kind = "GivenIn"  /\ in = 1 -> MulDown(amount, pool.rate)
      [] kind = "GivenIn"  /\ in # 1 -> DivDown(amount, pool.rate)
      [] kind = "GivenOut" /\ in = 1 -> DivUpFixed(amount, pool.rate)
      [] kind = "GivenOut" /\ in # 1 -> MulUp(amount, pool.rate)

SumInvariant(pool, b, rounding) ==
    b[2] + IF rounding = "Up" THEN MulUp(b[1], pool.rate)
                              ELSE MulDown(b[1], pool.rate)

SumComputeBalance(pool, b, index, ratio) ==
    LET invariant == MulUp(SumInvariant(pool, b, "Up"), ratio)
    IN IF index = 1 THEN DivUpFixed(invariant - b[2], pool.rate)
                    ELSE invariant - MulDown(b[1], pool.rate)

\* Whatever the balance out can pay for.
SumMaxSwap(pool, kind, b, in, out) ==
    CASE kind = "GivenOut"          -> b[out]
      [] kind = "GivenIn" /\ in = 1 -> DivDown(b[out], pool.rate)
      [] kind = "GivenIn" /\ in # 1 -> MulDown(b[out], pool.rate)

-----------------------------------------------------------------------------
(* Fixed-price sale: reserve tokens in, project tokens out, at pool.rate    *)
(* reserve tokens for a project token                                      *)

FixedMinRatio == 0

FixedOnSwap(pool, kind, b, in, out, amount) ==
    IF ~pool.swapEnabled \/ in = pool.project THEN Thrown
    ELSE IF kind = "GivenIn" THEN DivDown(amount, pool.rate)
                             ELSE MulUp(amount, pool.rate)

FixedInvariant(pool, b, rounding) ==
    b[3 - pool.project] +
        IF rounding = "Up" THEN MulUp(b[pool.project], pool.rate)
                           ELSE MulDown(b[pool.project], pool.rate)

FixedMaxSwap(pool, kind, b, in, out) ==
    IF kind = "GivenIn" THEN MulDown(b[out], pool.rate) ELSE b[out]

-----------------------------------------------------------------------------
(* Buffers: token 1 is the underlying one, token 2 the wrapper's share,    *)
(* worth buffer.rate of the underlying                                     *)

CONSTANT MinimumWrap   \* _MINIMUM_WRAP_AMOUNT

\* previewDeposit, previewMint, previewRedeem and previewWithdraw; the first
\* two have limits.
BufferAmount(buffer, kind, in, amount) ==
    CASE in = 1 /\ kind = "GivenIn"  ->
           IF amount > buffer.maxDeposit THEN Thrown ELSE DivDown(amount, buffer.rate)
      [] in = 1 /\ kind = "GivenOut" ->
           IF amount > buffer.maxMint THEN Thrown ELSE MulUp(amount, buffer.rate)
      [] in # 1 /\ kind = "GivenIn"  -> MulDown(amount, buffer.rate)
      [] in # 1 /\ kind = "GivenOut" -> DivUpFixed(amount, buffer.rate)

BufferWrapOrUnwrap(buffer, kind, in, amount) ==
    IF amount < MinimumWrap THEN Thrown ELSE BufferAmount(buffer, kind, in, amount)
=============================================================================
