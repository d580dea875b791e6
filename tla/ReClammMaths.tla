---------------------------- MODULE ReClammMaths ----------------------------
(***************************************************************************)
(* maths/typescript/src/reClamm, the port of ReClammMath.sol and of the    *)
(* pool over it: a constant product of real and virtual balances, and the  *)
(* virtual balances at a time.                                             *)
(*                                                                         *)
(* A pool is a record: virtual, the virtual balances stored last, and      *)
(* lastTimestamp; the update of the fourth root of its price ratio from    *)
(* startRatio at startTime to endRatio at endTime; margin and shiftBase;   *)
(* and now.  Token A is 1 and token B is 2; Other(i) is the one that is    *)
(* not i.                                                                  *)
(***************************************************************************)
EXTENDS FixedPoint, Sequences

CONSTANT MaxShiftDuration   \* THIRTY_DAYS

Other(i) == 3 - i

\* Its powers round down where FixedPoint's round up.
ReClammPowDown(x, y) ==
    CASE y = Wad     -> x
      [] y = 2 * Wad -> MulDown(x, x)
      [] y = 4 * Wad -> MulDown(MulDown(x, x), MulDown(x, x))
      [] OTHER       -> Lowered(RawPow(x, y))

-----------------------------------------------------------------------------
(* Swaps, given the virtual balances v *)

ReClammInvariant(b, v, rounding) ==
    IF rounding = "Down" THEN MulDown(b[1] + v[1], b[2] + v[2])
                         ELSE MulUp(b[1] + v[1], b[2] + v[2])

\* Rounded down; the virtual balance is never paid.
OutGivenIn(b, v, in, out, amount) ==
    LET paid == Quot((b[out] + v[out]) * amount, b[in] + v[in] + amount)
    IN IF paid > b[out] THEN Thrown ELSE paid

InGivenOut(b, v, in, out, amount) ==
    IF amount > b[out] THEN Thrown
    ELSE MulDivUp(b[in] + v[in], amount, b[out] + v[out] - amount)

-----------------------------------------------------------------------------
(* The place of a pool in its range, and the range *)

\* Fault: the comparison is the wrong way round.
UndervaluedInverted(b, v) == IF b[1] * v[2] > v[1] * b[2] THEN 2 ELSE 1

\* The token that is worth less than at the center.
Undervalued(b, v) ==
    IF b[1] = 0 THEN 2
    ELSE IF b[2] = 0 THEN 1
    ELSE IF b[1] * v[2] > v[1] * b[2] THEN 1 ELSE 2

\* One in the center, zero at either edge; u is the undervalued token.
CenterednessOf(b, v, u) ==
    IF b[1] = 0 \/ b[2] = 0 THEN 0
    ELSE Quot(v[u] * b[Other(u)] * Wad, b[u] * v[Other(u)])

PoolCenteredness(b, v) == CenterednessOf(b, v, Undervalued(b, v))

WithinTargetRange(b, v, margin) == PoolCenteredness(b, v) >= margin

Square(x) == MulDown(x, x)

RangeRatio(b, v) ==
    Square(MulDown(Wad + DivDown(b[1], v[1]), Wad + DivDown(b[2], v[2])))

-----------------------------------------------------------------------------
(* The virtual balances at a time *)

\* The fourth root of the price ratio, interpolated geometrically.
FourthRootRatioAt(pool) ==
    LET progress == DivDown(pool.now - pool.startTime, pool.endTime - pool.startTime)
        growth   == DivDown(pool.endRatio, pool.startRatio)
    IN IF pool.now >= pool.endTime THEN pool.endRatio
       ELSE IF pool.now <= pool.startTime THEN pool.startRatio
       ELSE Larger(Smaller(pool.startRatio, pool.endRatio),
                   MulDown(pool.startRatio, ReClammPowDown(growth, progress)))

\* A pair of values, the first for token i.
PairFor(i, x, y) == IF i = 1 THEN <<x, y>> ELSE <<y, x>>

\* The virtual balances that give the price ratio sqrtQ^2 and keep the
\* centeredness c, where u is undervalued:
\*   Vu = Ru * (1 + c + sqrt(c * (c + 4 * sqrtQ - 2) + 1)) / (2 * (sqrtQ - 1))
UndervaluedFor(balance, c, sqrtQ) ==
    Quot(balance * (Wad + c + Sqrt(c * (c + 4 * sqrtQ - 2 * Wad) + Wad * Wad)),
         2 * (sqrtQ - Wad))

ScaledWith(v, u, vu) == PairFor(u, vu, Quot(vu * v[Other(u)], v[u]))

RangeOfRatio(b, v, u, sqrtQ) ==
    IF sqrtQ = Wad \/ v[u] = 0 THEN Thrown
    ELSE ScaledWith(v, u, UndervaluedFor(b[u], CenterednessOf(b, v, u), sqrtQ))

UpdatingPriceRatio(fourthRoot, b, v) ==
    RangeOfRatio(b, v, Undervalued(b, v), Square(fourthRoot))

\* The overvalued side decays, at most to where its balance reaches the edge
\* of the range.
Decayed(pool, balance, virtual, sqrtQ) ==
    LET duration == Smaller(pool.now - pool.lastTimestamp, MaxShiftDuration)
    IN Larger(MulUp(virtual, ReClammPowDown(pool.shiftBase, duration * Wad)),
              DivUpFixed(balance, SqrtScaled(sqrtQ) - Wad))

\* The other side follows: Vu = Ru * (Vo + Ro) / ((sqrtQ - 1) * Vo - Ro)
RangeOfOvervalued(b, u, vo, sqrtQ) ==
    LET distance == MulUp(sqrtQ - Wad, vo) - b[Other(u)]
    IN IF distance = 0 THEN Thrown
       ELSE PairFor(u, Quot(b[u] * (vo + b[Other(u)]), distance), vo)

ShiftedRange(pool, b, v, u, sqrtQ) ==
    IF SqrtScaled(sqrtQ) = Wad THEN Thrown
    ELSE RangeOfOvervalued(b, u, Decayed(pool, b[Other(u)], v[Other(u)], sqrtQ), sqrtQ)

UpdatingPriceRange(pool, b, v) ==
    IF v[1] = 0 \/ v[2] = 0 THEN Thrown
    ELSE ShiftedRange(pool, b, v, Undervalued(b, v), SqrtScaled(RangeRatio(b, v)))

\* A running update, also one that ended unseen.
AfterUpdate(pool, b) ==
    IF pool.now > pool.startTime /\ pool.lastTimestamp < pool.endTime
    THEN UpdatingPriceRatio(FourthRootRatioAt(pool), b, pool.virtual)
    ELSE pool.virtual

\* A pool out of its range is shifted.
AfterShift(pool, b, v) ==
    IF v = <<0, 0>> THEN Thrown
    ELSE IF WithinTargetRange(b, v, pool.margin) THEN v
    ELSE UpdatingPriceRange(pool, b, v)

\* Frozen within the block of the last change; otherwise the update comes
\* before the shift.
CurrentVirtualBalances(pool, b) ==
    IF pool.now = pool.lastTimestamp THEN pool.virtual
    ELSE Then(AfterUpdate(pool, b), LAMBDA v : AfterShift(pool, b, v))

-----------------------------------------------------------------------------
(* The pool class *)

ReClammOnSwap(pool, kind, b, in, out, amount) ==
    Then(CurrentVirtualBalances(pool, b),
         LAMBDA v : IF kind = "GivenIn" THEN OutGivenIn(b, v, in, out, amount)
                                        ELSE InGivenOut(b, v, in, out, amount))

ReClammPoolInvariant(pool, b, rounding) ==
    Then(CurrentVirtualBalances(pool, b), LAMBDA v : ReClammInvariant(b, v, rounding))

\* The swap that takes the whole real balance out.
ReClammMaxSwap(pool, kind, b, in, out) ==
    Then(CurrentVirtualBalances(pool, b),
         LAMBDA v : IF kind = "GivenOut" THEN b[out]
                    ELSE IF v[out] = 0 THEN Thrown
                    ELSE Quot(b[out] * (b[in] + v[in]), v[out]))
=============================================================================
