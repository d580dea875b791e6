----------------------------- MODULE StableMaths -----------------------------
(***************************************************************************)
(* maths/typescript/src/stable: the stable curve by Newton's method, and   *)
(* the pool class over it.                                                 *)
(*                                                                         *)
(* A pool is a record; of this one only amp is read, the amplification     *)
(* times AmpPrecision.  Balances are sequences, one entry per token.       *)
(***************************************************************************)
EXTENDS FixedPoint, SequencesExt

CONSTANT MaxBalance   \* MAX_BALANCE, the most a pool can hold of a token

AmpPrecision == 1000

\* Iterations of either loop before it gives up.
MaxIterations == 255

StableMinRatio == (60 * Wad) \div 100
StableMaxRatio == 5 * Wad

Total(b) == FoldFunction(+, 0, b)

\* Newton's method from a first value: stop when a step moves by at most one.
Converge(step, first) ==
    LET Run[i \in 0..MaxIterations, x \in Int] ==
          IF i = 0 THEN Thrown
          ELSE LET y == step[x] IN IF Abs(y - x) <= 1 THEN y ELSE Run[i - 1, y]
    IN Run[MaxIterations, first]

\* The product of the balances against an invariant.
ProductTerm(b, d) == FoldLeft(LAMBDA p, x : Quot(p * d, x * Len(b)), d, b)

NextInvariant(amp, b, d, dp) ==
    LET n   == Len(b)
        ann == amp * n
    IN Quot((Quot(ann * Total(b), AmpPrecision) + dp * n) * d,
            Quot((ann - AmpPrecision) * d, AmpPrecision) + (n + 1) * dp)

\* The invariant of the curve; without a balance there is none, and a single
\* empty balance divides by zero.
StableCurve(amp, b) ==
    IF Total(b) = 0 THEN 0
    ELSE IF \E i \in DOMAIN b : b[i] = 0 THEN Thrown
    ELSE Converge([d \in Int |-> NextInvariant(amp, b, d, ProductTerm(b, d))], Total(b))

\* The balance of one token at which the other balances give the invariant.
StableBalance(amp, b, invariant, index) ==
    LET n   == Len(b)
        ann == amp * n
        PD  == FoldLeft(LAMBDA p, x : Quot(p * x * n, invariant), b[1] * n, Tail(b))
        sum == Total(b) - b[index]
        c   == DivUp(invariant * invariant * AmpPrecision, ann * PD) * b[index]
        bb  == sum + Quot(invariant * AmpPrecision, ann)
        step == [x \in Int |-> DivUp(x * x + c, 2 * x + bb - invariant)]
    IN IF invariant = 0 THEN Thrown
       ELSE Converge(step, DivUp(invariant * invariant + c, invariant + bb))

StableOutGivenIn(amp, b, in, out, amount, invariant) ==
    Then(StableBalance(amp, [b EXCEPT ![in] = @ + amount], invariant, out),
         LAMBDA final : b[out] - final - 1)

StableInGivenOut(amp, b, in, out, amount, invariant) ==
    IF b[out] <= amount THEN Thrown
    ELSE Then(StableBalance(amp, [b EXCEPT ![out] = @ - amount], invariant, in),
              LAMBDA final : final - b[in] + 1)

StableOnSwap(pool, kind, b, in, out, amount) ==
    Then(StableCurve(pool.amp, b),
         LAMBDA invariant :
             IF kind = "GivenIn"
             THEN StableOutGivenIn(pool.amp, b, in, out, amount, invariant)
             ELSE StableInGivenOut(pool.amp, b, in, out, amount, invariant))

StableInvariant(pool, b, rounding) ==
    Then(StableCurve(pool.amp, b),
         LAMBDA invariant :
             IF invariant > 0 /\ rounding = "Up" THEN invariant + 1 ELSE invariant)

StableComputeBalance(pool, b, index, ratio) ==
    Then(StableInvariant(pool, b, "Up"),
         LAMBDA invariant : StableBalance(pool.amp, b, MulUp(invariant, ratio), index))

\* 99% of the token out, or what the Vault can still hold of the token in.
StableMaxSwap(kind, b, in, out) ==
    IF kind = "GivenIn" THEN MaxBalance - b[in]
    ELSE MulDown((99 * Wad) \div 100, b[out])
=============================================================================
