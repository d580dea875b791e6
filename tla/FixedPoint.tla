----------------------------- MODULE FixedPoint -----------------------------
(***************************************************************************)
(* The fixed-point primitives of maths/typescript/src/utils: numbers with  *)
(* Wad units to the one, products and quotients with a stated direction of *)
(* rounding, powers, the square root of ozMath, and the scaling between a  *)
(* token's raw amounts and its scaled, rated ones.                         *)
(*                                                                         *)
(* The numbers are bigints, which may be negative: their division          *)
(* truncates towards zero.  Whatever throws is Thrown.                     *)
(***************************************************************************)
EXTENDS Integers

CONSTANTS Wad,        \* units of the number one (10^18 in the code)
          PowError,   \* MAX_POW_RELATIVE_ERROR, in these units
          Thrown      \* the result of a computation that throws

ASSUME WadAssumption == Wad \in Nat \ {0}
ASSUME PowErrorAssumption == PowError \in Nat
ASSUME ThrownAssumption == Thrown \notin Int

\* What follows from a result, unless it was thrown.
Then(result, Rest(_)) == IF result = Thrown THEN Thrown ELSE Rest(result)

-----------------------------------------------------------------------------
(* Integers *)

Larger(a, b) == IF a >= b THEN a ELSE b

Smaller(a, b) == IF a < b THEN a ELSE b

Abs(a) == IF a < 0 THEN -a ELSE a

\* Division of bigints by anything but zero.
Quot(a, b) ==
    IF (a < 0) = (b < 0) THEN Abs(a) \div Abs(b) ELSE -(Abs(a) \div Abs(b))

\* The quotient rounded up: 1 + (a - 1) / b, and nothing of nothing.
DivUp(a, b) == IF a = 0 \/ b = 0 THEN 0 ELSE 1 + Quot(a - 1, b)

\* a * b / c rounded up.
MulDivUp(a, b, c) == IF a * b = 0 THEN 0 ELSE Quot(a * b - 1, c) + 1

-----------------------------------------------------------------------------
(* Numbers with Wad units to the one *)

MulDown(a, b) == Quot(a * b, Wad)

MulUp(a, b) == IF a * b = 0 THEN 0 ELSE Quot(a * b - 1, Wad) + 1

DivDown(a, b) == IF a = 0 THEN 0 ELSE Quot(a * Wad, b)

DivUpFixed(a, b) == MulDivUp(a, Wad, b)

Complement(x) == IF x < Wad THEN Wad - x ELSE 0

-----------------------------------------------------------------------------
(* Square root *)

\* The largest power of two whose square does not exceed a, found by halving
\* the width of a.  Wider shifts than by 16 bits never apply to these numbers.
FirstGuess(a) ==
    LET Halve[x \in Nat, width \in 1..16, guess \in Nat] ==
          IF width = 1 THEN guess
          ELSE IF x >= 2 ^ width
               THEN Halve[x \div 2 ^ width, width \div 2, guess * 2 ^ (width \div 2)]
               ELSE Halve[x, width \div 2, guess]
    IN Halve[a, 16, 1]

\* Six iterations of Newton's method from a guess, and one correction.
Sqrt(a) ==
    LET Mean(x) == (x + a \div x) \div 2
        Newton[i \in 0..6] ==
          IF i = 0 THEN (3 * FirstGuess(a)) \div 2 ELSE Mean(Newton[i - 1])
        Corrected(x) == IF x > a \div x THEN x - 1 ELSE x
    IN IF a <= 1 THEN a ELSE Corrected(Newton[6])

-----------------------------------------------------------------------------
(* Powers *)

SqrtScaled(x) == Sqrt(x * Wad)

\* LogExpMath.pow by the value it approximates, rounded down: for whole
\* exponents up to three, one half and one quarter.
RawPow(x, y) ==
    CASE y = 0       -> Wad
      [] x = 0       -> 0
      [] y = Wad     -> x
      [] y = 2 * Wad -> (x * x) \div Wad
      [] y = 3 * Wad -> (x * x * x) \div (Wad * Wad)
      [] 2 * y = Wad -> SqrtScaled(x)
      [] 4 * y = Wad -> SqrtScaled(SqrtScaled(x))

MaxPowError(raw) == MulUp(raw, PowError) + 1

\* A power and its error, or less its error.
Raised(raw) == raw + MaxPowError(raw)
Lowered(raw) == Larger(0, raw - MaxPowError(raw))

PowUp(x, y) ==
    CASE y = Wad     -> x
      [] y = 2 * Wad -> MulUp(x, x)
      [] y = 4 * Wad -> MulUp(MulUp(x, x), MulUp(x, x))
      [] OTHER       -> Raised(RawPow(x, y))

\* Its shortcuts round up; those of ReClammMath round down.
PowDown(x, y) ==
    CASE y = Wad     -> x
      [] y = 2 * Wad -> MulUp(x, x)
      [] y = 4 * Wad -> MulUp(MulUp(x, x), MulUp(x, x))
      [] OTHER       -> Lowered(RawPow(x, y))

-----------------------------------------------------------------------------
(* Raw and scaled amounts of a token with a scaling factor and a rate *)

ToRawRoundDown(amount, factor, rate) == DivDown(amount, factor * rate)

ToRawRoundUp(amount, factor, rate) == DivUpFixed(amount, factor * rate)

ToScaledRoundDown(amount, factor, rate) == MulDown(amount * factor, rate)

ToScaledRoundUp(amount, factor, rate) == MulUp(amount * factor, rate)

\* A rate that is not a whole number is taken one unit higher.
RateRoundUp(rate) == IF (rate \div Wad) * Wad = rate THEN rate ELSE rate + 1
=============================================================================
