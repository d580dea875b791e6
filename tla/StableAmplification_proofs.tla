--------------------- MODULE StableAmplification_proofs ---------------------
(***************************************************************************)
(* For every length of a day, precision, amplification limits and rate     *)
(* limit: the amplification parameter stays within its limits, does not    *)
(* jump, moves by a bounded factor in a day, and is a ramp in the sense of *)
(* module Ramp.                                                            *)
(***************************************************************************)
EXTENDS StableAmplification, RampArithmetic

Inv == TypeOK /\ AmpWithinLimits

\* What _getAmplificationParameter needs of the stored state to interpolate.
Readable(s, t) == /\ s.startValue \in Values
                  /\ s.endValue \in Values
                  /\ s.startTime \in Nat
                  /\ s.endTime \in Nat
                  /\ s.startTime <= t
                  /\ t \in Nat

\* Values are natural numbers.
LEMMA ValuesNat == Values \subseteq Nat
<1>1. MinAmp * Precision \in Nat
  BY MulNat, AmpAssumption, PrecisionAssumption
<1>2. MaxAmp * Precision \in Nat
  BY MulNat, AmpAssumption, PrecisionAssumption
<1> QED  BY <1>1, <1>2 DEF Values

\* The interpolated value lies between the two ends of the ramp.
LEMMA AmpBetweenEnds ==
    ASSUME NEW s, NEW t, Readable(s, t)
    PROVE  /\ AmpAt(s, t) \in Int
           /\ \/ s.startValue <= AmpAt(s, t) /\ AmpAt(s, t) <= s.endValue
              \/ s.endValue <= AmpAt(s, t) /\ AmpAt(s, t) <= s.startValue
<1>0. /\ s.startValue \in Nat /\ s.endValue \in Nat
      /\ s.startTime \in Nat /\ s.endTime \in Nat
      /\ t \in Nat /\ s.startTime <= t
  BY ValuesNat DEF Readable
<1>1. CASE ~IsUpdatingAt(s, t)
  BY <1>0, <1>1 DEF AmpAt
<1>2. CASE IsUpdatingAt(s, t)
  <2> DEFINE d == s.endTime - s.startTime
             x == t - s.startTime
  <2>1. d \in Nat \ {0} /\ x \in Nat /\ x <= d
    BY <1>0, <1>2 DEF IsUpdatingAt
  <2>2. CASE s.endValue > s.startValue
    <3> DEFINE a == s.endValue - s.startValue
    <3>1. a \in Nat
      BY <1>0, <2>2
    <3>2. (a * x) \div d \in 0..a
      BY <2>1, <3>1, ShareBounds
    <3>3. AmpAt(s, t) = s.startValue + (a * x) \div d
      BY <1>2, <2>2 DEF AmpAt
    <3> QED  BY <1>0, <3>2, <3>3
  <2>3. CASE ~(s.endValue > s.startValue)
    <3> DEFINE a == s.startValue - s.endValue
    <3>1. a \in Nat
      BY <1>0, <2>3
    <3>2. (a * x) \div d \in 0..a
      BY <2>1, <3>1, ShareBounds
    <3>3. AmpAt(s, t) = s.startValue - (a * x) \div d
      BY <1>2, <2>3 DEF AmpAt
    <3> QED  BY <1>0, <3>2, <3>3
  <2> QED  BY <2>2, <2>3
<1> QED  BY <1>1, <1>2

\* ... so it is within the limits when both ends are.
LEMMA AmpInValues ==
    ASSUME NEW s, NEW t, Readable(s, t)
    PROVE  AmpAt(s, t) \in Values
<1>1. MinAmp * Precision \in Int /\ MaxAmp * Precision \in Int
  BY AmpAssumption, PrecisionAssumption
<1>0. s.startValue \in Nat /\ s.endValue \in Nat
  BY ValuesNat DEF Readable
<1>2. /\ s.startValue >= MinAmp * Precision /\ s.startValue <= MaxAmp * Precision
      /\ s.endValue >= MinAmp * Precision /\ s.endValue <= MaxAmp * Precision
  BY DEF Readable, Values
<1> QED  BY <1>0, <1>1, <1>2, AmpBetweenEnds DEF Values

\* A ramp that starts now starts at its start value.
LEMMA AmpAtStart ==
    ASSUME NEW s, Readable(s, s.startTime), IsUpdatingAt(s, s.startTime)
    PROVE  AmpAt(s, s.startTime) = s.startValue
<1>a. /\ s.startValue \in Nat /\ s.endValue \in Nat
      /\ s.startTime \in Nat /\ s.endTime \in Nat
  BY ValuesNat DEF Readable
<1>0. /\ s.endTime - s.startTime \in Nat \ {0}
      /\ s.startTime - s.startTime = 0
  BY <1>a DEF IsUpdatingAt
<1>1. CASE s.endValue > s.startValue
  <2>1. ((s.endValue - s.startValue) * 0) \div (s.endTime - s.startTime) = 0
    BY <1>0, <1>a, <1>1, ShareEnds
  <2> QED  BY <1>0, <1>a, <1>1, <2>1 DEF AmpAt
<1>2. CASE ~(s.endValue > s.startValue)
  <2>1. s.startValue - s.endValue \in Nat
    BY <1>a, <1>2
  <2>2. ((s.startValue - s.endValue) * 0) \div (s.endTime - s.startTime) = 0
    BY <1>0, <2>1, ShareEnds
  <2> QED  BY <1>0, <1>a, <1>2, <2>2 DEF AmpAt
<1> QED  BY <1>1, <1>2

\* As time passes the value moves towards the end value.
LEMMA AmpMovesToEnd ==
    ASSUME NEW s, NEW t, NEW u, Readable(s, t), Readable(s, u), t <= u
    PROVE  \/ AmpAt(s, t) <= AmpAt(s, u) /\ AmpAt(s, u) <= s.endValue
           \/ s.endValue <= AmpAt(s, u) /\ AmpAt(s, u) <= AmpAt(s, t)
<1>0. /\ s.startValue \in Nat /\ s.endValue \in Nat
      /\ s.startTime \in Nat /\ s.endTime \in Nat
      /\ t \in Nat /\ u \in Nat /\ s.startTime <= t
  BY ValuesNat DEF Readable
<1>1. CASE ~IsUpdatingAt(s, u)
  <2>1. AmpAt(s, u) = s.endValue
    BY <1>1 DEF AmpAt
  <2>2. AmpAt(s, t) \in Int
    BY AmpBetweenEnds
  <2> QED  BY <1>0, <2>1, <2>2
<1>2. CASE IsUpdatingAt(s, u)
  <2> DEFINE d == s.endTime - s.startTime
             x == t - s.startTime
             y == u - s.startTime
  <2>1. d \in Nat \ {0} /\ x \in Nat /\ y \in Nat /\ x <= y /\ y <= d
    BY <1>0, <1>2 DEF IsUpdatingAt
  <2>2. IsUpdatingAt(s, t)
    BY <1>0, <1>2 DEF IsUpdatingAt
  <2>3. CASE s.endValue > s.startValue
    <3> DEFINE a == s.endValue - s.startValue
    <3>1. a \in Nat
      BY <1>0, <2>3
    <3>2. (a * x) \div d <= (a * y) \div d
      BY <2>1, <3>1, ShareMonotone
    <3>3. (a * y) \div d \in 0..a /\ x <= d
      BY <2>1, <3>1, ShareBounds
    <3>4. (a * x) \div d \in 0..a
      BY <2>1, <3>1, <3>3, ShareBounds
    <3>5. /\ AmpAt(s, t) = s.startValue + (a * x) \div d
          /\ AmpAt(s, u) = s.startValue + (a * y) \div d
      BY <1>2, <2>2, <2>3 DEF AmpAt
    <3> QED  BY <1>0, <3>2, <3>3, <3>4, <3>5
  <2>4. CASE ~(s.endValue > s.startValue)
    <3> DEFINE a == s.startValue - s.endValue
    <3>1. a \in Nat
      BY <1>0, <2>4
    <3>2. (a * x) \div d <= (a * y) \div d
      BY <2>1, <3>1, ShareMonotone
    <3>3. (a * y) \div d \in 0..a /\ x <= d
      BY <2>1, <3>1, ShareBounds
    <3>4. (a * x) \div d \in 0..a
      BY <2>1, <3>1, <3>3, ShareBounds
    <3>5. /\ AmpAt(s, t) = s.startValue - (a * x) \div d
          /\ AmpAt(s, u) = s.startValue - (a * y) \div d
      BY <1>2, <2>2, <2>4 DEF AmpAt
    <3> QED  BY <1>0, <3>2, <3>3, <3>4, <3>5
  <2> QED  BY <2>3, <2>4
<1> QED  BY <1>1, <1>2

-----------------------------------------------------------------------------
(* The invariant. *)

\* In every state of the invariant the stored ramp can be interpolated.
LEMMA InvReadable ==
    ASSUME Inv
    PROVE  Readable(amp, now)
<1>1. now \in Nat /\ amp.startTime \in Nat /\ amp.endTime \in Nat
  BY HorizonAssumption DEF Inv, TypeOK
<1> QED  BY <1>1 DEF Inv, TypeOK, AmpWithinLimits, Readable

\* A raw value that passes the limits is within the scaled limits.
LEMMA RawInValues ==
    ASSUME NEW raw \in Int, raw >= MinAmp, raw <= MaxAmp
    PROVE  raw * Precision \in Values
<1>1. /\ MinAmp \in Nat /\ MaxAmp \in Nat /\ Precision \in Nat
  BY AmpAssumption, PrecisionAssumption
<1>2. /\ Precision * MinAmp <= Precision * raw
      /\ Precision * raw <= Precision * MaxAmp
  BY <1>1, MulMonotone
<1>3. /\ Precision * MinAmp = MinAmp * Precision
      /\ Precision * MaxAmp = MaxAmp * Precision
      /\ Precision * raw = raw * Precision
      /\ raw * Precision \in Int
      /\ MinAmp * Precision \in Int
      /\ MaxAmp * Precision \in Int
  BY <1>1
<1> QED  BY <1>2, <1>3 DEF Values

\* A well-typed ramp that has started is read within the limits.
LEMMA AmpWithinLimitsFrom ==
    ASSUME TypeOK, amp.startTime <= now
    PROVE  AmpWithinLimits
<1>1. Readable(amp, now)
  BY HorizonAssumption DEF TypeOK, Readable
<1>2. CurrentAmp \in Values
  BY <1>1, AmpInValues DEF CurrentAmp
<1>3. MinAmp * Precision \in Int
  BY AmpAssumption, PrecisionAssumption
<1> QED  BY <1>2, <1>3 DEF AmpWithinLimits, Values

\* The constructor establishes the invariant.
LEMMA InitInv == Init => Inv
<1> SUFFICES ASSUME Init PROVE Inv
  OBVIOUS
<1>1. PICK raw \in MinAmp..MaxAmp : amp = Stopped(raw * Precision, now)
  BY DEF Init
<1>2. raw * Precision \in Values
  BY RawInValues, AmpAssumption
<1>3. now \in 0..Horizon /\ now \in Nat
  BY HorizonAssumption DEF Init
<1>4. TypeOK /\ amp.startTime <= now
  BY <1>1, <1>2, <1>3 DEF TypeOK, Stopped, State
<1> QED  BY <1>4, AmpWithinLimitsFrom DEF Inv

\* Every call and the passing of time preserve it.
LEMMA NextInv == Inv /\ [Next]_vars => Inv'
<1> SUFFICES ASSUME Inv, [Next]_vars PROVE Inv'
  OBVIOUS
<1>0. /\ CurrentAmp \in Values
      /\ now \in 0..Horizon
      /\ now \in Nat
  BY HorizonAssumption DEF Inv, TypeOK, AmpWithinLimits
<1>a. ASSUME TypeOK', (amp.startTime <= now)' PROVE Inv'
  <2>1. Readable(amp, now)'
    BY <1>a, HorizonAssumption DEF TypeOK, Readable
  <2>2. AmpAt(amp', now') \in Values
    BY <2>1, AmpInValues DEF Readable
  <2>3. MinAmp * Precision \in Int
    BY AmpAssumption, PrecisionAssumption
  <2> QED  BY <1>a, <2>2, <2>3 DEF Inv, AmpWithinLimits, CurrentAmp, Values
<1>1. ASSUME NEW raw \in (MinAmp - 1)..(MaxAmp + 1), NEW endTime \in 0..Horizon,
             StartUpdate(raw, endTime)
      PROVE  Inv'
  <2>1. raw * Precision \in Values
    BY <1>1, RawInValues, AmpAssumption DEF StartUpdate
  <2>2. endTime \in Nat /\ now <= endTime
    BY <1>0, <1>1, HorizonAssumption, DayAssumption DEF StartUpdate
  <2>3. TypeOK' /\ (amp.startTime <= now)'
    BY <1>0, <1>1, <2>1, <2>2 DEF StartUpdate, Started, State, TypeOK
  <2> QED  BY <2>3, <1>a
<1>2. CASE StopUpdate
  <2>1. TypeOK' /\ (amp.startTime <= now)'
    BY <1>0, <1>2 DEF StopUpdate, Stopped, State, TypeOK
  <2> QED  BY <2>1, <1>a
<1>3. CASE Tick
  <2>1. TypeOK' /\ (amp.startTime <= now)'
    BY <1>0, <1>3, HorizonAssumption DEF Tick, Inv, TypeOK, AmpWithinLimits
  <2> QED  BY <2>1, <1>a
<1>4. CASE UNCHANGED vars
  BY <1>4 DEF vars, Inv, TypeOK, AmpWithinLimits, CurrentAmp
<1> QED  BY <1>1, <1>2, <1>3, <1>4 DEF Next

\* The stored ramp is always well formed: its values are within the limits and
\* its times are ordered, so that the unchecked subtractions of
\* _getAmplificationParameter never wrap.
THEOREM AmpTypeCorrect == Spec => []TypeOK
<1>1. Inv => TypeOK
  BY DEF Inv
<1>2. Inv /\ [Next]_vars => Inv'
  BY NextInv
<1> QED  BY <1>1, <1>2, InitInv, PTL DEF Spec

\* The value swaps read never leaves the limits, for any sequence of updates
\* started and stopped at any time.
THEOREM AmpStaysWithinLimits == Spec => []AmpWithinLimits
<1>1. Inv => AmpWithinLimits
  BY DEF Inv
<1>2. Inv /\ [Next]_vars => Inv'
  BY NextInv
<1> QED  BY <1>1, <1>2, InitInv, PTL DEF Spec

-----------------------------------------------------------------------------
(* Calls do not move the value. *)

\* A stopped ramp is read at the value it was stopped at.
LEMMA StoppedValue ==
    ASSUME NEW v, NEW t \in Nat
    PROVE  AmpAt(Stopped(v, t), t) = v
BY DEF Stopped, State, AmpAt, IsUpdatingAt

\* Neither starting nor stopping an update changes what is read.
LEMMA CallsKeepValue ==
    ASSUME Inv
    PROVE  /\ StopUpdate => CurrentAmp' = CurrentAmp
           /\ \A raw \in (MinAmp - 1)..(MaxAmp + 1), endTime \in 0..Horizon :
                  StartUpdate(raw, endTime) => CurrentAmp' = CurrentAmp
<1>0. now \in Nat /\ CurrentAmp \in Values
  BY HorizonAssumption DEF Inv, TypeOK, AmpWithinLimits
<1>1. ASSUME StopUpdate PROVE CurrentAmp' = CurrentAmp
  BY <1>0, <1>1, StoppedValue DEF StopUpdate, CurrentAmp
<1>2. ASSUME NEW raw \in (MinAmp - 1)..(MaxAmp + 1), NEW endTime \in 0..Horizon,
             StartUpdate(raw, endTime)
      PROVE  CurrentAmp' = CurrentAmp
  <2>1. raw * Precision \in Values
    BY <1>2, RawInValues, AmpAssumption DEF StartUpdate
  <2>2. endTime \in Nat /\ now < endTime
    BY <1>0, <1>2, HorizonAssumption, DayAssumption DEF StartUpdate
  <2>3. /\ amp'.startTime = now
        /\ amp'.startValue = CurrentAmp
        /\ amp'.endValue = raw * Precision
        /\ amp'.endTime = endTime
        /\ now' = now
    BY <1>2 DEF StartUpdate, Started, State
  <2>4. Readable(amp', amp'.startTime) /\ IsUpdatingAt(amp', amp'.startTime)
    BY <1>0, <2>1, <2>2, <2>3 DEF Readable, IsUpdatingAt
  <2>5. AmpAt(amp', amp'.startTime) = amp'.startValue
    BY <2>4, AmpAtStart
  <2> QED  BY <2>3, <2>5 DEF CurrentAmp
<1> QED  BY <1>1, <1>2

\* Whatever is called in a block, a swap of that block reads the same value.
THEOREM AmpNeverJumps == Spec => NoJump
<1>1. Inv /\ [Next]_vars => [now' = now => CurrentAmp' = CurrentAmp]_vars
  <2> SUFFICES ASSUME Inv, Next, now' = now PROVE CurrentAmp' = CurrentAmp
    OBVIOUS
  <2>1. ~Tick
    BY HorizonAssumption DEF Tick, Inv, TypeOK
  <2> QED  BY <2>1, CallsKeepValue DEF Next
<1>2. Inv /\ [Next]_vars => Inv'
  BY NextInv
<1> QED  BY <1>1, <1>2, InitInv, PTL DEF Spec, NoJump

-----------------------------------------------------------------------------
(* The parameter is a ramp. *)

\* Every behaviour of the parameter is one of module Ramp's.
THEOREM AmpIsRamp == Spec => IsRamp
<1>1. Init => R!Init
  BY DEF Init, R!Init, Stopped, State, CurrentAmp, AmpAt, IsUpdatingAt
<1>2. Inv /\ [Next]_vars => [R!Next]_(R!vars)
  <2> SUFFICES ASSUME Inv, [Next]_vars PROVE [R!Next]_(R!vars)
    OBVIOUS
  <2>0. now \in Nat /\ Readable(amp, now)
    BY InvReadable DEF Readable
  <2>1. ASSUME NEW raw \in (MinAmp - 1)..(MaxAmp + 1), NEW endTime \in 0..Horizon,
               StartUpdate(raw, endTime)
        PROVE  R!Retarget
    <3>1. CurrentAmp' = CurrentAmp
      BY <2>1, CallsKeepValue
    <3>2. amp'.endTime > now
      BY <2>0, <2>1, DayAssumption DEF StartUpdate, Started, State
    <3> QED  BY <2>1, <3>1, <3>2 DEF StartUpdate, Started, State, R!Retarget
  <2>2. ASSUME StopUpdate PROVE R!Freeze
    <3>1. CurrentAmp' = CurrentAmp
      BY <2>2, CallsKeepValue
    <3> QED  BY <2>2, <3>1 DEF StopUpdate, Stopped, State, R!Freeze
  <2>3. ASSUME Tick PROVE R!Advance
    <3>1. Readable(amp, now + 1)
      BY <2>0 DEF Readable
    <3>2. \/ CurrentAmp <= AmpAt(amp, now + 1) /\ AmpAt(amp, now + 1) <= amp.endValue
          \/ amp.endValue <= AmpAt(amp, now + 1) /\ AmpAt(amp, now + 1) <= CurrentAmp
      BY <2>0, <3>1, AmpMovesToEnd DEF CurrentAmp
    <3>3. now' = now + 1 /\ amp' = amp /\ CurrentAmp' = AmpAt(amp, now + 1)
      BY <2>3 DEF Tick, CurrentAmp
    <3>4. now + 1 >= amp.endTime => CurrentAmp' = amp.endValue
      BY <2>0, <3>3 DEF AmpAt, IsUpdatingAt, Readable
    <3> QED  BY <2>0, <3>2, <3>3, <3>4 DEF R!Advance, R!OnTheWay
  <2>4. ASSUME UNCHANGED vars PROVE UNCHANGED R!vars
    BY <2>4 DEF vars, R!vars, CurrentAmp
  <2> QED  BY <2>1, <2>2, <2>3, <2>4 DEF Next, R!Next
<1>3. Inv /\ [Next]_vars => Inv'
  BY NextInv
<1> QED  BY <1>1, <1>2, <1>3, InitInv, PTL DEF Spec, IsRamp, R!Spec

-----------------------------------------------------------------------------
(* One update moves the value gradually. *)

\* The ramp that is stored passed startAmplificationParameterUpdate's check of
\* the daily rate, from the value it started at.
Gentle == amp.startTime < amp.endTime =>
              DailyRate(amp.startValue, amp.endValue, amp.endTime - amp.startTime)
                  <= MaxDailyRate

GInv == Inv /\ Gentle

\* No value is zero.
LEMMA ValuesPositive == Values \subseteq Nat \ {0}
<1>1. MinAmp * Precision \in Nat /\ Precision \in Nat \ {0}
  BY MulNat, AmpAssumption, PrecisionAssumption
<1>2. Precision * 1 <= Precision * MinAmp
  BY MulMonotone, AmpAssumption, PrecisionAssumption
<1>3. MinAmp * Precision >= 1
  BY <1>1, <1>2, AmpAssumption
<1> QED  BY <1>1, <1>3, ValuesNat DEF Values

\* Between its ends, both included, the ramp is a share of the whole change.
LEMMA AmpIsShare ==
    ASSUME NEW s, NEW t, Readable(s, t), s.startTime < s.endTime, t <= s.endTime
    PROVE  /\ s.endValue > s.startValue =>
                  AmpAt(s, t) = s.startValue
                      + ((s.endValue - s.startValue) * (t - s.startTime))
                            \div (s.endTime - s.startTime)
           /\ ~(s.endValue > s.startValue) =>
                  AmpAt(s, t) = s.startValue
                      - ((s.startValue - s.endValue) * (t - s.startTime))
                            \div (s.endTime - s.startTime)
<1>0. /\ s.startValue \in Nat /\ s.endValue \in Nat
      /\ s.startTime \in Nat /\ s.endTime \in Nat /\ t \in Nat
  BY ValuesNat DEF Readable
<1>1. CASE IsUpdatingAt(s, t)
  BY <1>1 DEF AmpAt
<1>2. CASE ~IsUpdatingAt(s, t)
  <2> DEFINE d == s.endTime - s.startTime
             up == s.endValue - s.startValue
             down == s.startValue - s.endValue
  <2>1. d \in Nat \ {0} /\ t - s.startTime = d
    BY <1>0, <1>2 DEF IsUpdatingAt
  <2>2. AmpAt(s, t) = s.endValue
    BY <1>2 DEF AmpAt
  <2>3. up \in Nat => (up * d) \div d = up
    BY <2>1, ShareEnds
  <2>4. down \in Nat => (down * d) \div d = down
    BY <2>1, ShareEnds
  <2>5. /\ s.endValue > s.startValue => up \in Nat /\ s.endValue = s.startValue + up
        /\ ~(s.endValue > s.startValue) =>
               down \in Nat /\ s.endValue = s.startValue - down
    BY <1>0
  <2> HIDE DEF d, up, down
  <2>6. /\ s.endValue > s.startValue =>
               AmpAt(s, t) = s.startValue + (up * d) \div d
        /\ ~(s.endValue > s.startValue) =>
               AmpAt(s, t) = s.startValue - (down * d) \div d
    BY <2>2, <2>3, <2>4, <2>5
  <2> QED  BY <2>1, <2>6 DEF d, up, down
<1> QED  BY <1>1, <1>2

\* The check of the daily rate bounds a day of a ramp by its lower end.
LEMMA RateCovers ==
    ASSUME NEW a \in Nat \ {0}, NEW b \in Nat \ {0}, NEW d \in Nat \ {0},
           DailyRate(a, b, d) <= MaxDailyRate
    PROVE  /\ b > a => (b - a) * Day <= d * (MaxDailyRate * a)
           /\ ~(b > a) => (a - b) * Day <= d * (MaxDailyRate * b)
<1> USE DayAssumption, RateAssumption
<1> DEFINE R0 == MaxDailyRate
<1>a. ASSUME NEW hi \in Nat \ {0}, NEW lo \in Nat \ {0}, lo <= hi,
             DivUpRaw(hi * Day, lo * d) <= R0
      PROVE  (hi - lo) * Day <= d * (R0 * lo)
  <2>1. hi * Day \in Nat /\ lo * d \in Nat \ {0}
    BY MulNat
  <2>2. hi * Day <= (lo * d) * R0
    BY <1>a, <2>1, DivUpCovers DEF DivUpRaw
  <2>3. (hi - lo) * Day <= hi * Day
    <3>1. Day * (hi - lo) <= Day * hi
      BY MulMonotone
    <3> QED  BY <3>1
  <2>4. (lo * d) * R0 = d * (R0 * lo)
    OBVIOUS
  <2> QED  BY <2>1, <2>2, <2>3, <2>4
<1>1. CASE b > a
  BY <1>1, <1>a DEF DailyRate
<1>2. CASE ~(b > a)
  BY <1>2, <1>a DEF DailyRate
<1> QED  BY <1>1, <1>2

\* A value that grew by at most r times itself grew by at most a factor r + 1.
LEMMA FactorFrom ==
    ASSUME NEW v \in Nat, NEW w \in Nat, NEW r \in Nat, NEW a \in Nat,
           a <= v, v <= w, w <= v + r * a
    PROVE  w <= (r + 1) * v /\ v <= (r + 1) * w
<1>1. r * a <= r * v /\ r * a \in Nat /\ r * v \in Nat /\ r * w \in Nat
  BY MulMonotone, MulNat
<1>2. (r + 1) * v = r * v + v /\ (r + 1) * w = r * w + w
  OBVIOUS
<1> QED  BY <1>1, <1>2

\* What the check lets through moves by less than that factor over any day.
LEMMA GentleDay ==
    ASSUME GInv
    PROVE  DailyFactorBounded
<1> SUFFICES ASSUME NEW t \in amp.startTime..(amp.endTime - Day)
             PROVE  /\ AmpAt(amp, t + Day) <= (MaxDailyRate + 1) * AmpAt(amp, t)
                    /\ AmpAt(amp, t) <= (MaxDailyRate + 1) * AmpAt(amp, t + Day)
  BY DEF DailyFactorBounded, DailyFactorAtMost
<1> USE DayAssumption, RateAssumption
<1> DEFINE a == amp.startValue
           b == amp.endValue
           d == amp.endTime - amp.startTime
           x == t - amp.startTime
           v == AmpAt(amp, t)
           w == AmpAt(amp, t + Day)
<1>0. /\ amp.startValue \in Values /\ amp.endValue \in Values
      /\ amp.startTime \in Nat /\ amp.endTime \in Nat
  BY HorizonAssumption DEF GInv, Inv, TypeOK
<1>1. /\ t \in Nat /\ t + Day \in Nat
      /\ amp.startTime <= t /\ amp.startTime <= t + Day
      /\ t <= amp.endTime /\ t + Day <= amp.endTime
      /\ amp.startTime < amp.endTime
      /\ d \in Nat \ {0} /\ x \in Nat
      /\ (t + Day) - amp.startTime = x + Day
  BY <1>0
<1>2. Readable(amp, t) /\ Readable(amp, t + Day)
  BY <1>0, <1>1 DEF Readable
<1>3. a \in Nat \ {0} /\ b \in Nat \ {0}
  BY <1>0, ValuesPositive
<1>4. v \in Nat /\ w \in Nat
  BY <1>2, AmpInValues, ValuesNat
<1>5. DailyRate(a, b, d) <= MaxDailyRate
  BY <1>1 DEF GInv, Gentle
<1>6. /\ (a <= v /\ v <= b) \/ (b <= v /\ v <= a)
      /\ (a <= w /\ w <= b) \/ (b <= w /\ w <= a)
  <2>1. (a <= v /\ v <= b) \/ (b <= v /\ v <= a)
    BY <1>2, AmpBetweenEnds
  <2>2. (a <= w /\ w <= b) \/ (b <= w /\ w <= a)
    BY <1>2, AmpBetweenEnds
  <2> QED  BY <2>1, <2>2
<1>7. /\ b > a => v = a + ((b - a) * x) \div d
      /\ ~(b > a) => v = a - ((a - b) * x) \div d
  BY <1>1, <1>2, AmpIsShare
<1>8. /\ b > a => w = a + ((b - a) * (x + Day)) \div d
      /\ ~(b > a) => w = a - ((a - b) * (x + Day)) \div d
  BY <1>1, <1>2, AmpIsShare
<1> HIDE DEF a, b, d, x, v, w
<1>9. x + Day \in Nat /\ x <= x + Day
  BY <1>1
<1>10. CASE b > a
  <2> DEFINE c == b - a
             p == (c * x) \div d
             q == (c * (x + Day)) \div d
  <2>1. c \in Nat /\ MaxDailyRate * a \in Nat
    BY <1>3, <1>10, MulNat
  <2>2. c * Day <= d * (MaxDailyRate * a)
    BY <1>1, <1>3, <1>5, <1>10, RateCovers
  <2>3. q <= p + MaxDailyRate * a
    BY <1>1, <2>1, <2>2, ShareStep
  <2>4. p <= q
    BY <1>1, <1>9, <2>1, ShareMonotone
  <2>5. v = a + p /\ w = a + q
    BY <1>7, <1>8, <1>10
  <2>6. p \in Int /\ q \in Int
    BY <1>1, <1>9, <2>1, MulNat, DivBounds
  <2> HIDE DEF c, p, q
  <2>7. v <= w /\ w <= v + MaxDailyRate * a /\ a <= v
    BY <1>3, <1>4, <1>6, <1>10, <2>1, <2>3, <2>4, <2>5, <2>6
  <2> QED  BY <1>3, <1>4, <2>7, FactorFrom DEF v, w
<1>11. CASE ~(b > a)
  <2> DEFINE c == a - b
             p == (c * x) \div d
             q == (c * (x + Day)) \div d
  <2>1. c \in Nat /\ MaxDailyRate * b \in Nat
    BY <1>3, <1>11, MulNat
  <2>2. c * Day <= d * (MaxDailyRate * b)
    BY <1>1, <1>3, <1>5, <1>11, RateCovers
  <2>3. q <= p + MaxDailyRate * b
    BY <1>1, <2>1, <2>2, ShareStep
  <2>4. p <= q
    BY <1>1, <1>9, <2>1, ShareMonotone
  <2>5. v = a - p /\ w = a - q
    BY <1>7, <1>8, <1>11
  <2>6. p \in Int /\ q \in Int
    BY <1>1, <1>9, <2>1, MulNat, DivBounds
  <2> HIDE DEF c, p, q
  <2>7. w <= v /\ v <= w + MaxDailyRate * b /\ b <= w
    BY <1>3, <1>4, <1>6, <1>11, <2>1, <2>3, <2>4, <2>5, <2>6
  <2> QED  BY <1>3, <1>4, <2>7, FactorFrom DEF v, w
<1> QED  BY <1>10, <1>11

\* The constructor stores no ramp; startAmplificationParameterUpdate stores one
\* that it checked; stopAmplificationParameterUpdate leaves none.
LEMMA NextGentle == GInv /\ [Next]_vars => GInv'
<1> SUFFICES ASSUME GInv, [Next]_vars PROVE Gentle'
  BY NextInv DEF GInv
<1>0. now \in Nat
  BY HorizonAssumption DEF GInv, Inv, TypeOK
<1>1. ASSUME NEW raw \in (MinAmp - 1)..(MaxAmp + 1), NEW endTime \in 0..Horizon,
             StartUpdate(raw, endTime)
      PROVE  Gentle'
  BY <1>1 DEF StartUpdate, Started, State, Gentle
<1>2. CASE StopUpdate
  BY <1>0, <1>2 DEF StopUpdate, Stopped, State, Gentle
<1>3. CASE Tick
  BY <1>3 DEF Tick, GInv, Gentle
<1>4. CASE UNCHANGED vars
  BY <1>4 DEF vars, GInv, Gentle
<1> QED  BY <1>1, <1>2, <1>3, <1>4 DEF Next

\* The daily limit on the announced change limits every day of the ramp that
\* swaps read: by a factor of the limit plus one, wherever the day begins.
THEOREM AmpMovesGradually == Spec => []DailyFactorBounded
<1>1. Init => GInv
  <2>1. Init => Gentle
    BY HorizonAssumption DEF Init, Stopped, State, Gentle
  <2> QED  BY <2>1, InitInv DEF GInv
<1>2. GInv /\ [Next]_vars => GInv'
  BY NextGentle
<1>3. GInv => DailyFactorBounded
  BY GentleDay
<1> QED  BY <1>1, <1>2, <1>3, PTL DEF Spec
=============================================================================
