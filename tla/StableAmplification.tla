------------------------ MODULE StableAmplification ------------------------
(***************************************************************************)
(* The amplification parameter of contracts/stable/StablePool.sol: stored  *)
(* as the two ends of a linear ramp over time, read by every swap, started *)
(* and stopped by the swap fee manager or by governance.                   *)
(*                                                                         *)
(* now is block.timestamp: several transactions share a block, so an       *)
(* update may start, and stop, between two reads at the same timestamp.    *)
(***************************************************************************)
EXTENDS Integers

CONSTANTS
    Day,          \* seconds in a day (86400)
    Precision,    \* StableMath.AMP_PRECISION (1000)
    MinAmp,       \* StableMath.MIN_AMP (1)
    MaxAmp,       \* StableMath.MAX_AMP (50000)
    MaxDailyRate, \* _MAX_AMP_UPDATE_DAILY_RATE (2)
    Horizon       \* model bound: the last timestamp

ASSUME DayAssumption == Day \in Nat \ {0}
ASSUME PrecisionAssumption == Precision \in Nat \ {0}
ASSUME AmpAssumption == /\ MinAmp \in Nat \ {0}
                        /\ MaxAmp \in Nat
                        /\ MinAmp <= MaxAmp
ASSUME RateAssumption == MaxDailyRate \in Nat \ {0}
ASSUME HorizonAssumption == Horizon \in Nat

VARIABLES
    now,  \* block.timestamp
    amp   \* _amplificationState

vars == <<now, amp>>

Values == MinAmp * Precision .. MaxAmp * Precision

\* FixedPoint.divUpRaw: division rounded up, both operands positive.
DivUpRaw(a, b) == (a + b - 1) \div b

-----------------------------------------------------------------------------
(* Reading the parameter. *)

IsUpdatingAt(s, t) == t < s.endTime

\* Fault: a falling ramp moves the wrong way.
AmpAtRisingOnly(s, t) ==
    IF ~IsUpdatingAt(s, t)
    THEN s.endValue
    ELSE LET change == IF s.endValue > s.startValue THEN s.endValue - s.startValue
                                                    ELSE s.startValue - s.endValue
         IN  s.startValue + (change * (t - s.startTime)) \div (s.endTime - s.startTime)

\* _getAmplificationParameter at timestamp t.  Solidity truncates towards zero;
\* all differences are natural here, so \div does the same.
AmpAt(s, t) ==
    IF ~IsUpdatingAt(s, t)
    THEN s.endValue
    ELSE IF s.endValue > s.startValue
         THEN s.startValue + ((s.endValue - s.startValue) * (t - s.startTime))
                                  \div (s.endTime - s.startTime)
         ELSE s.startValue - ((s.startValue - s.endValue) * (t - s.startTime))
                                  \div (s.endTime - s.startTime)

CurrentAmp == AmpAt(amp, now)
IsUpdating == IsUpdatingAt(amp, now)

\* AmplificationState
State(v0, v1, t0, t1) ==
    [startValue |-> v0, endValue |-> v1, startTime |-> t0, endTime |-> t1]

\* Fault: the state is left as if the update had ended a second earlier.
StoppedEarlier(v, t) == State(v, v, t, t - 1)

\* _stopAmplification: both ends at v, both times at t.
Stopped(v, t) == State(v, v, t, t)

-----------------------------------------------------------------------------

\* The constructor takes a raw amplification factor within the limits.
Init == /\ now \in 0..Horizon
        /\ \E raw \in MinAmp..MaxAmp : amp = Stopped(raw * Precision, now)

\* Fault: a decrease is measured like an increase.
DailyIncrease(currentValue, endValue, duration) ==
    DivUpRaw(endValue * Day, currentValue * duration)

\* The change per day of an update to endValue over duration, rounded up.
DailyRate(currentValue, endValue, duration) ==
    IF endValue > currentValue
    THEN DivUpRaw(endValue * Day, currentValue * duration)
    ELSE DivUpRaw(currentValue * Day, endValue * duration)

\* Fault: the ramp starts from the stored value, not from the current one.
StartedFromStored(endValue, endTime) ==
    State(amp.startValue, endValue, now, endTime)

\* Fault: the end time is taken for a duration.
StartedForDuration(endValue, endTime) ==
    State(CurrentAmp, endValue, now, now + endTime)

\* The update that startAmplificationParameterUpdate stores.
Started(endValue, endTime) == State(CurrentAmp, endValue, now, endTime)

\* startAmplificationParameterUpdate
StartUpdate(rawEndValue, endTime) ==
    LET endValue == rawEndValue * Precision
        duration == endTime - now
    IN  /\ rawEndValue >= MinAmp
        /\ rawEndValue <= MaxAmp
        /\ duration >= Day
        /\ ~IsUpdating
        /\ DailyRate(CurrentAmp, endValue, duration) <= MaxDailyRate
        /\ amp' = Started(endValue, endTime)
        /\ UNCHANGED now

\* Fault: stopping jumps to the announced value.
StopUpdateAtEnd == /\ IsUpdating
                   /\ amp' = Stopped(amp.endValue, now)
                   /\ UNCHANGED now

\* stopAmplificationParameterUpdate
StopUpdate == /\ IsUpdating
              /\ amp' = Stopped(CurrentAmp, now)
              /\ UNCHANGED now

\* The next block.
Tick == /\ now < Horizon
        /\ now' = now + 1
        /\ UNCHANGED amp

Next == \/ \E raw \in (MinAmp - 1)..(MaxAmp + 1), endTime \in 0..Horizon :
               StartUpdate(raw, endTime)
        \/ StopUpdate
        \/ Tick

\* Blocks keep coming, whatever the pool's owners do.
Spec == Init /\ [][Next]_vars /\ WF_vars(Tick)

-----------------------------------------------------------------------------

\* Every variable has its type, and the stored times are ordered the way the
\* unchecked subtractions of _getAmplificationParameter need them to be.
TypeOK == /\ now \in 0..Horizon
          /\ amp \in [startValue : Values, endValue : Values,
                      startTime : 0..Horizon, endTime : 0..Horizon]
          /\ amp.startTime <= amp.endTime

\* The unchecked arithmetic of _getAmplificationParameter never wraps and the
\* value it returns never leaves the range the constructor and
\* startAmplificationParameterUpdate check, whatever updates were started and
\* stopped half way: stop stores an interpolated value that no one checks.
AmpWithinLimits == /\ amp.startTime <= now
                   /\ CurrentAmp \in Values
                   /\ CurrentAmp >= MinAmp * Precision

\* Over no day of the stored update does the value move by more than this factor.
DailyFactorAtMost(factor) ==
    \A t \in amp.startTime..(amp.endTime - Day) :
        LET v == AmpAt(amp, t)
            w == AmpAt(amp, t + Day)
        IN  /\ w <= factor * v
            /\ v <= factor * w

\* What DailyRate's check gives: a factor of one more than MaxDailyRate, because
\* the ramp is linear while the rate is relative to the first value.
DailyFactorBounded == DailyFactorAtMost(MaxDailyRate + 1)

\* What StablePool.sol:68-69 says it gives: the value is at most divided or
\* multiplied by MaxDailyRate every day.  A run shows that it is not.
DailyFactorDocumented == DailyFactorAtMost(MaxDailyRate)

\* No call moves the value: starting or stopping an update leaves what a swap
\* in the same block reads, so only time changes the price.
NoJump == [][now' = now => CurrentAmp' = CurrentAmp]_vars

\* An update that is not stopped ends, and then the pool is at rest.
EveryUpdateEnds == IsUpdating ~> ~IsUpdating

\* The pool's parameter is a ramp: see Ramp.
R == INSTANCE Ramp WITH value <- CurrentAmp,
                        target <- amp.endValue,
                        deadline <- amp.endTime
IsRamp == R!Spec
=============================================================================
