---------------------------- MODULE ReClammRange ----------------------------
(***************************************************************************)
(* contracts/reclamm: the price range of a ReClamm pool.  Swaps move the   *)
(* pool inside the range; time moves the range, in two ways: an announced  *)
(* update widens or narrows it, and a pool too far off its center pulls    *)
(* the range after itself.  Nothing runs by itself: the virtual balances   *)
(* are recomputed by the first interaction of each block, for all the time *)
(* since the last one.                                                     *)
(*                                                                         *)
(* What two real and two virtual balances say of a range is kept as two    *)
(* numbers: the logarithm of the ratio of its ends, in whole steps, and    *)
(* the place of the pool between them, from -Edge to Edge, 0 being the     *)
(* center.  Centeredness falls with the distance from the center, to 0 at  *)
(* an edge.  The powers and roots of ReClammMath are sums in these units;  *)
(* its rounding of virtual balances in proportional operations is left out.*)
(***************************************************************************)
EXTENDS Integers

CONSTANTS
    Edge,          \* a pool at an end of its range; also FixedPoint.ONE
    MinRatio,      \* MIN_PRICE_RATIO
    MaxRatio,      \* MAX_PRICE_RATIO
    MaxMargin,     \* MAX_CENTEREDNESS_MARGIN
    MaxShift,      \* MAX_DAILY_PRICE_SHIFT_EXPONENT, as steps per second
    MaxDuration,   \* the cap on the time between operations (30 days)
    Day,           \* _MIN_PRICE_RATIO_UPDATE_DURATION (1 day)
    MaxDailyRate,  \* _MAX_DAILY_PRICE_RATIO_UPDATE_RATE, as steps per day
    MaxDrift,      \* model bound: how far fees and rates widen the range past MaxRatio
    Horizon        \* model bound: the last timestamp

ASSUME RangeAssumption == /\ Edge \in Nat \ {0}
                          /\ MinRatio \in Nat \ {0}
                          /\ MaxRatio \in Nat
                          /\ MinRatio <= MaxRatio
                          /\ MaxMargin \in 0..(Edge - 1)
                          /\ MaxShift \in Nat
ASSUME TimeAssumption == /\ MaxDuration \in Nat \ {0}
                         /\ Day \in Nat \ {0}
                         /\ MaxDailyRate \in Nat
ASSUME BoundAssumption == MaxDrift \in Nat /\ Horizon \in Nat

VARIABLES
    now,              \* block.timestamp
    unlocked,         \* the Vault is in the middle of a session
    added,            \* the Vault's memory of an addition in its session
    live,             \* the Vault has initialized the pool
    ratio,            \* the ratio by the stored virtual and live real balances
    position,         \* the pool's place by the same balances
    lastTimestamp,    \* _lastTimestamp
    priceRatioState,  \* _priceRatioState
    margin,           \* _centerednessMargin
    shift,            \* _dailyPriceShiftBase
    disturbed         \* history: since the update was over, a trade's fee, a
                      \* charged removal or a rate may have moved the ratio

range == <<ratio, position>>
parameters == <<priceRatioState, margin, shift>>
session == <<unlocked, added>>
vars == <<now, session, live, range, lastTimestamp, parameters, disturbed>>

\* The limits are those of an announced ratio: rates and fees take the ratio
\* out of them on both sides.
Ratios == 1..(MaxRatio + MaxDrift)
Positions == -Edge..Edge

Distance(x, y) == IF x > y THEN x - y ELSE y - x
Lesser(a, b) == IF a <= b THEN a ELSE b
Greater(a, b) == IF a >= b THEN a ELSE b

\* computeCenteredness
Centeredness(place) == Edge - Distance(place, 0)

-----------------------------------------------------------------------------
(* Reading the range at time t, which may lie ahead. *)

\* computeFourthRootPriceRatio: the powers round down.
PriceRatio(s, t) ==
    IF t >= s.end THEN s.to
    ELSE IF t <= s.start THEN s.from
    ELSE Greater(Lesser(s.from, s.to),
                 s.from + ((s.to - s.from) * (t - s.start)) \div (s.end - s.start))

\* Fault: what is left of an update that is over is not applied.
UpdateAppliesWhileRunning(t) ==
    t > priceRatioState.start /\ t < priceRatioState.end

\* Whether the virtual balances are recomputed from the update.
UpdateApplies(t) ==
    t > priceRatioState.start /\ lastTimestamp < priceRatioState.end

\* computeCurrentVirtualBalances, as the ratio it leads to: the first
\* interaction of a block freezes it for the rest of the block.
RatioAt(t) == IF t # lastTimestamp /\ UpdateApplies(t)
              THEN PriceRatio(priceRatioState, t)
              ELSE ratio

\* Fault: the center does not stop the move.
MovedUnclamped(place, steps) == IF place >= 0 THEN place - steps ELSE place + steps

\* computeVirtualBalancesUpdatingPriceRange: towards the center, no further.
Moved(place, steps) ==
    LET left == Greater(Distance(place, 0) - steps, 0)
    IN  IF place >= 0 THEN left ELSE -left

\* computeCurrentVirtualBalances, as the place it leads to: an update of the
\* ratio keeps it, and a pool outside the target range is moved for the whole
\* time since the last interaction.
PositionAt(t) ==
    IF t # lastTimestamp /\ Centeredness(position) < margin
    THEN Moved(position, shift * Lesser(t - lastTimestamp, MaxDuration))
    ELSE position

CurrentRatio == RatioAt(now)
CurrentPosition == PositionAt(now)

\* isPoolWithinTargetRange
InRange == Centeredness(CurrentPosition) >= margin

-----------------------------------------------------------------------------

\* Fault: the virtual balances are stored without their time.
UpdateUntimed == /\ ratio' = CurrentRatio
                 /\ position' = CurrentPosition
                 /\ UNCHANGED lastTimestamp

\* Fault: only the time is stored.
UpdateTimeOnly == /\ UNCHANGED range
                  /\ lastTimestamp' = now

\* _updateVirtualBalances, and what the liquidity hooks store: both balances
\* scaled alike, which leaves the range where it is.
UpdateVirtualBalances == /\ ratio' = CurrentRatio
                         /\ position' = CurrentPosition
                         /\ lastTimestamp' = now

\* What _startPriceRatioUpdate stores.
State(from, to, start, end) == [from |-> from, to |-> to, start |-> start, end |-> end]

\* onBeforeInitialize, for the prices and the margin of deployment.
Initialize(initialRatio, place, initialMargin, initialShift) ==
    /\ ~live
    /\ unlocked
    /\ Centeredness(place) >= initialMargin
    /\ live' = TRUE
    /\ ratio' = initialRatio
    /\ position' = place
    /\ lastTimestamp' = now
    /\ priceRatioState' = State(initialRatio, initialRatio, now, now)
    /\ margin' = initialMargin
    /\ shift' = initialShift
    /\ disturbed' = FALSE
    /\ UNCHANGED <<now, session>>

\* Whether the update that is stored is over.
Over == now >= priceRatioState.end

\* onSwap stores the current virtual balances; then the balances of the trade
\* put the pool at another place, and the fee it keeps may widen the range.
Swap(place, drift) ==
    /\ live
    /\ unlocked
    /\ position' = place
    /\ lastTimestamp' = now
    /\ ratio' = CurrentRatio + drift
    /\ CurrentRatio + drift <= MaxRatio + MaxDrift
    /\ disturbed' = (disturbed \/ (Over /\ drift > 0))
    /\ UNCHANGED <<now, session, live, parameters>>

\* onBeforeAddLiquidity
AddLiquidity ==
    /\ live
    /\ unlocked
    /\ UpdateVirtualBalances
    /\ added' = TRUE
    /\ UNCHANGED <<now, unlocked, live, parameters, disturbed>>

\* onBeforeRemoveLiquidity, which may refuse.  When the session has seen an
\* addition, the Vault keeps a fee of each token after the hook has stored the
\* virtual balances: in proportion, so the pool keeps its place, but the range
\* may widen.
RemoveLiquidity(drift) ==
    /\ live
    /\ unlocked
    /\ drift > 0 => added
    /\ CurrentRatio + drift <= MaxRatio + MaxDrift
    /\ ratio' = CurrentRatio + drift
    /\ position' = CurrentPosition
    /\ lastTimestamp' = now
    /\ disturbed' = (disturbed \/ (Over /\ drift > 0))
    /\ UNCHANGED <<now, session, live, parameters>>

\* Liquidity changes without a fee.
ChangeLiquidity == AddLiquidity \/ RemoveLiquidity(0)

\* Liquidity goes in the session it came in.
RoundTrip == RemoveLiquidity(1)

\* A rate provider changes a rate, and with it the live balances: the ratio
\* of the range, by the stored virtual balances, rises or falls.  A change by
\* more than a step is several changes.
ChangeRate(place, newRatio) ==
    /\ live
    /\ Distance(newRatio, ratio) <= 1
    /\ Distance(place, position) <= 1
    /\ ratio' = newRatio
    /\ position' = place
    /\ disturbed' = (disturbed \/ Over)
    /\ UNCHANGED <<now, session, live, lastTimestamp, parameters>>

\* startPriceRatioUpdate reads its start from the balances it has updated.
StartRatio == CurrentRatio

\* Fault: the times may come in either order.
DurationEitherWay(start, end) == Distance(start, end)

\* The length of an update, negative when resolveStartTime would refuse it.
Duration(start, end) == end - start

\* startPriceRatioUpdate, in or out of a session of the Vault; an update in
\* progress is replaced.
StartPriceRatioUpdate(to, startTime, end) ==
    LET start == Greater(startTime, now)
    IN  /\ live
        /\ to >= MinRatio /\ to <= MaxRatio
        /\ Duration(start, end) >= Day
        /\ to # StartRatio
        /\ Distance(to, StartRatio) * Day <= MaxDailyRate * Duration(start, end)
        /\ UpdateVirtualBalances
        /\ priceRatioState' = State(StartRatio, to, start, end)
        /\ disturbed' = FALSE
        /\ UNCHANGED <<now, session, live, margin, shift>>

\* stopPriceRatioUpdate; an update that is over at this instant, or not yet
\* running, may still be stopped.
StopPriceRatioUpdate ==
    /\ live
    /\ priceRatioState.end >= now
    /\ UpdateVirtualBalances
    /\ priceRatioState' = State(CurrentRatio, CurrentRatio, now, now)
    /\ disturbed' = FALSE
    /\ UNCHANGED <<now, session, live, margin, shift>>

\* setDailyPriceShiftExponent
SetDailyPriceShift(newShift) ==
    /\ live
    /\ ~unlocked
    /\ newShift <= MaxShift
    /\ UpdateVirtualBalances
    /\ shift' = newShift
    /\ UNCHANGED <<now, session, live, priceRatioState, margin, disturbed>>

\* Fault: the new margin is not compared with the pool's place.
MarginAcceptableByOld(newMargin) == Centeredness(CurrentPosition) >= margin

\* setCenterednessMargin's condition, on the updated balances.
MarginAcceptable(newMargin) == /\ Centeredness(CurrentPosition) >= margin
                               /\ Centeredness(CurrentPosition) >= newMargin

SetCenterednessMargin(newMargin) ==
    /\ live
    /\ ~unlocked
    /\ MarginAcceptable(newMargin)
    /\ newMargin <= MaxMargin
    /\ UpdateVirtualBalances
    /\ margin' = newMargin
    /\ UNCHANGED <<now, session, live, priceRatioState, shift, disturbed>>

\* A session of the Vault lies within a transaction, so within a block.
Unlock == /\ ~unlocked
          /\ unlocked' = TRUE
          /\ UNCHANGED <<now, added, live, range, lastTimestamp, parameters, disturbed>>

Lock == /\ unlocked
        /\ unlocked' = FALSE
        /\ added' = FALSE
        /\ UNCHANGED <<now, live, range, lastTimestamp, parameters, disturbed>>

Tick == /\ ~unlocked
        /\ now < Horizon
        /\ now' = now + 1
        /\ UNCHANGED <<session, live, range, lastTimestamp, parameters, disturbed>>

Init == /\ now = 0
        /\ unlocked = FALSE
        /\ added = FALSE
        /\ live = FALSE
        /\ ratio = MinRatio
        /\ position = 0
        /\ lastTimestamp = 0
        /\ priceRatioState = State(MinRatio, MinRatio, 0, 0)
        /\ margin = 0
        /\ shift = 0
        /\ disturbed = FALSE

Trade == \/ \E place \in Positions, drift \in 0..1 : Swap(place, drift)
         \/ \E place \in Positions, newRatio \in Ratios : ChangeRate(place, newRatio)

\* The calls that are not trades; 0 stands for every start in the past.
Manage == \/ \E to \in MinRatio..MaxRatio,
                start \in {0} \union (now + 1)..Horizon, end \in now..Horizon :
                 StartPriceRatioUpdate(to, start, end)
          \/ StopPriceRatioUpdate
          \/ \E s \in 0..MaxShift : SetDailyPriceShift(s)
          \/ \E m \in 0..MaxMargin : SetCenterednessMargin(m)
          \/ ChangeLiquidity

Next == \/ \E r \in MinRatio..MaxRatio, place \in Positions,
              m \in 0..MaxMargin, s \in 0..MaxShift : Initialize(r, place, m, s)
        \/ Trade
        \/ Manage
        \/ RoundTrip
        \/ Unlock
        \/ Lock
        \/ Tick

Spec == Init /\ [][Next]_vars

-----------------------------------------------------------------------------

\* Every variable has its type, and the times the order that the unsigned
\* subtractions of the interpolation and of the duration need.
TypeOK == /\ now \in 0..Horizon
          /\ unlocked \in BOOLEAN
          /\ added \in BOOLEAN
          /\ live \in BOOLEAN
          /\ disturbed \in BOOLEAN
          /\ ratio \in Ratios
          /\ position \in Positions
          /\ lastTimestamp \in 0..now
          /\ priceRatioState \in [from : Ratios, to : Ratios,
                                  start : 0..Horizon, end : 0..Horizon]
          /\ priceRatioState.start <= priceRatioState.end
          /\ margin \in 0..MaxMargin
          /\ shift \in 0..MaxShift

\* When an update's time is over its target has been reached exactly, even if
\* no one touched the pool from before its start until long after its end, and
\* whatever fees and rates did to the range before that end.
UpdateArrives ==
    live /\ Over /\ ~disturbed => CurrentRatio = priceRatioState.to

\* Within a block only trades, rates and the fee of a round trip move the range
\* or the pool in it: any other liquidity operation or a call of the managers
\* moves neither at that instant, so the time before a new parameter is charged
\* at the old one, and an update starts and stops where the range is.
ManagingMovesNothing ==
    [][live /\ now' = now /\ ~UNCHANGED <<CurrentRatio, CurrentPosition>>
           => Trade \/ RoundTrip]_vars

\* Only trades and rates take a pool out of its target range: no call, no
\* liquidity operation, no update of the ratio and no amount of time does.
OnlyTradesLeaveRange ==
    [][live /\ InRange /\ ~InRange' => Trade]_vars

\* Who touches the pool when does not matter for the announced ratio: after a
\* liquidity operation without a fee it will be read at every later time as
\* without it.  The place is moved no further than without it, as long as the
\* time since the last interaction is not capped; with the cap it may be.
TouchingBendsNothing ==
    [][ChangeLiquidity =>
        \A t \in now..Horizon :
            /\ RatioAt(t)' = RatioAt(t)
            /\ t - lastTimestamp <= MaxDuration =>
                   Distance(PositionAt(t)', 0) >= Distance(PositionAt(t), 0)]_vars

\* The ratio is not what has been announced for now: fees, rates or a start
\* that lay ahead.
Drifted == CurrentRatio # PriceRatio(priceRatioState, now)

OnTheWay(x, y, z) == (x <= y /\ y <= z) \/ (z <= y /\ y <= x)

\* While time passes an undrifted range widens or narrows towards the target
\* only.  A drifted one stays where it is, before the start and after the end,
\* or is put at once where the announcement has it.  The pool comes closer to
\* the center without crossing it.
TimeMovesTowardsTarget ==
    [][live /\ now' # now =>
        /\ ~Drifted => OnTheWay(CurrentRatio, CurrentRatio', priceRatioState.to)
        /\ CurrentRatio' # CurrentRatio => ~Drifted'
        /\ OnTheWay(CurrentPosition, CurrentPosition', 0)]_vars
=============================================================================
