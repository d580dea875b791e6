-------------------------- MODULE ReClammRange_proofs --------------------------
(***************************************************************************)
(* For every size of the range, margin, shift, cap and length of an        *)
(* update: the price range that is recomputed only when touched moves as   *)
(* an announced range that moves by itself would.                          *)
(***************************************************************************)
EXTENDS ReClammRange, RampArithmetic

Updates == [from : Ratios, to : Ratios, start : 0..Horizon, end : 0..Horizon]

\* Once the pool has been touched after the end of an update, and if nothing
\* has moved the range since that end, the update has arrived; and an update
\* without a length is one that was touched when stored.
Arrived ==
    live => /\ lastTimestamp >= priceRatioState.end /\ ~disturbed
                   => ratio = priceRatioState.to
            /\ priceRatioState.start = priceRatioState.end
                   => lastTimestamp >= priceRatioState.end

IInv == TypeOK /\ Arrived

\* The constants are numbers.
LEMMA Numbers ==
    /\ Edge \in Nat \ {0} /\ MinRatio \in Nat /\ MaxRatio \in Nat /\ MaxDrift \in Nat
    /\ MaxShift \in Nat /\ MaxMargin \in Nat /\ MaxMargin < Edge
    /\ MaxDuration \in Nat \ {0} /\ Day \in Nat \ {0} /\ Horizon \in Nat
    /\ MinRatio <= MaxRatio
    /\ Ratios \subseteq Nat /\ Positions \subseteq Int
BY RangeAssumption, TimeAssumption, BoundAssumption DEF Ratios, Positions

\* So are the fields of an update.
LEMMA UpdateNumbers ==
    ASSUME NEW s \in Updates
    PROVE  s.from \in Nat /\ s.to \in Nat /\ s.start \in Nat /\ s.end \in Nat
<1>1. s.from \in Ratios /\ s.to \in Ratios /\ s.start \in 0..Horizon /\ s.end \in 0..Horizon
  BY DEF Updates
<1>2. s.from \in Nat /\ s.to \in Nat
  BY <1>1, RangeAssumption, BoundAssumption DEF Ratios
<1>3. s.start \in Nat /\ s.end \in Nat
  BY <1>1, BoundAssumption
<1> QED  BY <1>2, <1>3

-----------------------------------------------------------------------------
(* Reading the range. *)

\* The interpolated ratio lies between the two ends of the update.
LEMMA PriceRatioBetween ==
    ASSUME NEW s \in Updates, s.start <= s.end, NEW t \in Nat
    PROVE  /\ PriceRatio(s, t) \in Int
           /\ Lesser(s.from, s.to) <= PriceRatio(s, t)
           /\ PriceRatio(s, t) <= Greater(s.from, s.to)
<1>0. s.from \in Nat /\ s.to \in Nat /\ s.start \in Nat /\ s.end \in Nat
  BY UpdateNumbers
<1>1. CASE t >= s.end \/ t <= s.start
  BY <1>0, <1>1 DEF PriceRatio, Lesser, Greater
<1>2. CASE ~(t >= s.end) /\ ~(t <= s.start)
  <2> DEFINE d == s.end - s.start
             x == t - s.start
             q == ((s.to - s.from) * x) \div d
  <2>1. d \in Nat \ {0} /\ x \in Nat /\ x <= d
    BY <1>0, <1>2
  <2>2. PriceRatio(s, t) = Greater(Lesser(s.from, s.to), s.from + q)
    BY <1>2 DEF PriceRatio
  <2>3. CASE s.to >= s.from
    <3>1. s.to - s.from \in Nat
      BY <1>0, <2>3
    <3>2. q \in 0..(s.to - s.from)
      BY <2>1, <3>1, ShareBounds
    <3> HIDE DEF q
    <3> QED  BY <1>0, <2>2, <2>3, <3>2 DEF Lesser, Greater
  <2>4. CASE s.to < s.from
    <3>1. (s.to - s.from) * x \in Int /\ (s.to - s.from) * x <= 0
      <4>1. s.from - s.to \in Nat
        BY <1>0, <2>4
      <4>2. (s.from - s.to) * x \in Nat
        BY <2>1, <4>1, MulNat
      <4>3. (s.to - s.from) * x = -((s.from - s.to) * x)
        BY <1>0, <2>1, MulOpposite
      <4> QED  BY <4>2, <4>3
    <3>2. q \in Int /\ q <= 0
      <4>1. (s.to - s.from) * x <= 0 /\ 0 \div d = 0
        BY <2>1, <3>1, ShareEnds
      <4> QED  BY <2>1, <3>1, <4>1, DivMonotone, DivBounds
    <3> HIDE DEF q
    <3> QED  BY <1>0, <2>2, <2>4, <3>2 DEF Lesser, Greater
  <2> QED  BY <1>0, <2>3, <2>4
<1> QED  BY <1>1, <1>2

\* As time passes the interpolated ratio moves to the announced one.
LEMMA PriceRatioMoves ==
    ASSUME NEW s \in Updates, s.start <= s.end,
           NEW t \in Nat, NEW u \in Nat, t <= u
    PROVE  OnTheWay(PriceRatio(s, t), PriceRatio(s, u), s.to)
<1>0. s.from \in Nat /\ s.to \in Nat /\ s.start \in Nat /\ s.end \in Nat
  BY UpdateNumbers
<1>a. /\ PriceRatio(s, t) \in Int /\ PriceRatio(s, u) \in Int
      /\ Lesser(s.from, s.to) <= PriceRatio(s, t)
      /\ PriceRatio(s, t) <= Greater(s.from, s.to)
      /\ Lesser(s.from, s.to) <= PriceRatio(s, u)
      /\ PriceRatio(s, u) <= Greater(s.from, s.to)
  BY PriceRatioBetween
<1>1. CASE u >= s.end
  <2>1. PriceRatio(s, u) = s.to
    BY <1>1 DEF PriceRatio
  <2> QED  BY <1>0, <1>a, <2>1 DEF OnTheWay
<1>2. CASE ~(u >= s.end) /\ t <= s.start
  <2>1. PriceRatio(s, t) = s.from
    BY <1>0, <1>2 DEF PriceRatio
  <2> QED  BY <1>0, <1>a, <2>1 DEF OnTheWay, Lesser, Greater
<1>3. CASE ~(u >= s.end) /\ ~(t <= s.start)
  <2> DEFINE d == s.end - s.start
             x == t - s.start
             y == u - s.start
             p == ((s.to - s.from) * x) \div d
             q == ((s.to - s.from) * y) \div d
  <2>1. d \in Nat \ {0} /\ x \in Nat /\ y \in Nat /\ x <= y /\ y <= d
    BY <1>0, <1>3
  <2>2. /\ PriceRatio(s, t) = Greater(Lesser(s.from, s.to), s.from + p)
        /\ PriceRatio(s, u) = Greater(Lesser(s.from, s.to), s.from + q)
    BY <1>0, <1>3 DEF PriceRatio
  <2>a. (s.to - s.from) * x \in Int /\ (s.to - s.from) * y \in Int
    BY <1>0, <2>1
  <2>b. p \in Int /\ q \in Int
    BY <2>1, <2>a, DivBounds
  <2>3. CASE s.to >= s.from
    <3>1. s.to - s.from \in Nat
      BY <1>0, <2>3
    <3>2. p <= q
      BY <2>1, <3>1, ShareMonotone
    <3> HIDE DEF p, q
    <3> QED  BY <1>0, <1>a, <2>2, <2>b, <2>3, <3>2 DEF OnTheWay, Lesser, Greater
  <2>4. CASE s.to < s.from
    <3>1. (s.to - s.from) * y <= (s.to - s.from) * x
      <4>1. s.from - s.to \in Nat
        BY <1>0, <2>4
      <4>2. (s.from - s.to) * x <= (s.from - s.to) * y
        BY <2>1, <4>1, MulMonotone
      <4>3. /\ (s.to - s.from) * x = -((s.from - s.to) * x)
            /\ (s.to - s.from) * y = -((s.from - s.to) * y)
            /\ (s.from - s.to) * x \in Int /\ (s.from - s.to) * y \in Int
        <5>1. s.from \in Int /\ s.to \in Int /\ x \in Int /\ y \in Int
          BY <1>0, <2>1
        <5> HIDE DEF x, y
        <5>2. (s.to - s.from) * x = -((s.from - s.to) * x) /\ (s.from - s.to) * x \in Int
          BY <5>1, MulOpposite, ZenonT(30)
        <5>3. (s.to - s.from) * y = -((s.from - s.to) * y) /\ (s.from - s.to) * y \in Int
          BY <5>1, MulOpposite, ZenonT(30)
        <5> QED  BY <5>2, <5>3, ZenonT(30)
      <4> QED  BY <4>2, <4>3
    <3>2. q <= p
      BY <2>1, <2>a, <3>1, DivMonotone
    <3> HIDE DEF p, q
    <3> QED  BY <1>0, <1>a, <2>2, <2>b, <2>4, <3>2 DEF OnTheWay, Lesser, Greater
  <2> QED  BY <1>0, <2>3, <2>4
<1> QED  BY <1>1, <1>2, <1>3

\* A move is towards the center, by the steps asked for or as far as it goes.
LEMMA MovedDistance ==
    ASSUME NEW place \in Positions, NEW steps \in Nat
    PROVE  /\ Moved(place, steps) \in Positions
           /\ Distance(Moved(place, steps), 0) = Greater(Distance(place, 0) - steps, 0)
           /\ place >= 0 => Moved(place, steps) \in 0..place
           /\ place <= 0 => Moved(place, steps) \in place..0
<1>1. Edge \in Nat /\ place \in Int /\ -Edge <= place /\ place <= Edge
  BY RangeAssumption DEF Positions
<1> DEFINE left == Greater(Distance(place, 0) - steps, 0)
<1>2. Distance(place, 0) = IF place >= 0 THEN place ELSE -place
  BY <1>1 DEF Distance
<1>3. left \in Nat /\ left <= IF place >= 0 THEN place ELSE -place
  BY <1>1, <1>2 DEF Greater
<1>4. Moved(place, steps) = IF place >= 0 THEN left ELSE -left
  BY DEF Moved
<1> HIDE DEF left
<1>5. Moved(place, steps) \in Int /\ Distance(Moved(place, steps), 0) = left
  BY <1>1, <1>3, <1>4 DEF Distance
<1>6. Moved(place, steps) \in Positions
  BY <1>1, <1>3, <1>4 DEF Positions
<1>7. left = Greater(Distance(place, 0) - steps, 0)
  BY DEF left
<1> QED  BY <1>1, <1>3, <1>4, <1>5, <1>6, <1>7

\* Whenever the range is read, its ratio is one of its ratios.
LEMMA RatioInBounds ==
    ASSUME TypeOK, NEW t \in Nat
    PROVE  RatioAt(t) \in Ratios
<1>1. ratio \in Ratios /\ priceRatioState \in Updates
      /\ priceRatioState.start <= priceRatioState.end
  BY DEF TypeOK, Updates
<1>2. priceRatioState.from \in Ratios /\ priceRatioState.to \in Ratios
  BY <1>1 DEF Updates
<1>3. /\ PriceRatio(priceRatioState, t) \in Int
      /\ Lesser(priceRatioState.from, priceRatioState.to) <= PriceRatio(priceRatioState, t)
      /\ PriceRatio(priceRatioState, t) <= Greater(priceRatioState.from, priceRatioState.to)
  BY <1>1, PriceRatioBetween
<1>4. PriceRatio(priceRatioState, t) \in Ratios
  BY <1>2, <1>3, RangeAssumption, BoundAssumption DEF Ratios, Lesser, Greater
<1> QED  BY <1>1, <1>4 DEF RatioAt

\* The steps a pool outside its target range is moved until t.
Steps(t) == shift * Lesser(t - lastTimestamp, MaxDuration)

LEMMA StepsGrow ==
    ASSUME TypeOK, NEW t \in Nat, lastTimestamp <= t, NEW u \in Nat, t <= u
    PROVE  Steps(t) \in Nat /\ Steps(u) \in Nat /\ Steps(t) <= Steps(u)
<1>1. shift \in Nat /\ lastTimestamp \in Nat /\ MaxDuration \in Nat
  BY RangeAssumption, TimeAssumption, BoundAssumption DEF TypeOK
<1> DEFINE k == Lesser(t - lastTimestamp, MaxDuration)
           l == Lesser(u - lastTimestamp, MaxDuration)
<1>2. k \in Nat /\ l \in Nat /\ k <= l
  BY <1>1 DEF Lesser
<1>3. Steps(t) = shift * k /\ Steps(u) = shift * l
  BY DEF Steps
<1> HIDE DEF k, l
<1>4. shift * k \in Nat /\ shift * l \in Nat /\ shift * k <= shift * l
  BY <1>1, <1>2, MulNat, MulMonotone
<1> QED  BY <1>3, <1>4

\* A longer time brings the pool closer to the center and never across it.
LEMMA PositionMoves ==
    ASSUME TypeOK, NEW t \in Nat, lastTimestamp <= t, NEW u \in Nat, t <= u
    PROVE  /\ PositionAt(t) \in Positions /\ PositionAt(u) \in Positions
           /\ OnTheWay(PositionAt(t), PositionAt(u), 0)
           /\ Distance(PositionAt(u), 0) <= Distance(PositionAt(t), 0)
<1>1. position \in Positions /\ lastTimestamp \in Nat
  BY BoundAssumption DEF TypeOK
<1>2. Steps(t) \in Nat /\ Steps(u) \in Nat /\ Steps(t) <= Steps(u)
  BY StepsGrow
<1>3. /\ PositionAt(t) = IF t # lastTimestamp /\ Centeredness(position) < margin
                         THEN Moved(position, Steps(t)) ELSE position
      /\ PositionAt(u) = IF u # lastTimestamp /\ Centeredness(position) < margin
                         THEN Moved(position, Steps(u)) ELSE position
  BY DEF PositionAt, Steps
<1> DEFINE x == Moved(position, Steps(t))
           y == Moved(position, Steps(u))
<1>4. position \in Int /\ Positions \subseteq Int
  BY <1>1, RangeAssumption DEF Positions
<1>5. /\ x \in Positions /\ y \in Positions
      /\ Distance(x, 0) = Greater(Distance(position, 0) - Steps(t), 0)
      /\ Distance(y, 0) = Greater(Distance(position, 0) - Steps(u), 0)
      /\ position >= 0 => x \in 0..position /\ y \in 0..position
      /\ position <= 0 => x \in position..0 /\ y \in position..0
  BY <1>1, <1>2, MovedDistance
<1>6. x \in Int /\ y \in Int
  BY <1>4, <1>5
<1> HIDE DEF x, y
<1>7. /\ OnTheWay(x, y, 0) /\ Distance(y, 0) <= Distance(x, 0)
      /\ OnTheWay(position, y, 0) /\ Distance(y, 0) <= Distance(position, 0)
      /\ OnTheWay(position, position, 0)
  BY <1>2, <1>4, <1>5, <1>6 DEF OnTheWay, Distance, Greater
<1>8. /\ PositionAt(t) = IF t # lastTimestamp /\ Centeredness(position) < margin
                         THEN x ELSE position
      /\ PositionAt(u) = IF u # lastTimestamp /\ Centeredness(position) < margin
                         THEN y ELSE position
  BY <1>3 DEF x, y
<1>9. Distance(position, 0) \in Int
  BY <1>4 DEF Distance
<1>10. t # lastTimestamp => u # lastTimestamp
  BY <1>1
<1>11. CASE Centeredness(position) < margin /\ t # lastTimestamp
  BY <1>5, <1>7, <1>8, <1>10, <1>11
<1>12. CASE Centeredness(position) < margin /\ t = lastTimestamp /\ u # lastTimestamp
  BY <1>1, <1>5, <1>7, <1>8, <1>12
<1>13. CASE ~(Centeredness(position) < margin) \/ u = lastTimestamp
  <2>1. PositionAt(t) = position /\ PositionAt(u) = position
    BY <1>8, <1>10, <1>13
  <2> QED  BY <1>1, <1>7, <1>9, <2>1
<1> QED  BY <1>11, <1>12, <1>13

\* Read after its end, an update has arrived.
LEMMA ArrivedLater ==
    ASSUME IInv, live, ~disturbed,
           NEW t \in Nat, lastTimestamp <= t, t >= priceRatioState.end
    PROVE  RatioAt(t) = priceRatioState.to
<1>1. /\ lastTimestamp \in Nat /\ priceRatioState \in Updates
      /\ priceRatioState.start <= priceRatioState.end
  BY BoundAssumption DEF IInv, TypeOK, Updates
<1>2. /\ priceRatioState.start \in Nat /\ priceRatioState.end \in Nat
      /\ priceRatioState.to \in Nat
  BY <1>1, UpdateNumbers
<1>3. CASE lastTimestamp >= priceRatioState.end
  BY <1>1, <1>2, <1>3 DEF IInv, Arrived, RatioAt, UpdateApplies
<1>4. CASE lastTimestamp < priceRatioState.end
  <2>1. t > priceRatioState.start
    BY <1>1, <1>2, <1>4 DEF IInv, Arrived
  <2>2. RatioAt(t) = priceRatioState.to
    BY <1>1, <1>2, <1>4, <2>1 DEF RatioAt, UpdateApplies, PriceRatio
  <2> QED  BY <1>2, <2>2
<1> QED  BY <1>1, <1>2, <1>3, <1>4

-----------------------------------------------------------------------------
(* The invariant. *)

\* A liquidity operation without a fee stores the range as it is.
LEMMA LiquidityTouches ==
    ASSUME IInv, ChangeLiquidity
    PROVE  /\ live /\ UpdateVirtualBalances
           /\ added' \in BOOLEAN
           /\ UNCHANGED <<now, unlocked, live, parameters, disturbed>>
<1>1. CurrentRatio \in Int /\ added \in BOOLEAN /\ disturbed \in BOOLEAN
  <2>1. now \in Nat
    BY BoundAssumption DEF IInv, TypeOK
  <2>2. CurrentRatio \in Ratios
    BY <2>1, RatioInBounds DEF IInv, CurrentRatio
  <2> QED  BY <2>2, Numbers DEF IInv, TypeOK
<1>2. CASE AddLiquidity
  BY <1>2 DEF AddLiquidity
<1>3. CASE RemoveLiquidity(0)
  <2>1. /\ live /\ ratio' = CurrentRatio + 0 /\ position' = CurrentPosition
        /\ lastTimestamp' = now /\ disturbed' = (disturbed \/ (Over /\ 0 > 0))
        /\ UNCHANGED <<now, unlocked, added, live, parameters>>
    BY <1>3 DEF RemoveLiquidity, session
  <2>2. disturbed' = disturbed
    BY <1>1, <2>1
  <2>3. ratio' = CurrentRatio
    BY <1>1, <2>1
  <2> QED  BY <1>1, <2>1, <2>2, <2>3 DEF UpdateVirtualBalances
<1> QED  BY <1>2, <1>3 DEF ChangeLiquidity

\* So do the managers.
LEMMA ManageTouches ==
    ASSUME IInv, Manage
    PROVE  live /\ live' /\ now' = now /\ UpdateVirtualBalances
<1>1. CASE ChangeLiquidity
  BY <1>1, LiquidityTouches
<1>2. CASE ~ChangeLiquidity
  BY <1>2 DEF Manage, StartPriceRatioUpdate, StopPriceRatioUpdate, SetDailyPriceShift,
       SetCenterednessMargin
<1> QED  BY <1>1, <1>2

\* A charged removal leaves the pool where it is in a range that is wider.
LEMMA RoundTripWidens ==
    ASSUME IInv, RoundTrip
    PROVE  /\ live /\ ratio' = CurrentRatio + 1 /\ ratio' \in Ratios
           /\ position' = CurrentPosition /\ lastTimestamp' = now
           /\ disturbed' = (disturbed \/ Over)
           /\ UNCHANGED <<now, session, live, parameters>>
<1>1. now \in Nat /\ CurrentRatio \in Ratios
  BY BoundAssumption, RatioInBounds DEF IInv, TypeOK, CurrentRatio
<1>2. RemoveLiquidity(1)
  BY DEF RoundTrip
<1>3. CurrentRatio + 1 \in Ratios
  BY <1>1, <1>2, RangeAssumption, BoundAssumption DEF RemoveLiquidity, Ratios
<1> QED  BY <1>2, <1>3 DEF RemoveLiquidity

LEMMA InitInvariant == Init => IInv
<1> SUFFICES ASSUME Init  PROVE IInv
  OBVIOUS
<1>1. MinRatio \in Ratios /\ 0 \in Positions /\ 0 \in 0..Horizon
      /\ 0 \in 0..MaxMargin /\ 0 \in 0..MaxShift
  BY RangeAssumption, BoundAssumption DEF Ratios, Positions
<1>2. priceRatioState \in Updates /\ priceRatioState.start <= priceRatioState.end
  BY <1>1 DEF Init, State, Updates
<1>3. now \in 0..Horizon /\ lastTimestamp \in 0..now
  BY <1>1 DEF Init
<1>4. ratio \in Ratios /\ position \in Positions /\ margin \in 0..MaxMargin
      /\ shift \in 0..MaxShift /\ live \in BOOLEAN /\ unlocked \in BOOLEAN
      /\ added \in BOOLEAN /\ disturbed \in BOOLEAN
  BY <1>1 DEF Init
<1>5. TypeOK
  BY <1>2, <1>3, <1>4 DEF TypeOK, Updates
<1> QED  BY <1>5 DEF IInv, Arrived, Init

LEMMA StepInvariant == IInv /\ [Next]_vars => IInv'
<1> SUFFICES ASSUME IInv, [Next]_vars  PROVE IInv'
  OBVIOUS
<1> USE DEF IInv
<1>a. /\ now \in 0..Horizon /\ now \in Nat /\ lastTimestamp \in 0..now
      /\ ratio \in Ratios /\ position \in Positions /\ priceRatioState \in Updates
      /\ priceRatioState.start <= priceRatioState.end
      /\ live \in BOOLEAN /\ unlocked \in BOOLEAN
      /\ added \in BOOLEAN /\ disturbed \in BOOLEAN
      /\ margin \in 0..MaxMargin /\ shift \in 0..MaxShift
  BY BoundAssumption DEF TypeOK, Updates
<1>b. /\ priceRatioState.from \in Ratios /\ priceRatioState.to \in Ratios
      /\ priceRatioState.start \in 0..Horizon /\ priceRatioState.end \in 0..Horizon
  BY <1>a DEF Updates
<1>c. Ratios \subseteq Int /\ Day \in Nat \ {0} /\ Horizon \in Nat
  BY RangeAssumption, TimeAssumption, BoundAssumption DEF Ratios
<1>d. CurrentRatio \in Ratios /\ CurrentPosition \in Positions
  BY <1>a, RatioInBounds, PositionMoves DEF CurrentRatio, CurrentPosition
<1>f. /\ CurrentRatio \in Int /\ ratio \in Int /\ priceRatioState.to \in Int
      /\ priceRatioState.start \in Int /\ priceRatioState.end \in Int
  BY <1>a, <1>b, <1>d, RangeAssumption, BoundAssumption DEF Ratios
<1>e. live /\ ~disturbed /\ Over => CurrentRatio = priceRatioState.to
  BY <1>a, ArrivedLater DEF CurrentRatio, Over
<1>1. ASSUME NEW r \in MinRatio..MaxRatio, NEW place \in Positions,
             NEW m \in 0..MaxMargin, NEW d \in 0..MaxShift, Initialize(r, place, m, d)
      PROVE  IInv'
  <2>1. r \in Ratios
    BY RangeAssumption, BoundAssumption DEF Ratios
  <2>2. priceRatioState' = [from |-> r, to |-> r, start |-> now, end |-> now]
    BY <1>1 DEF Initialize, State
  <2>3. TypeOK'
    <3>1. /\ now' \in 0..Horizon /\ ratio' \in Ratios /\ position' \in Positions
          /\ lastTimestamp' \in 0..now' /\ margin' \in 0..MaxMargin
          /\ shift' \in 0..MaxShift
      BY <1>1, <1>a, <2>1 DEF Initialize
    <3>2. /\ unlocked' \in BOOLEAN /\ added' \in BOOLEAN /\ live' \in BOOLEAN
          /\ disturbed' \in BOOLEAN
      BY <1>1, <1>a DEF Initialize, session
    <3>3. priceRatioState' \in Updates /\ priceRatioState'.start <= priceRatioState'.end
      BY <1>a, <2>1, <2>2 DEF Updates
    <3> QED  BY <3>1, <3>2, <3>3 DEF TypeOK, Updates
  <2>4. Arrived'
    BY <1>1, <1>a, <1>c, <2>1, <2>2 DEF Initialize, Arrived
  <2> QED  BY <2>3, <2>4
<1>2. ASSUME NEW place \in Positions, NEW drift \in 0..1, Swap(place, drift)
      PROVE  IInv'
  <2>1. CurrentRatio + drift \in Ratios
    BY <1>2, <1>d, RangeAssumption, BoundAssumption DEF Swap, Ratios
  <2>2. /\ live /\ live' = live /\ priceRatioState' = priceRatioState
        /\ ratio' = CurrentRatio + drift /\ lastTimestamp' = now /\ position' = place
        /\ disturbed' = (disturbed \/ (Over /\ drift > 0))
        /\ UNCHANGED <<now, unlocked, added, margin, shift>>
    BY <1>2 DEF Swap, parameters, session
  <2>3. TypeOK'
    BY <1>a, <2>1, <2>2 DEF TypeOK, Updates
  <2>4. ~disturbed' /\ Over => ~disturbed /\ ratio' = CurrentRatio
    <3>1. ~disturbed' => ~disturbed /\ ~(Over /\ drift > 0)
      BY <2>2
    <3>2. drift \in Int /\ ~(drift > 0) => CurrentRatio + drift = CurrentRatio
      BY <1>2, <1>f
    <3> QED  BY <2>2, <3>1, <3>2
  <2>5. lastTimestamp' >= priceRatioState'.end => Over
    BY <2>2 DEF Over
  <2>6. priceRatioState.end <= lastTimestamp => priceRatioState.end <= now
    BY <1>a, <1>f
  <2>7. Arrived'
    BY <1>e, <2>2, <2>4, <2>5, <2>6 DEF Arrived
  <2> QED  BY <2>3, <2>7
<1>3. ASSUME NEW place \in Positions, NEW newRatio \in Ratios, ChangeRate(place, newRatio)
      PROVE  IInv'
  <2>1. /\ live /\ live' = live /\ priceRatioState' = priceRatioState
        /\ ratio' = newRatio /\ position' = place /\ lastTimestamp' = lastTimestamp
        /\ disturbed' = (disturbed \/ Over)
        /\ UNCHANGED <<now, unlocked, added, margin, shift>>
    BY <1>3 DEF ChangeRate, parameters, session
  <2>2. TypeOK'
    BY <1>3, <1>a, <2>1 DEF TypeOK, Updates
  <2>3. lastTimestamp' >= priceRatioState'.end => disturbed'
    <3>1. lastTimestamp >= priceRatioState.end => Over
      BY <1>a, <1>f DEF Over
    <3> QED  BY <2>1, <3>1
  <2>4. Arrived'
    BY <2>1, <2>3 DEF Arrived
  <2> QED  BY <2>2, <2>4
<1>4. ASSUME UpdateVirtualBalances, live, now' = now, priceRatioState' = priceRatioState,
             disturbed' = disturbed
      PROVE  Arrived'
  BY <1>4, <1>a, <1>b, <1>c, <1>e DEF UpdateVirtualBalances, Arrived, Over
<1>5. ASSUME NEW to \in MinRatio..MaxRatio, NEW end \in now..Horizon,
             NEW startTime \in {0} \union (now + 1)..Horizon,
             StartPriceRatioUpdate(to, startTime, end)
      PROVE  IInv'
  <2> DEFINE start == Greater(startTime, now)
  <2>1. start \in 0..Horizon /\ end \in 0..Horizon /\ start >= now
    BY <1>a, <1>c DEF Greater
  <2>2. end - start >= Day /\ priceRatioState' = State(CurrentRatio, to, start, end)
        /\ UpdateVirtualBalances /\ disturbed' = FALSE
        /\ UNCHANGED <<now, unlocked, added, live, margin, shift>>
    BY <1>5 DEF StartPriceRatioUpdate, Duration, StartRatio, session
  <2> HIDE DEF start
  <2>3. start < end /\ now < end
    BY <1>a, <1>c, <2>1, <2>2
  <2>4. to \in Ratios
    BY RangeAssumption, BoundAssumption DEF Ratios
  <2>5. TypeOK'
    <3>1. /\ ratio' \in Ratios /\ position' \in Positions /\ lastTimestamp' \in 0..now'
          /\ now' \in 0..Horizon /\ margin' \in 0..MaxMargin /\ shift' \in 0..MaxShift
      BY <1>a, <1>d, <2>2 DEF UpdateVirtualBalances
    <3>2. /\ unlocked' \in BOOLEAN /\ added' \in BOOLEAN /\ live' \in BOOLEAN
          /\ disturbed' \in BOOLEAN
      BY <1>a, <2>2
    <3>3. priceRatioState' \in Updates /\ priceRatioState'.start <= priceRatioState'.end
      BY <1>d, <2>1, <2>2, <2>3, <2>4 DEF Updates, State
    <3> QED  BY <3>1, <3>2, <3>3 DEF TypeOK, Updates
  <2>6. Arrived'
    BY <1>a, <2>1, <2>2, <2>3 DEF Arrived, UpdateVirtualBalances, State
  <2> QED  BY <2>5, <2>6
<1>6. CASE StopPriceRatioUpdate
  <2>1. priceRatioState' = State(CurrentRatio, CurrentRatio, now, now)
        /\ UpdateVirtualBalances /\ disturbed' = FALSE
        /\ UNCHANGED <<now, unlocked, added, live, margin, shift>>
    BY <1>6 DEF StopPriceRatioUpdate, session
  <2>2. TypeOK'
    <3>1. /\ ratio' \in Ratios /\ position' \in Positions /\ lastTimestamp' \in 0..now'
          /\ now' \in 0..Horizon /\ margin' \in 0..MaxMargin /\ shift' \in 0..MaxShift
      BY <1>a, <1>d, <2>1 DEF UpdateVirtualBalances
    <3>2. /\ unlocked' \in BOOLEAN /\ added' \in BOOLEAN /\ live' \in BOOLEAN
          /\ disturbed' \in BOOLEAN
      BY <1>a, <2>1
    <3>3. priceRatioState' \in Updates /\ priceRatioState'.start <= priceRatioState'.end
      BY <1>a, <1>d, <2>1 DEF Updates, State
    <3> QED  BY <3>1, <3>2, <3>3 DEF TypeOK, Updates
  <2>3. Arrived'
    BY <1>a, <1>c, <1>d, <2>1 DEF Arrived, UpdateVirtualBalances, State
  <2> QED  BY <2>2, <2>3
<1>7. ASSUME NEW d \in 0..MaxShift, SetDailyPriceShift(d)
      PROVE  IInv'
  <2>1. TypeOK'
    BY <1>7, <1>a, <1>d DEF SetDailyPriceShift, UpdateVirtualBalances, TypeOK, session
  <2> QED  BY <1>7, <1>4, <2>1 DEF SetDailyPriceShift
<1>8. ASSUME NEW m \in 0..MaxMargin, SetCenterednessMargin(m)
      PROVE  IInv'
  <2>1. TypeOK'
    BY <1>8, <1>a, <1>d DEF SetCenterednessMargin, UpdateVirtualBalances, TypeOK, session
  <2> QED  BY <1>8, <1>4, <2>1 DEF SetCenterednessMargin
<1>9. CASE ChangeLiquidity
  <2>1. /\ live /\ UpdateVirtualBalances /\ added' \in BOOLEAN
        /\ UNCHANGED <<now, unlocked, live, priceRatioState, margin, shift, disturbed>>
    BY <1>9, LiquidityTouches DEF parameters
  <2>2. TypeOK'
    BY <1>a, <1>d, <2>1 DEF UpdateVirtualBalances, TypeOK, Updates
  <2> QED  BY <1>4, <2>1, <2>2
<1>10. CASE Unlock \/ Lock
  <2>1. TypeOK'
    BY <1>10, <1>a DEF Unlock, Lock, TypeOK, range, parameters
  <2>2. Arrived'
    BY <1>10 DEF Unlock, Lock, Arrived, range, parameters
  <2> QED  BY <2>1, <2>2
<1>11. CASE Tick
  <2>1. now + 1 \in 0..Horizon /\ lastTimestamp \in 0..(now + 1)
    BY <1>11, <1>a, <1>c DEF Tick
  <2>2. TypeOK'
    BY <1>11, <1>a, <2>1 DEF Tick, TypeOK, range, parameters, session
  <2>3. Arrived'
    BY <1>11 DEF Tick, Arrived, range, parameters
  <2> QED  BY <2>2, <2>3
<1>12. CASE UNCHANGED vars
  BY <1>12 DEF vars, range, parameters, session, TypeOK, Arrived
<1>13. CASE Trade
  BY <1>13, <1>2, <1>3 DEF Trade
<1>14. CASE Manage
  BY <1>14, <1>5, <1>6, <1>7, <1>8, <1>9 DEF Manage
<1>15. CASE RoundTrip
  <2>1. /\ live /\ live' = live /\ priceRatioState' = priceRatioState
        /\ ratio' \in Ratios /\ lastTimestamp' = now /\ position' = CurrentPosition
        /\ disturbed' = (disturbed \/ Over)
        /\ UNCHANGED <<now, unlocked, added, margin, shift>>
    BY <1>15, RoundTripWidens DEF parameters, session
  <2>2. TypeOK'
    BY <1>a, <1>d, <2>1 DEF TypeOK, Updates
  <2>3. lastTimestamp' >= priceRatioState'.end => disturbed'
    BY <2>1 DEF Over
  <2>4. priceRatioState.end <= lastTimestamp => priceRatioState.end <= now
    BY <1>a, <1>f
  <2>5. Arrived'
    BY <2>1, <2>3, <2>4 DEF Arrived
  <2> QED  BY <2>2, <2>5
<1> QED  BY <1>1, <1>10, <1>11, <1>12, <1>13, <1>14, <1>15 DEF Next

LEMMA Invariant == Spec => []IInv
BY InitInvariant, StepInvariant, PTL DEF Spec

\* Every variable keeps its type, and every subtraction of timestamps is of a
\* later one and an earlier one.
THEOREM RangeTypeCorrect == Spec => []TypeOK
<1>1. IInv => TypeOK
  BY DEF IInv
<1> QED  BY <1>1, Invariant, PTL

\* An update whose time is over is found exactly at its target by whoever reads
\* the range next, unless a fee or a rate has moved it since that time.
THEOREM UpdatesArrive == Spec => []UpdateArrives
<1>1. IInv => UpdateArrives
  <2> SUFFICES ASSUME IInv, live, ~disturbed, now >= priceRatioState.end
               PROVE  CurrentRatio = priceRatioState.to
    BY DEF UpdateArrives, Over
  <2>1. now \in Nat /\ lastTimestamp <= now
    BY BoundAssumption DEF IInv, TypeOK
  <2> QED  BY <2>1, ArrivedLater DEF CurrentRatio
<1> QED  BY <1>1, Invariant, PTL

-----------------------------------------------------------------------------
(* What a step does to the range as it is read. *)

\* Read at the instant of a touch, the range is the stored one.
LEMMA ReadWhenTouched ==
    ASSUME now' = now, lastTimestamp' = now
    PROVE  CurrentRatio' = ratio' /\ CurrentPosition' = position'
<1>1. now' = lastTimestamp'
  OBVIOUS
<1> QED  BY <1>1 DEF CurrentRatio, CurrentPosition, RatioAt, PositionAt

LEMMA TouchReadsTheSame ==
    ASSUME now' = now, UpdateVirtualBalances
    PROVE  CurrentRatio' = CurrentRatio /\ CurrentPosition' = CurrentPosition
<1>1. CurrentRatio' = ratio' /\ CurrentPosition' = position'
  BY ReadWhenTouched DEF UpdateVirtualBalances
<1> QED  BY <1>1 DEF UpdateVirtualBalances

\* A step that changes nothing but the Vault's session changes no reading.
LEMMA SessionReadsTheSame ==
    ASSUME UNCHANGED <<now, range, lastTimestamp, parameters>>
    PROVE  UNCHANGED <<CurrentRatio, CurrentPosition, InRange>>
BY DEF range, parameters, CurrentRatio, CurrentPosition, InRange, RatioAt,
       PositionAt, UpdateApplies, PriceRatio, Centeredness, Distance, Moved,
       Greater, Lesser

\* The steps a pool that is live can take: a trade, a round trip, a touch, a
\* tick, or none.
LEMMA LiveSteps ==
    ASSUME IInv, [Next]_vars, live
    PROVE  \/ Trade /\ now' = now
           \/ RoundTrip /\ now' = now /\ margin' = margin
                         /\ CurrentPosition' = CurrentPosition
           \/ Manage /\ now' = now /\ UpdateVirtualBalances
           \/ UNCHANGED <<now, range, lastTimestamp, parameters>>
           \/ Tick
<1>1. CASE \E r \in MinRatio..MaxRatio, place \in Positions,
              m \in 0..MaxMargin, s \in 0..MaxShift : Initialize(r, place, m, s)
  BY <1>1 DEF Initialize
<1>2. CASE Trade
  BY <1>2 DEF Trade, Swap, ChangeRate
<1>3. CASE Manage
  BY <1>3, ManageTouches
<1>4. CASE Unlock \/ Lock
  BY <1>4 DEF Unlock, Lock
<1>5. CASE UNCHANGED vars
  BY <1>5 DEF vars
<1>6. CASE RoundTrip
  <2>1. /\ position' = CurrentPosition /\ lastTimestamp' = now /\ now' = now
        /\ margin' = margin
    BY <1>6, RoundTripWidens DEF parameters
  <2> QED  BY <1>6, <2>1, ReadWhenTouched
<1> QED  BY <1>1, <1>2, <1>3, <1>4, <1>5, <1>6 DEF Next

\* Within a block nothing but a trade, a rate or the fee of a round trip changes
\* what is read.
THEOREM ManagingIsNeutral == Spec => ManagingMovesNothing
<1>1. ASSUME IInv, [Next]_vars, live, now' = now,
             ~UNCHANGED <<CurrentRatio, CurrentPosition>>
      PROVE  Trade \/ RoundTrip
  <2>1. CASE Manage /\ UpdateVirtualBalances
    BY <1>1, <2>1, TouchReadsTheSame
  <2>2. CASE UNCHANGED <<now, range, lastTimestamp, parameters>>
    BY <1>1, <2>2, SessionReadsTheSame
  <2>3. CASE Tick
    BY <1>1, <2>3, BoundAssumption DEF Tick, IInv, TypeOK
  <2> QED  BY <1>1, <2>1, <2>2, <2>3, LiveSteps
<1>2. IInv /\ [Next]_vars =>
        [live /\ now' = now /\ ~UNCHANGED <<CurrentRatio, CurrentPosition>>
            => Trade \/ RoundTrip]_vars
  BY <1>1
<1> QED  BY <1>2, Invariant, PTL DEF Spec, ManagingMovesNothing

\* Only trades and rates take the pool out of its target range.
THEOREM OnlyTradesTakeItOut == Spec => OnlyTradesLeaveRange
<1>1. ASSUME IInv, [Next]_vars, live, InRange, ~InRange'
      PROVE  Trade
  <2>1. CASE Manage /\ now' = now /\ UpdateVirtualBalances
    <3>1. CurrentPosition' = CurrentPosition
      BY <2>1, TouchReadsTheSame
    <3>2. margin' = margin \/ Centeredness(CurrentPosition) >= margin'
      <4>1. CASE ChangeLiquidity
        BY <1>1, <4>1, LiquidityTouches DEF parameters
      <4>2. CASE ~ChangeLiquidity
        BY <2>1, <4>2 DEF Manage, StartPriceRatioUpdate, StopPriceRatioUpdate,
                          SetDailyPriceShift, SetCenterednessMargin, MarginAcceptable
      <4> QED  BY <4>1, <4>2
    <3>3. Centeredness(CurrentPosition') >= margin'
      BY <1>1, <3>1, <3>2 DEF InRange
    <3> QED  BY <1>1, <3>3 DEF InRange, Centeredness
  <2>2. CASE UNCHANGED <<now, range, lastTimestamp, parameters>>
    BY <1>1, <2>2, SessionReadsTheSame
  <2>3. CASE Tick
    <3>1. /\ now' = now + 1 /\ lastTimestamp' = lastTimestamp /\ position' = position
          /\ margin' = margin /\ shift' = shift
      BY <2>3 DEF Tick, range, parameters
    <3>2. /\ now \in Nat /\ lastTimestamp \in Nat /\ lastTimestamp <= now
          /\ TypeOK /\ margin \in Nat /\ Edge \in Int
      BY <1>1, BoundAssumption, RangeAssumption DEF IInv, TypeOK
    <3>3. /\ PositionAt(now) \in Positions /\ PositionAt(now + 1) \in Positions
          /\ Distance(PositionAt(now + 1), 0) <= Distance(PositionAt(now), 0)
      BY <3>2, PositionMoves
    <3>4. CurrentPosition' = PositionAt(now + 1)
      BY <3>1 DEF CurrentPosition, PositionAt, Centeredness, Moved, Distance, Greater, Lesser
    <3>5. /\ Distance(PositionAt(now), 0) \in Int
          /\ Distance(PositionAt(now + 1), 0) \in Int
      BY <3>3, RangeAssumption DEF Positions, Distance
    <3>6. Edge - Distance(PositionAt(now), 0) >= margin
      BY <1>1 DEF InRange, CurrentPosition, Centeredness
    <3>7. Edge - Distance(PositionAt(now + 1), 0) >= margin
      BY <3>2, <3>3, <3>5, <3>6
    <3> QED  BY <1>1, <3>1, <3>4, <3>7 DEF InRange, Centeredness, Distance
  <2>4. CASE RoundTrip /\ margin' = margin /\ CurrentPosition' = CurrentPosition
    <3>1. Centeredness(CurrentPosition') >= margin'
      BY <1>1, <2>4 DEF InRange
    <3> QED  BY <1>1, <3>1 DEF InRange, Centeredness
  <2> QED  BY <1>1, <2>1, <2>2, <2>3, <2>4, LiveSteps
<1>2. IInv /\ [Next]_vars => [live /\ InRange /\ ~InRange' => Trade]_vars
  BY <1>1
<1> QED  BY <1>2, Invariant, PTL DEF Spec, OnlyTradesLeaveRange

\* While time passes an undrifted range moves to its target, neither back nor
\* past it, a drifted one stays or is put where the announcement has it, and the
\* pool moves to the center of its range, not across it.
THEOREM TimeMovesRight == Spec => TimeMovesTowardsTarget
<1>1. ASSUME IInv, [Next]_vars, live, now' # now
      PROVE  /\ ~Drifted => OnTheWay(CurrentRatio, CurrentRatio', priceRatioState.to)
             /\ CurrentRatio' # CurrentRatio => ~Drifted'
             /\ OnTheWay(CurrentPosition, CurrentPosition', 0)
  <2>1. Tick
    BY <1>1, LiveSteps
  <2>2. /\ now' = now + 1 /\ lastTimestamp' = lastTimestamp
        /\ ratio' = ratio /\ position' = position
        /\ margin' = margin /\ shift' = shift /\ priceRatioState' = priceRatioState
    BY <2>1 DEF Tick, range, parameters
  <2>3. /\ now \in Nat /\ lastTimestamp \in Nat /\ lastTimestamp <= now
        /\ TypeOK /\ priceRatioState \in Updates /\ ratio \in Ratios
        /\ priceRatioState.start <= priceRatioState.end
    BY <1>1, BoundAssumption DEF IInv, TypeOK, Updates
  <2>4. /\ CurrentPosition' = PositionAt(now + 1)
        /\ CurrentRatio' = RatioAt(now + 1)
    BY <2>2 DEF CurrentPosition, PositionAt, Centeredness, Moved, Distance, Greater,
                Lesser, CurrentRatio, RatioAt, UpdateApplies, PriceRatio
  <2>5. OnTheWay(CurrentPosition, CurrentPosition', 0)
    BY <2>3, <2>4, PositionMoves DEF CurrentPosition
  <2>6. ASSUME ~Drifted
        PROVE  OnTheWay(RatioAt(now), RatioAt(now + 1), priceRatioState.to)
    <3>1. RatioAt(now) = PriceRatio(priceRatioState, now)
      BY <2>6 DEF Drifted, CurrentRatio
    <3>2. CASE UpdateApplies(now + 1)
      <4>1. RatioAt(now + 1) = PriceRatio(priceRatioState, now + 1)
        BY <2>3, <3>2 DEF RatioAt
      <4> QED  BY <2>3, <3>1, <4>1, PriceRatioMoves
    <3>3. CASE ~UpdateApplies(now + 1)
      <4>1. RatioAt(now) = ratio /\ RatioAt(now + 1) = ratio
        <5>1. priceRatioState.start \in Nat /\ priceRatioState.end \in Nat
          BY <2>3, UpdateNumbers
        <5>2. ~UpdateApplies(now)
          BY <2>3, <3>3, <5>1 DEF UpdateApplies
        <5> QED  BY <3>3, <5>2 DEF RatioAt
      <4>2. ratio \in Int /\ priceRatioState.to \in Int
        BY <2>3, UpdateNumbers, RangeAssumption, BoundAssumption DEF Ratios
      <4> QED  BY <4>1, <4>2 DEF OnTheWay
    <3> QED  BY <3>2, <3>3
  <2>7. ASSUME RatioAt(now + 1) # RatioAt(now)
        PROVE  RatioAt(now + 1) = PriceRatio(priceRatioState, now + 1)
    <3>1. UpdateApplies(now) \/ RatioAt(now) = ratio
      BY DEF RatioAt
    <3>2. UpdateApplies(now) => UpdateApplies(now + 1)
      <4>1. priceRatioState.start \in Nat
        BY <2>3, UpdateNumbers
      <4> QED  BY <2>3, <4>1 DEF UpdateApplies
    <3>3. UpdateApplies(now + 1)
      BY <2>7, <3>1, <3>2 DEF RatioAt
    <3> QED  BY <2>3, <3>3 DEF RatioAt
  <2>8. ~Drifted' <=> RatioAt(now + 1) = PriceRatio(priceRatioState, now + 1)
    <3>1. Drifted' <=> CurrentRatio' # PriceRatio(priceRatioState, now)'
      BY DEF Drifted
    <3>2. PriceRatio(priceRatioState, now)' = PriceRatio(priceRatioState, now + 1)
      BY <2>2 DEF PriceRatio, Greater, Lesser
    <3> QED  BY <2>4, <3>1, <3>2
  <2> QED  BY <2>4, <2>5, <2>6, <2>7, <2>8 DEF CurrentRatio
<1>2. IInv /\ [Next]_vars =>
        [live /\ now' # now =>
           /\ ~Drifted => OnTheWay(CurrentRatio, CurrentRatio', priceRatioState.to)
           /\ CurrentRatio' # CurrentRatio => ~Drifted'
           /\ OnTheWay(CurrentPosition, CurrentPosition', 0)]_vars
  BY <1>1
<1> QED  BY <1>2, Invariant, PTL DEF Spec, TimeMovesTowardsTarget

-----------------------------------------------------------------------------
(* Touching the pool. *)

\* Two moves are no more than one of as many steps.
LEMMA MovedTwice ==
    ASSUME NEW place \in Positions, NEW m \in Nat, NEW n \in Nat
    PROVE  Distance(Moved(Moved(place, m), n), 0) = Distance(Moved(place, m + n), 0)
<1>1. /\ Moved(place, m) \in Positions
      /\ Distance(Moved(place, m), 0) = Greater(Distance(place, 0) - m, 0)
  BY MovedDistance
<1>2. Distance(Moved(Moved(place, m), n), 0) = Greater(Distance(Moved(place, m), 0) - n, 0)
  BY <1>1, MovedDistance
<1>3. Distance(Moved(place, m + n), 0) = Greater(Distance(place, 0) - (m + n), 0)
  BY MovedDistance
<1>4. Distance(place, 0) \in Int
  BY RangeAssumption DEF Positions, Distance
<1> QED  BY <1>1, <1>2, <1>3, <1>4 DEF Greater

\* A liquidity operation leaves every later reading of the ratio as it was.
LEMMA TouchKeepsRatio ==
    ASSUME IInv, ChangeLiquidity, NEW t \in now..Horizon
    PROVE  RatioAt(t)' = RatioAt(t)
<1> DEFINE s == priceRatioState
<1>1. /\ ratio' = CurrentRatio /\ lastTimestamp' = now /\ priceRatioState' = s /\ live
  BY LiquidityTouches DEF UpdateVirtualBalances, parameters
<1>2. /\ now \in Nat /\ t \in Nat /\ now <= t /\ lastTimestamp \in Nat
      /\ lastTimestamp <= now /\ s \in Updates /\ s.start <= s.end
  BY BoundAssumption DEF IInv, TypeOK, Updates
<1>3. s.start \in Nat /\ s.end \in Nat
  BY <1>2, UpdateNumbers
<1>4. s.start = s.end => lastTimestamp >= s.end
  BY <1>1 DEF IInv, Arrived
<1>5. RatioAt(t)' = IF t # now /\ t > s.start /\ now < s.end
                    THEN PriceRatio(s, t) ELSE CurrentRatio
  BY <1>1 DEF RatioAt, UpdateApplies, PriceRatio, Greater, Lesser
<1>6. /\ RatioAt(t) = IF t # lastTimestamp /\ t > s.start /\ lastTimestamp < s.end
                      THEN PriceRatio(s, t) ELSE ratio
      /\ CurrentRatio = IF now # lastTimestamp /\ now > s.start /\ lastTimestamp < s.end
                        THEN PriceRatio(s, now) ELSE ratio
  BY DEF CurrentRatio, RatioAt, UpdateApplies
<1>7. /\ now >= s.end => PriceRatio(s, now) = s.to
      /\ t >= s.end => PriceRatio(s, t) = s.to
  BY DEF PriceRatio
<1> HIDE DEF s
<1>8. CASE t = now
  BY <1>5, <1>8 DEF CurrentRatio
<1>9. CASE t # now /\ now < s.end
  BY <1>2, <1>3, <1>5, <1>6, <1>9
<1>10. CASE t # now /\ now >= s.end
  <2>1. RatioAt(t)' = CurrentRatio /\ t >= s.end /\ t > now
    BY <1>2, <1>3, <1>5, <1>10
  <2>2. CASE lastTimestamp < s.end
    BY <1>2, <1>3, <1>4, <1>6, <1>7, <1>10, <2>1, <2>2
  <2>3. CASE ~(lastTimestamp < s.end)
    BY <1>6, <2>1, <2>3
  <2> QED  BY <2>2, <2>3
<1> QED  BY <1>2, <1>3, <1>8, <1>9, <1>10

\* And it leaves the pool no nearer to the center than it would have come,
\* while the cap on the time is not reached.
LEMMA TouchKeepsDistance ==
    ASSUME IInv, ChangeLiquidity, NEW t \in now..Horizon,
           t - lastTimestamp <= MaxDuration
    PROVE  Distance(PositionAt(t)', 0) >= Distance(PositionAt(t), 0)
<1> DEFINE p == CurrentPosition
           q == Moved(p, shift * (t - now))
<1>1. /\ position' = p /\ lastTimestamp' = now /\ margin' = margin /\ shift' = shift
  BY LiquidityTouches DEF UpdateVirtualBalances, parameters
<1>2. /\ now \in Nat /\ t \in Nat /\ now <= t /\ lastTimestamp \in Nat
      /\ lastTimestamp <= now /\ TypeOK /\ shift \in Nat /\ position \in Positions
  BY BoundAssumption, RangeAssumption DEF IInv, TypeOK
<1>3. MaxDuration \in Nat
  BY TimeAssumption
<1>4. /\ PositionAt(t) \in Positions /\ p \in Positions
      /\ Distance(PositionAt(t), 0) <= Distance(p, 0)
  BY <1>2, PositionMoves DEF CurrentPosition
<1>5. /\ Lesser(t - now, MaxDuration) = t - now
      /\ Lesser(now - lastTimestamp, MaxDuration) = now - lastTimestamp
      /\ Lesser(t - lastTimestamp, MaxDuration) = t - lastTimestamp
  BY <1>2, <1>3 DEF Lesser
<1>6. PositionAt(t)' = IF t # now /\ Centeredness(p) < margin THEN q ELSE p
  <2>1. PositionAt(t)' = IF t # now /\ Centeredness(p) < margin
                         THEN Moved(p, shift * Lesser(t - now, MaxDuration)) ELSE p
    BY <1>1 DEF PositionAt, Centeredness, Distance, Moved, Greater, Lesser
  <2> QED  BY <1>5, <2>1
<1>7. CASE ~(t # now /\ Centeredness(p) < margin)
  <2>1. PositionAt(t)' = p
    BY <1>6, <1>7
  <2>2. Distance(p, 0) \in Int /\ Distance(PositionAt(t), 0) \in Int
    BY <1>4, RangeAssumption DEF Positions, Distance
  <2>3. Distance(PositionAt(t)', 0) = Distance(p, 0)
    BY <2>1
  <2> QED  BY <1>4, <2>2, <2>3
<1>8. CASE t # now /\ Centeredness(p) < margin
  <2>1. PositionAt(t)' = q
    BY <1>6, <1>8
  <2>2. Centeredness(position) < margin
    BY <1>8 DEF CurrentPosition, PositionAt
  <2> DEFINE m == shift * (now - lastTimestamp)
             n == shift * (t - now)
  <2>3. m \in Nat /\ n \in Nat /\ shift * (t - lastTimestamp) = m + n
    <3>1. now - lastTimestamp \in Nat /\ t - now \in Nat
      BY <1>2
    <3>2. t - lastTimestamp = (now - lastTimestamp) + (t - now)
      BY <1>2
    <3>3. shift * ((now - lastTimestamp) + (t - now)) = m + n
      BY <1>2, <3>1, MulSum
    <3> QED  BY <1>2, <3>1, <3>2, <3>3, MulNat
  <2>4. PositionAt(t) = Moved(position, m + n)
    <3>1. t # lastTimestamp
      BY <1>2, <1>8
    <3> QED  BY <1>5, <2>2, <2>3, <3>1 DEF PositionAt
  <2>5. CASE now = lastTimestamp
    <3>1. p = position /\ t - lastTimestamp = t - now
      BY <2>5 DEF CurrentPosition, PositionAt
    <3>2. q = Moved(position, m + n)
      BY <2>3, <3>1
    <3>3. PositionAt(t)' = PositionAt(t)
      BY <2>1, <2>4, <3>2
    <3>4. Distance(PositionAt(t), 0) \in Int
      BY <1>4, RangeAssumption DEF Positions, Distance
    <3>5. Distance(PositionAt(t)', 0) = Distance(PositionAt(t), 0)
      BY <3>3
    <3> QED  BY <3>4, <3>5
  <2>6. CASE now # lastTimestamp
    <3>1. p = Moved(position, m)
      BY <1>5, <2>2, <2>6 DEF CurrentPosition, PositionAt
    <3>2. Distance(q, 0) = Distance(PositionAt(t), 0)
      <4>1. q = Moved(Moved(position, m), n)
        BY <3>1
      <4> HIDE DEF m, n, q
      <4> QED  BY <1>2, <2>3, <2>4, <4>1, MovedTwice
    <3>3. Distance(PositionAt(t), 0) \in Int
      BY <1>4, RangeAssumption DEF Positions, Distance
    <3>4. Distance(PositionAt(t)', 0) = Distance(PositionAt(t), 0)
      BY <2>1, <3>2
    <3> QED  BY <3>3, <3>4
  <2> QED  BY <2>5, <2>6
<1> QED  BY <1>7, <1>8

\* A liquidity operation without a fee changes no later reading of the ratio;
\* and up to the cap it moves the pool no further.
THEOREM TouchingIsNeutral == Spec => TouchingBendsNothing
<1>1. ASSUME IInv, ChangeLiquidity
      PROVE  \A t \in now..Horizon :
                 /\ RatioAt(t)' = RatioAt(t)
                 /\ t - lastTimestamp <= MaxDuration =>
                        Distance(PositionAt(t)', 0) >= Distance(PositionAt(t), 0)
  BY <1>1, TouchKeepsRatio, TouchKeepsDistance
<1>2. IInv /\ [Next]_vars =>
        [ChangeLiquidity =>
           \A t \in now..Horizon :
               /\ RatioAt(t)' = RatioAt(t)
               /\ t - lastTimestamp <= MaxDuration =>
                      Distance(PositionAt(t)', 0) >= Distance(PositionAt(t), 0)]_vars
  BY <1>1
<1> QED  BY <1>2, Invariant, PTL DEF Spec, TouchingBendsNothing
=============================================================================
