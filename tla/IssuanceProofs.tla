--------------------------- MODULE IssuanceProofs ---------------------------
(* What a farm with a steady stake issues of a reward, proved for every      *)
(* schedule, amount and clock.                                               *)
EXTENDS RewardIssuance, OperationsProofs

(* The largest element of a bounded set. *)
LEMMA MaxIsLargest ==
  ASSUME NEW n \in Nat, NEW S \in SUBSET (0 .. n), S # {}
  PROVE  Max(S) \in S /\ \A y \in S : y =< Max(S)
<1> DEFINE T == {n - x : x \in S}
<1>1. T \subseteq Nat /\ T # {}
  <2>1. \A x \in S : n - x \in Nat /\ n - x \in T
    OBVIOUS
  <2>2. PICK x \in S : TRUE
    OBVIOUS
  <2> QED BY <2>1, <2>2
<1>2. \E x \in T : \A y \in T : ~ (<<y, x>> \in OpToRel(<, Nat))
  <2> HIDE DEF T
  <2> QED BY <1>1, NatLessThanWellFounded, WFMin
<1>3. PICK x \in T : \A y \in T : ~ (y < x)
  <2> HIDE DEF T
  <2> QED BY <1>1, <1>2 DEF OpToRel
<1>4. PICK z \in S : x = n - z
  OBVIOUS
<1>5. ASSUME NEW y \in S PROVE z >= y
  <2>1. n - y \in T
    OBVIOUS
  <2>2. ~ (n - y < n - z)
    BY <1>3, <1>4, <2>1
  <2>3. y \in Int /\ z \in Int
    OBVIOUS
  <2> QED BY <2>2, <2>3
<1>6. Max(S) \in S /\ \A y \in S : Max(S) >= y
  BY <1>5 DEF Max
<1> QED BY <1>6

-----------------------------------------------------------------------------
(* Points of a schedule. *)

(* A point of a schedule has an instant and a rate, and there is a first one. *)
LEMMA CurvePoints ==
  ASSUME NEW curve \in Curves
  PROVE  /\ Len(curve) \in Nat \ {0} /\ DOMAIN curve = 1 .. Len(curve)
         /\ \A i \in 1 .. Len(curve) : /\ curve[i].ts_start \in Nat
                                       /\ curve[i].reward_per_time_unit \in Nat
         /\ \A i \in 1 .. Len(curve) - 1 : curve[i].ts_start < curve[i + 1].ts_start
<1>1. curve \in Seq(Point) /\ ValidCurve(curve)
  BY DEF Curves
<1>2. Len(curve) \in Nat \ {0} /\ DOMAIN curve = 1 .. Len(curve)
  <2>1. Len(curve) \in 1 .. REWARD_CURVE_POINTS
    BY <1>1 DEF ValidCurve
  <2>2. REWARD_CURVE_POINTS \in Nat
    BY DEF REWARD_CURVE_POINTS
  <2>3. DOMAIN curve = 1 .. Len(curve)
    BY <1>1
  <2> HIDE DEF REWARD_CURVE_POINTS
  <2> QED BY <2>1, <2>2, <2>3
<1>3. \A i \in 1 .. Len(curve) : curve[i] \in Point
  BY <1>1
<1> QED BY <1>1, <1>2, <1>3 DEF ValidCurve, Point

(* Later points start later. *)
LEMMA CurveSorted ==
  ASSUME NEW curve \in Curves, NEW i \in 1 .. Len(curve), NEW j \in 1 .. Len(curve), i < j
  PROVE  curve[i].ts_start < curve[j].ts_start
<1> DEFINE T == {k \in Nat : /\ k \in i + 1 .. Len(curve)
                             /\ ~ (curve[i].ts_start < curve[k].ts_start)}
<1>1. SUFFICES ASSUME T # {} PROVE FALSE
  <2>1. j \in Nat /\ j \in i + 1 .. Len(curve)
    BY CurvePoints
  <2> QED BY <1>1, <2>1
<1>2. T \subseteq Nat
  OBVIOUS
<1>3. PICK x \in T : \A y \in T : ~ (<<y, x>> \in OpToRel(<, Nat))
  <2> HIDE DEF T
  <2> QED BY <1>1, <1>2, NatLessThanWellFounded, WFMin
<1>4. \A y \in T : ~ (y < x)
  <2> HIDE DEF T
  <2> QED BY <1>2, <1>3 DEF OpToRel
<1>5. x - 1 \notin T
  BY <1>4
<1>6. /\ Len(curve) \in Nat /\ x \in i + 1 .. Len(curve) /\ x - 1 \in 1 .. Len(curve) - 1
      /\ ~ (curve[i].ts_start < curve[x].ts_start)
  BY CurvePoints
<1>7. curve[x - 1].ts_start < curve[x].ts_start
  <2>1. curve[x - 1].ts_start < curve[x - 1 + 1].ts_start
    BY <1>6, CurvePoints
  <2>2. x - 1 + 1 = x
    BY <1>6
  <2> QED BY <2>1, <2>2
<1>8. curve[i].ts_start \in Nat /\ curve[x].ts_start \in Nat /\ curve[x - 1].ts_start \in Nat
  BY <1>6, CurvePoints
<1>9. x - 1 = i \/ curve[i].ts_start < curve[x - 1].ts_start
  BY <1>5, <1>6
<1> QED BY <1>6, <1>7, <1>8, <1>9

(* The point in force at an instant is the last that has started. *)
LEMMA StartingPointIsLast ==
  ASSUME NEW curve \in Curves, NEW ts \in Nat, StartedBy(curve, ts)
  PROVE  /\ StartingPoint(curve, ts) \in 1 .. Len(curve)
         /\ curve[StartingPoint(curve, ts)].ts_start =< ts
         /\ \A i \in 1 .. Len(curve) : curve[i].ts_start =< ts <=> i =< StartingPoint(curve, ts)
         /\ CurrentRps(curve, ts) \in Nat
<1> DEFINE S == {i \in DOMAIN curve : curve[i].ts_start =< ts}
           k == StartingPoint(curve, ts)
<1>1. Len(curve) \in Nat /\ DOMAIN curve = 1 .. Len(curve) /\ 1 \in 1 .. Len(curve)
  BY CurvePoints
<1>2. S \in SUBSET (0 .. Len(curve)) /\ S # {}
  <2>1. 1 \in S
    BY <1>1 DEF StartedBy
  <2> QED BY <1>1, <2>1
<1>3. k = Max(S)
  BY DEF StartingPoint
<1>4. Max(S) \in S /\ \A y \in S : y =< Max(S)
  <2> HIDE DEF S
  <2> QED BY <1>1, <1>2, MaxIsLargest
<1>5. k \in 1 .. Len(curve) /\ curve[k].ts_start =< ts
  BY <1>1, <1>3, <1>4
<1>6. ASSUME NEW i \in 1 .. Len(curve) PROVE curve[i].ts_start =< ts <=> i =< k
  <2>1. curve[i].ts_start =< ts => i =< k
    BY <1>1, <1>3, <1>4
  <2>2. ASSUME i < k PROVE curve[i].ts_start < curve[k].ts_start
    BY <1>5, <2>2, CurveSorted
  <2>3. curve[i].ts_start \in Nat /\ curve[k].ts_start \in Nat
    BY <1>5, CurvePoints
  <2> HIDE DEF k
  <2>4. ASSUME i =< k PROVE curve[i].ts_start =< ts
    <3>1. CASE i = k BY <1>5, <3>1
    <3>2. CASE i < k BY <1>5, <2>2, <2>3, <3>2
    <3> QED BY <1>1, <1>5, <2>4, <3>1, <3>2
  <2> QED BY <2>1, <2>4
<1>7. CurrentRps(curve, ts) \in Nat
  BY <1>5, CurvePoints DEF CurrentRps
<1> QED BY <1>5, <1>6, <1>7

-----------------------------------------------------------------------------
(* What a schedule pays up to an instant, and between two. *)

PaidUpTo(curve, ts) == SumFunction([t \in 0 .. ts - 1 |-> CurrentRps(curve, t)])

Periods(curve, last, later) ==
  {i \in StartingPoint(curve, last) .. Len(curve) : curve[i].ts_start < later}

(* A schedule that has started stays so. *)
LEMMA StaysStarted ==
  ASSUME NEW curve \in Curves, NEW last \in Nat, NEW later \in Nat, last =< later,
         StartedBy(curve, last)
  PROVE  StartedBy(curve, later)
<1>1. 1 \in 1 .. Len(curve) /\ curve[1].ts_start \in Nat
  BY CurvePoints
<1> QED BY <1>1 DEF StartedBy

(* Nothing is paid before the clock starts. *)
LEMMA NothingPaidAtStart ==
  ASSUME NEW curve
  PROVE  PaidUpTo(curve, 0) = 0
<1>1. DOMAIN [t \in 0 .. 0 - 1 |-> CurrentRps(curve, t)] = {}
  OBVIOUS
<1> QED BY <1>1, SumOfNothing DEF PaidUpTo, SumFunction

(* One more instant pays its rate. *)
LEMMA PaidUpToNext ==
  ASSUME NEW curve \in Curves, NEW ts \in Nat, StartedBy(curve, 0)
  PROVE  /\ PaidUpTo(curve, ts) \in Nat
         /\ PaidUpTo(curve, ts + 1) = PaidUpTo(curve, ts) + CurrentRps(curve, ts)
<1> DEFINE f == [t \in 0 .. ts - 1 |-> CurrentRps(curve, t)]
           g == [t \in 0 .. ts + 1 - 1 |-> CurrentRps(curve, t)]
<1>1. \A t \in Nat : CurrentRps(curve, t) \in Nat
  <2> TAKE t \in Nat
  <2>1. 0 \in Nat /\ 0 =< t
    OBVIOUS
  <2>2. StartedBy(curve, t)
    BY <2>1, StaysStarted
  <2> QED BY <2>2, StartingPointIsLast
<1>3. /\ PaidUpTo(curve, ts) = SumFunctionOnSet(f, 0 .. ts - 1)
      /\ PaidUpTo(curve, ts + 1) = SumFunctionOnSet(g, 0 .. ts)
  <2>1. DOMAIN f = 0 .. ts - 1 /\ DOMAIN g = 0 .. ts
    OBVIOUS
  <2> QED BY <2>1 DEF PaidUpTo, SumFunction
<1>4. \A x \in 0 .. ts - 1 : f[x] \in Nat /\ f[x] = g[x]
  BY <1>1
<1>5. \A x \in 0 .. ts : g[x] \in Int
  BY <1>1
<1>6. g[ts] = CurrentRps(curve, ts)
  OBVIOUS
<1>7. IsFiniteSet(0 .. ts) /\ IsFiniteSet(0 .. ts - 1) /\ (0 .. ts) \ {ts} = 0 .. ts - 1
  <2>1. 0 \in Int /\ ts \in Int /\ ts - 1 \in Int
    OBVIOUS
  <2>2. IsFiniteSet(0 .. ts) /\ IsFiniteSet(0 .. ts - 1)
    BY <2>1, FS_Interval
  <2>3. (0 .. ts) \ {ts} = 0 .. ts - 1
    OBVIOUS
  <2> QED BY <2>2, <2>3
<1> HIDE DEF f, g
<1>8. SumFunctionOnSet(g, 0 .. ts) = g[ts] + SumFunctionOnSet(g, (0 .. ts) \ {ts})
  <2>1. ts \in 0 .. ts
    OBVIOUS
  <2> QED BY <1>5, <1>7, <2>1, SumTakeOut
<1>9. SumFunctionOnSet(f, 0 .. ts - 1) = SumFunctionOnSet(g, 0 .. ts - 1)
  BY <1>4, <1>7, SumSame
<1>10. SumFunctionOnSet(f, 0 .. ts - 1) \in Nat
  BY <1>4, <1>7, SumNat
<1>11. CurrentRps(curve, ts) \in Nat
  BY <1>1
<1>12. SumFunctionOnSet(g, 0 .. ts) = CurrentRps(curve, ts) + SumFunctionOnSet(f, 0 .. ts - 1)
  BY <1>6, <1>7, <1>8, <1>9
<1>13. PaidUpTo(curve, ts) \in Nat
  BY <1>3, <1>10
<1>14. PaidUpTo(curve, ts + 1) = CurrentRps(curve, ts) + PaidUpTo(curve, ts)
  BY <1>3, <1>12
<1> QED BY <1>11, <1>13, <1>14

(* The periods of a schedule up to the instant after later: those of before  *)
(* end where they did, and the one in force gains an instant.                *)
LEMMA PeriodsOfNext ==
  ASSUME NEW curve \in Curves, NEW last \in Nat, NEW later \in Nat, last =< later,
         StartedBy(curve, last)
  PROVE  LET k == StartingPoint(curve, later)
             first == StartingPoint(curve, last)
         IN  /\ k \in first .. Len(curve) /\ first \in 1 .. Len(curve)
             /\ Periods(curve, last, later + 1) = first .. k
             /\ Periods(curve, last, later) \ {k} = (first .. k) \ {k}
             /\ \A i \in (first .. k) \ {k} :
                  PeriodEnd(curve, i, later) = PeriodEnd(curve, i, later + 1)
             /\ PeriodEnd(curve, k, later) = later /\ PeriodEnd(curve, k, later + 1) = later + 1
             /\ k \notin Periods(curve, last, later) => curve[k].ts_start = later
             /\ curve[k].ts_start =< later
<1> DEFINE k == StartingPoint(curve, later)
           first == StartingPoint(curve, last)
           n == Len(curve)
<1>1. n \in Nat \ {0} /\ \A i \in 1 .. n : curve[i].ts_start \in Nat
  BY CurvePoints
<1>2. /\ k \in 1 .. n /\ curve[k].ts_start =< later
      /\ \A i \in 1 .. n : curve[i].ts_start =< later <=> i =< k
  BY StaysStarted, StartingPointIsLast
<1>3. /\ first \in 1 .. n /\ curve[first].ts_start =< last
      /\ \A i \in 1 .. n : curve[i].ts_start =< last <=> i =< first
  BY StartingPointIsLast
<1>4. \A i \in 1 .. n : \A j \in 1 .. n : i < j => curve[i].ts_start < curve[j].ts_start
  BY CurveSorted
<1>5. /\ Periods(curve, last, later + 1) = {i \in first .. n : curve[i].ts_start < later + 1}
      /\ Periods(curve, last, later) = {i \in first .. n : curve[i].ts_start < later}
  BY DEF Periods
<1>6. \A i : \A ts : PeriodEnd(curve, i, ts) =
          IF i < n /\ curve[i + 1].ts_start < ts THEN curve[i + 1].ts_start ELSE ts
  BY DEF PeriodEnd
<1> HIDE DEF k, first, n
<1>7. first =< k
  <2>1. curve[first].ts_start =< later
    BY <1>1, <1>3
  <2> QED BY <1>2, <1>3, <2>1
<1>8. Periods(curve, last, later + 1) = first .. k
  <2>1. \A i \in first .. n : i \in 1 .. n
    BY <1>1, <1>3
  <2>2. \A i \in first .. n : curve[i].ts_start < later + 1 <=> curve[i].ts_start =< later
    BY <1>1, <2>1
  <2>3. \A i \in first .. n : curve[i].ts_start < later + 1 <=> i =< k
    BY <1>2, <2>1, <2>2
  <2>4. ASSUME NEW i \in first .. k PROVE i \in first .. n /\ i =< k
    BY <1>1, <1>2, <1>3
  <2>5. ASSUME NEW i \in first .. n, i =< k PROVE i \in first .. k
    BY <1>1, <1>2, <1>3, <2>5
  <2> QED BY <1>5, <2>3, <2>4, <2>5
<1>9. \A i \in (first .. k) \ {k} : i + 1 \in 1 .. n /\ i + 1 =< k /\ i \in 1 .. n /\ i < k
  BY <1>1, <1>2, <1>3
<1>10. \A i \in (first .. k) \ {k} : /\ curve[i].ts_start < curve[i + 1].ts_start
                                    /\ curve[i + 1].ts_start =< later
                                    /\ curve[i].ts_start \in Nat
                                    /\ curve[i + 1].ts_start \in Nat
  <2> TAKE i \in (first .. k) \ {k}
  <2>1. i < i + 1 /\ i \in 1 .. n /\ i + 1 \in 1 .. n /\ i + 1 =< k
    BY <1>9
  <2> QED BY <1>1, <1>2, <1>4, <2>1
<1>11. Periods(curve, last, later) \ {k} = (first .. k) \ {k}
  <2>1. ASSUME NEW i \in (first .. k) \ {k} PROVE i \in Periods(curve, last, later)
    <3>1. i \in first .. n
      BY <1>1, <1>2, <1>3
    <3>2. curve[i].ts_start < later
      BY <1>10
    <3> QED BY <1>5, <3>1, <3>2
  <2>2. ASSUME NEW i \in Periods(curve, last, later) PROVE i \in first .. k
    <3>1. i \in first .. n /\ i \in 1 .. n /\ curve[i].ts_start < later
      BY <1>1, <1>3, <1>5
    <3>2. i =< k
      BY <1>1, <1>2, <3>1
    <3> QED BY <1>2, <1>3, <3>1, <3>2
  <2> QED BY <2>1, <2>2
<1>12. \A i \in (first .. k) \ {k} : PeriodEnd(curve, i, later) = PeriodEnd(curve, i, later + 1)
  <2> TAKE i \in (first .. k) \ {k}
  <2>1. /\ i < n /\ curve[i + 1].ts_start =< later /\ curve[i + 1].ts_start \in Nat
    BY <1>1, <1>9, <1>10
  <2>2. PeriodEnd(curve, i, later + 1) = curve[i + 1].ts_start
    BY <1>6, <2>1
  <2>3. PeriodEnd(curve, i, later) = curve[i + 1].ts_start
    BY <1>6, <2>1
  <2> QED BY <2>2, <2>3
<1>13. PeriodEnd(curve, k, later) = later /\ PeriodEnd(curve, k, later + 1) = later + 1
  <2>1. ASSUME k < n
        PROVE  ~ (curve[k + 1].ts_start < later + 1) /\ ~ (curve[k + 1].ts_start < later)
    <3>1. k + 1 \in 1 .. n /\ ~ (k + 1 =< k)
      BY <1>1, <1>2, <2>1
    <3>2. ~ (curve[k + 1].ts_start =< later) /\ curve[k + 1].ts_start \in Nat
      BY <1>1, <1>2, <3>1
    <3> QED BY <3>2
  <2> QED BY <1>6, <2>1
<1>14. k \notin Periods(curve, last, later) => curve[k].ts_start = later
  <2>1. k \in first .. n
    BY <1>1, <1>2, <1>3, <1>7
  <2> QED BY <1>1, <1>2, <1>5, <2>1
<1>15. k \in first .. n
  BY <1>1, <1>2, <1>3, <1>7
<1> QED BY <1>2, <1>3, <1>8, <1>11, <1>12, <1>13, <1>14, <1>15 DEF k, first, n

(* The later of two instants. *)
LEMMA MaxOfTwo ==
  ASSUME NEW a \in Nat, NEW b \in Nat
  PROVE  Max({a, b}) = IF a >= b THEN a ELSE b
<1>1. {a, b} \in SUBSET (0 .. a + b) /\ {a, b} # {} /\ a + b \in Nat
  OBVIOUS
<1>2. Max({a, b}) \in {a, b} /\ \A y \in {a, b} : y =< Max({a, b})
  BY <1>1, MaxIsLargest
<1>3. (Max({a, b}) = a \/ Max({a, b}) = b) /\ a =< Max({a, b}) /\ b =< Max({a, b})
  BY <1>2
<1> QED BY <1>3

(* The sum of the code, period by period, gains the rate with each instant. *)
LEMMA CumulativeNext ==
  ASSUME NEW curve \in Curves, NEW last \in Nat, NEW later \in Nat, last =< later,
         StartedBy(curve, last)
  PROVE  /\ CumulativeAmount(curve, last, later) \in Int
         /\ CumulativeAmount(curve, last, later + 1)
              = CumulativeAmount(curve, last, later) + CurrentRps(curve, later)
<1> DEFINE k == StartingPoint(curve, later)
           first == StartingPoint(curve, last)
           P == Periods(curve, last, later)
           D == first .. k
           f == [i \in P |-> PeriodAmount(curve, i, last, later)]
           g == [i \in D |-> PeriodAmount(curve, i, last, later + 1)]
           from == [i \in 1 .. Len(curve) |-> Max({curve[i].ts_start, last})]
<1>1. /\ k \in first .. Len(curve) /\ first \in 1 .. Len(curve)
      /\ Periods(curve, last, later + 1) = D
      /\ P \ {k} = D \ {k}
      /\ \A i \in D \ {k} : PeriodEnd(curve, i, later) = PeriodEnd(curve, i, later + 1)
      /\ PeriodEnd(curve, k, later) = later /\ PeriodEnd(curve, k, later + 1) = later + 1
      /\ k \notin P => curve[k].ts_start = later
      /\ curve[k].ts_start =< later
  BY PeriodsOfNext
<1>2. /\ Len(curve) \in Nat \ {0}
      /\ \A i \in 1 .. Len(curve) : /\ curve[i].ts_start \in Nat
                                    /\ curve[i].reward_per_time_unit \in Nat
  BY CurvePoints
<1>3. /\ CumulativeAmount(curve, last, later) = SumFunctionOnSet(f, P)
      /\ CumulativeAmount(curve, last, later + 1) = SumFunctionOnSet(g, D)
  <2>1. DOMAIN f = P /\ DOMAIN g = D
    OBVIOUS
  <2>2. CumulativeAmount(curve, last, later) = SumFunction(f)
    BY DEF CumulativeAmount, Periods
  <2>3. CumulativeAmount(curve, last, later + 1)
          = SumFunction([i \in Periods(curve, last, later + 1)
                           |-> PeriodAmount(curve, i, last, later + 1)])
    BY DEF CumulativeAmount, Periods
  <2>4. CumulativeAmount(curve, last, later + 1) = SumFunction(g)
    BY <1>1, <2>3
  <2> QED BY <2>1, <2>2, <2>4 DEF SumFunction
<1>4. /\ D \subseteq 1 .. Len(curve) /\ k \in D /\ IsFiniteSet(D)
      /\ P \subseteq 1 .. Len(curve) /\ IsFiniteSet(P) /\ IsFiniteSet(D \ {k})
  <2>1. IsFiniteSet(1 .. Len(curve))
    BY <1>2, FS_Interval
  <2>2. D \subseteq 1 .. Len(curve) /\ k \in D
    BY <1>1, <1>2
  <2>3. P \subseteq 1 .. Len(curve)
    BY <1>1, <1>2 DEF Periods
  <2> QED BY <2>1, <2>2, <2>3, FS_Subset
<1>5. \A i \in 1 .. Len(curve) : from[i] \in Nat /\ from[i] >= last
  <2> TAKE i \in 1 .. Len(curve)
  <2>1. curve[i].ts_start \in Nat
    BY <1>2
  <2> QED BY <2>1, MaxOfTwo
<1>6. \A i \in 1 .. Len(curve) : \A ts : PeriodAmount(curve, i, last, ts) =
          curve[i].reward_per_time_unit * (PeriodEnd(curve, i, ts) - from[i])
  BY DEF PeriodAmount
<1>7. \A i \in 1 .. Len(curve) : \A ts \in Nat : PeriodEnd(curve, i, ts) \in Nat
  <2> SUFFICES ASSUME NEW i \in 1 .. Len(curve), NEW ts \in Nat
               PROVE  PeriodEnd(curve, i, ts) \in Nat
    OBVIOUS
  <2>1. i < Len(curve) => i + 1 \in 1 .. Len(curve)
    BY <1>2
  <2> QED BY <1>2, <2>1 DEF PeriodEnd
<1>8. \A i \in P : f[i] = PeriodAmount(curve, i, last, later)
  OBVIOUS
<1>9. \A i \in D : g[i] = PeriodAmount(curve, i, last, later + 1)
  OBVIOUS
<1>10. from[k] =< later /\ (k \notin P => from[k] = later)
  <2>1. from[k] = IF curve[k].ts_start >= last THEN curve[k].ts_start ELSE last
    <3>1. curve[k].ts_start \in Nat /\ from[k] = Max({curve[k].ts_start, last})
      BY <1>2, <1>4
    <3> QED BY <3>1, MaxOfTwo
  <2>2. curve[k].ts_start \in Nat
    BY <1>2, <1>4
  <2> HIDE DEF from, k
  <2> QED BY <1>1, <2>1, <2>2
<1>11. CurrentRps(curve, later) = curve[k].reward_per_time_unit
  BY DEF CurrentRps
<1> HIDE DEF k, first, P, D, f, g, from
<1>12. \A i \in 1 .. Len(curve) : \A ts \in Nat : PeriodAmount(curve, i, last, ts) \in Int
  <2> SUFFICES ASSUME NEW i \in 1 .. Len(curve), NEW ts \in Nat
               PROVE  PeriodAmount(curve, i, last, ts) \in Int
    OBVIOUS
  <2>1. /\ curve[i].reward_per_time_unit \in Int /\ PeriodEnd(curve, i, ts) - from[i] \in Int
    <3>1. curve[i].reward_per_time_unit \in Nat
      BY <1>2
    <3>2. from[i] \in Nat /\ PeriodEnd(curve, i, ts) \in Nat
      BY <1>5, <1>7
    <3> QED BY <3>1, <3>2
  <2> QED BY <1>6, <2>1
<1>13. (\A i \in P : f[i] \in Int) /\ (\A i \in D : g[i] \in Int)
  <2>1. later \in Nat /\ later + 1 \in Nat
    OBVIOUS
  <2> QED BY <1>4, <1>8, <1>9, <1>12, <2>1
<1>14. SumFunctionOnSet(g, D) = g[k] + SumFunctionOnSet(g, D \ {k})
  BY <1>4, <1>13, SumTakeOut
<1>15. SumFunctionOnSet(g, D \ {k}) = SumFunctionOnSet(f, D \ {k})
  <2>1. ASSUME NEW i \in D \ {k} PROVE g[i] = f[i] /\ g[i] \in Int
    <3>1. i \in P /\ i \in D /\ i \in 1 .. Len(curve)
      BY <1>1, <1>4
    <3>2. PeriodAmount(curve, i, last, later) = PeriodAmount(curve, i, last, later + 1)
      BY <1>1, <1>6, <3>1
    <3> QED BY <1>8, <1>9, <1>13, <3>1, <3>2
  <2> QED BY <1>4, <2>1, SumSame
<1>16. SumFunctionOnSet(f, D \ {k}) \in Int /\ SumFunctionOnSet(f, P) \in Int
  <2>1. \A i \in D \ {k} : f[i] \in Int
    BY <1>1, <1>13
  <2> QED BY <1>4, <1>13, <2>1, SumInt
<1> DEFINE rate == curve[k].reward_per_time_unit
<1>17. rate \in Nat /\ from[k] \in Nat
  BY <1>2, <1>4, <1>5
<1>18. g[k] = rate * (later - from[k]) + rate /\ rate * (later - from[k]) \in Int
  <2>1. g[k] = rate * ((later + 1) - from[k])
    <3>1. k \in 1 .. Len(curve) /\ g[k] = PeriodAmount(curve, k, last, later + 1)
      BY <1>4, <1>9
    <3>2. PeriodAmount(curve, k, last, later + 1)
            = rate * (PeriodEnd(curve, k, later + 1) - from[k])
      BY <1>6, <3>1
    <3>3. PeriodEnd(curve, k, later + 1) = later + 1
      BY <1>1
    <3> QED BY <3>1, <3>2, <3>3
  <2> HIDE DEF rate
  <2> DEFINE d == later - from[k]
  <2>2. d \in Int /\ (later + 1) - from[k] = d + 1
    BY <1>17
  <2> HIDE DEF d
  <2>3. rate * (d + 1) = rate * d + rate /\ rate * d \in Int
    BY <1>17, <2>2
  <2> QED BY <2>1, <2>2, <2>3 DEF d
<1>19. SumFunctionOnSet(f, P) = rate * (later - from[k]) + SumFunctionOnSet(f, D \ {k})
  <2>1. CASE k \in P
    <3>1. f[k] = rate * (later - from[k])
      BY <1>1, <1>4, <1>6, <1>8, <2>1
    <3>2. SumFunctionOnSet(f, P) = f[k] + SumFunctionOnSet(f, P \ {k})
      BY <1>4, <1>13, <2>1, SumTakeOut
    <3> QED BY <1>1, <3>1, <3>2
  <2>2. CASE k \notin P
    <3>1. P = D \ {k}
      BY <1>1, <2>2
    <3>2. later - from[k] = 0
      BY <1>10, <1>17, <2>2
    <3> HIDE DEF rate
    <3>3. rate * (later - from[k]) = 0
      BY <1>17, <3>2
    <3> QED BY <1>16, <3>1, <3>3
  <2> QED BY <2>1, <2>2
<1> HIDE DEF rate
<1>20. SumFunctionOnSet(g, D) = SumFunctionOnSet(f, P) + rate
  <2> DEFINE x == rate * (later - from[k])
             y == SumFunctionOnSet(f, D \ {k})
  <2>1. SumFunctionOnSet(g, D) = x + rate + y /\ SumFunctionOnSet(f, P) = x + y
    BY <1>14, <1>15, <1>18, <1>19
  <2>2. x \in Int /\ y \in Int /\ rate \in Int
    BY <1>16, <1>17, <1>18
  <2> HIDE DEF x, y
  <2> QED BY <2>1, <2>2
<1> QED BY <1>3, <1>11, <1>16, <1>20 DEF rate

(* Nothing is due for no time. *)
LEMMA CumulativeNone ==
  ASSUME NEW curve \in Curves, NEW last \in Nat, StartedBy(curve, last)
  PROVE  CumulativeAmount(curve, last, last) = 0
<1> DEFINE k == StartingPoint(curve, last)
           P == Periods(curve, last, last)
           f == [i \in P |-> PeriodAmount(curve, i, last, last)]
<1>1. /\ k \in 1 .. Len(curve) /\ P \ {k} = (k .. k) \ {k}
      /\ PeriodEnd(curve, k, last) = last
      /\ curve[k].ts_start =< last
  BY PeriodsOfNext
<1>2. curve[k].ts_start \in Nat /\ curve[k].reward_per_time_unit \in Nat
  BY <1>1, CurvePoints
<1>3. PeriodAmount(curve, k, last, last) = curve[k].reward_per_time_unit * (last - last)
  <2>1. Max({curve[k].ts_start, last}) = last
    BY <1>1, <1>2, MaxOfTwo
  <2> QED BY <1>1, <2>1 DEF PeriodAmount
<1>4. PeriodAmount(curve, k, last, last) = 0
  <2>1. last - last = 0
    OBVIOUS
  <2> QED BY <1>2, <1>3, <2>1
<1>5. P \subseteq {k}
  <2>1. k .. k = {k}
    BY <1>1, CurvePoints
  <2> HIDE DEF P, k
  <2> QED BY <1>1, <2>1
<1>6. IsFiniteSet(P)
  <2>1. IsFiniteSet({k})
    BY FS_Singleton
  <2> QED BY <1>5, <2>1, FS_Subset
<1>7. \A i \in P : f[i] = 0
  BY <1>4, <1>5
<1>8. CumulativeAmount(curve, last, last) = SumFunctionOnSet(f, P)
  <2>1. DOMAIN f = P
    OBVIOUS
  <2>2. CumulativeAmount(curve, last, last) = SumFunction(f)
    BY DEF CumulativeAmount, Periods
  <2> QED BY <2>1, <2>2 DEF SumFunction
<1> HIDE DEF f, P
<1> QED BY <1>6, <1>7, <1>8, SumOfZeros

(* What the code adds up since the last issuance is what the schedule pays   *)
(* from that instant on, each instant at its own rate.                       *)
THEOREM CumulativeIsPaid ==
  ASSUME NEW curve \in Curves, NEW last \in Nat, NEW later \in Nat, last =< later,
         StartedBy(curve, 0)
  PROVE  PaidUpTo(curve, later) = PaidUpTo(curve, last) + CumulativeAmount(curve, last, later)
<1> DEFINE Wrong == {t \in Nat : /\ last =< t
                                 /\ PaidUpTo(curve, t)
                                      # PaidUpTo(curve, last) + CumulativeAmount(curve, last, t)}
<1>1. SUFFICES ASSUME Wrong # {} PROVE FALSE
  <2>1. ASSUME PaidUpTo(curve, later)
                 # PaidUpTo(curve, last) + CumulativeAmount(curve, last, later)
        PROVE  FALSE
    <3>1. later \in Wrong
      BY <2>1
    <3> QED BY <1>1, <3>1
  <2> QED BY <2>1
<1>2. Wrong \subseteq Nat
  OBVIOUS
<1>3. PICK t \in Wrong : \A y \in Wrong : ~ (<<y, t>> \in OpToRel(<, Nat))
  <2> HIDE DEF Wrong
  <2> QED BY <1>1, <1>2, NatLessThanWellFounded, WFMin
<1>4. \A y \in Wrong : ~ (y < t)
  <2> HIDE DEF Wrong
  <2> QED BY <1>2, <1>3 DEF OpToRel
<1>5. t \in Nat /\ last =< t
  OBVIOUS
<1>6. PaidUpTo(curve, t) # PaidUpTo(curve, last) + CumulativeAmount(curve, last, t)
  OBVIOUS
<1>7. StartedBy(curve, last)
  BY StaysStarted
<1>8. t # last
  <2>1. CumulativeAmount(curve, last, last) = 0 /\ PaidUpTo(curve, last) \in Nat
    BY <1>7, CumulativeNone, PaidUpToNext
  <2>2. PaidUpTo(curve, last) = PaidUpTo(curve, last) + CumulativeAmount(curve, last, last)
    BY <2>1
  <2> QED BY <1>6, <2>2
<1>9. t - 1 \in Nat /\ last =< t - 1 /\ t - 1 < t /\ t - 1 + 1 = t
  BY <1>5, <1>8
<1>10. PaidUpTo(curve, t - 1) = PaidUpTo(curve, last) + CumulativeAmount(curve, last, t - 1)
  BY <1>4, <1>9
<1> HIDE DEF Wrong
<1>11. /\ PaidUpTo(curve, t - 1 + 1) = PaidUpTo(curve, t - 1) + CurrentRps(curve, t - 1)
       /\ PaidUpTo(curve, last) \in Nat
  BY <1>9, PaidUpToNext
<1>12. /\ CumulativeAmount(curve, last, t - 1) \in Int
       /\ CumulativeAmount(curve, last, t - 1 + 1)
            = CumulativeAmount(curve, last, t - 1) + CurrentRps(curve, t - 1)
  BY <1>7, <1>9, CumulativeNext
<1>13. CurrentRps(curve, t - 1) \in Nat
  BY <1>9, StaysStarted, StartingPointIsLast
<1>14. /\ PaidUpTo(curve, t) = PaidUpTo(curve, t - 1) + CurrentRps(curve, t - 1)
       /\ CumulativeAmount(curve, last, t)
            = CumulativeAmount(curve, last, t - 1) + CurrentRps(curve, t - 1)
  BY <1>9, <1>11, <1>12
<1> QED BY <1>6, <1>10, <1>11, <1>12, <1>13, <1>14

-----------------------------------------------------------------------------
(* The accounts of the model have their types. *)

(* The zeroed reward, and the farm with the steady stake. *)
LEMMA SteadyTypes ==
  /\ NewReward \in RewardInfo
  /\ steadyFarm \in FarmAccount
  /\ steadyFarm.active.stake = STAKED * WAD /\ steadyFarm.active.amount = STAKED
  /\ steadyFarm.active.stake \in Nat \ {0}
  /\ ~HasOracle(steadyFarm.config)
<1>1. DefaultCurve \in Curves
  <2> DEFINE p == [ts_start |-> 0, reward_per_time_unit |-> 0]
  <2>1. DefaultCurve = <<p>> /\ p \in Point
    BY DEF DefaultCurve, ConstantCurve, Point
  <2> HIDE DEF p
  <2>2. <<p>> \in Seq(Point) /\ Len(<<p>>) = 1
    BY <2>1
  <2>3. ValidCurve(<<p>>)
    BY <2>2 DEF ValidCurve, REWARD_CURVE_POINTS
  <2> QED BY <2>1, <2>2, <2>3 DEF Curves
<1>2. NewReward \in RewardInfo
  BY <1>1 DEF NewReward, DefaultRewardConfig, RewardInfo, RewardConfig, RewardType
<1>3. DefaultConfig \in FarmConfig
  BY DEF DefaultConfig, FarmConfig, LockingMode, OraclePriceId
<1>4. MAX_REWARDS_TOKENS \in Nat /\ STAKED \in Nat \ {0} /\ WAD \in Nat \ {0}
  BY FarmStateAssumption, IssuanceAssumption, MathAssumption
<1>5. STAKED * WAD \in Nat \ {0}
  BY <1>4
<1> DEFINE pool == [stake |-> STAKED * WAD, amount |-> STAKED]
           rewards == [i \in RewardIndex |-> NewReward]
<1>6. steadyFarm = [ config |-> DefaultConfig, active |-> pool, pending |-> EmptyPool,
                     slashed |-> 0, slashed_amount_cumulative |-> 0,
                     frozen |-> FALSE, num_reward_tokens |-> 0, rewards |-> rewards ]
  <2>1. steadyFarm = [NewFarm EXCEPT !.active = pool]
    BY DEF steadyFarm
  <2>2. NewFarm = [ config |-> DefaultConfig, active |-> EmptyPool, pending |-> EmptyPool,
                    slashed |-> 0, slashed_amount_cumulative |-> 0,
                    frozen |-> FALSE, num_reward_tokens |-> 0, rewards |-> rewards ]
    BY DEF NewFarm
  <2> HIDE DEF pool, rewards
  <2> QED BY <2>1, <2>2
<1>7. steadyFarm \in FarmAccount
  <2>1. pool \in Pool /\ EmptyPool \in Pool
    BY <1>4, <1>5 DEF Pool, EmptyPool
  <2>2. rewards \in [RewardIndex -> RewardInfo]
    BY <1>2
  <2> HIDE DEF pool, rewards
  <2>3. 0 \in 0 .. MAX_REWARDS_TOKENS /\ 0 \in Nat /\ FALSE \in BOOLEAN
    BY <1>4
  <2> QED BY <1>3, <1>6, <2>1, <2>2, <2>3 DEF FarmAccount
<1>8. ~HasOracle(steadyFarm.config)
  BY <1>6 DEF DefaultConfig, HasOracle
<1>9. steadyFarm.active.stake = STAKED * WAD /\ steadyFarm.active.amount = STAKED
  BY <1>6
<1> QED BY <1>2, <1>5, <1>7, <1>8, <1>9

(* The environment of a refresh. *)
LEMMA UnpricedTypes ==
  ASSUME now \in Nat
  PROVE  unpriced \in Environment /\ unpriced.ts = now
BY DEF unpriced, Environment, Price

(* The fields of the reward. *)
LEMMA RewardInfoFields ==
  ASSUME NEW r \in RewardInfo
  PROVE  /\ r.config \in RewardConfig
         /\ r.config.reward_schedule_curve \in Curves
         /\ r.rewards_available \in Nat /\ r.last_issuance_ts \in Nat
         /\ r.rewards_issued_unclaimed \in Nat /\ r.reward_per_share_scaled \in Nat
BY DEF RewardInfo, RewardConfig

(* Decimals, of any reward. *)
DecimalsOf(r) == TenPow(r.config.rewards_per_second_decimals)

(* They are positive. *)
LEMMA DecimalsPositive ==
  ASSUME NEW r
  PROVE  DecimalsOf(r) \in Nat \ {0}
BY TenPowPositive DEF DecimalsOf

(* Per instant, the reward is for each token or for all of them together. *)
Share(r) == IF r.config.reward_type = "Constant" THEN STAKED ELSE 1

(* Owed and IssuedSoFar, of any reward. *)
OwedBy(r, ts) ==
  IF r.config.reward_type = "Constant" THEN PaidUpTo(r.config.reward_schedule_curve, ts) * STAKED
  ELSE PaidUpTo(r.config.reward_schedule_curve, ts)

IssuedBy(r) == DecimalsOf(r) * r.rewards_issued_unclaimed

(* What the schedule owes, in terms of what it pays up to an instant. *)
LEMMA OwedIsPaid ==
  ASSUME NEW r, NEW ts \in Nat, PaidUpTo(r.config.reward_schedule_curve, ts) \in Nat
  PROVE  OwedBy(r, ts) = PaidUpTo(r.config.reward_schedule_curve, ts) * Share(r)
<1> DEFINE p == PaidUpTo(r.config.reward_schedule_curve, ts)
<1>1. OwedBy(r, ts) = IF r.config.reward_type = "Constant" THEN p * STAKED ELSE p
  BY DEF OwedBy
<1>2. p = p * 1
  <2>1. p \in Nat
    OBVIOUS
  <2> HIDE DEF p
  <2> QED BY <2>1
<1> HIDE DEF p
<1> QED BY <1>1, <1>2 DEF Share, p

(* What a refresh finds scheduled is what became owed since the last issue. *)
LEMMA ScheduledIsOwed ==
  ASSUME NEW r \in RewardInfo, now \in Nat, r.last_issuance_ts =< now,
         StartedBy(r.config.reward_schedule_curve, 0)
  PROVE  /\ OwedBy(r, now) = OwedBy(r, r.last_issuance_ts) + Scheduled(steadyFarm, r, unpriced)
         /\ OwedBy(r, r.last_issuance_ts) \in Nat
         /\ Scheduled(steadyFarm, r, unpriced) \in Int
<1> DEFINE curve == r.config.reward_schedule_curve
           last == r.last_issuance_ts
           c == CumulativeAmount(curve, last, now)
<1>1. curve \in Curves /\ last \in Nat
  BY RewardInfoFields
<1>2. PaidUpTo(curve, now) \in Nat /\ PaidUpTo(curve, last) \in Nat
  BY <1>1, PaidUpToNext
<1>3. PaidUpTo(curve, now) = PaidUpTo(curve, last) + c
  BY <1>1, CumulativeIsPaid
<1>4. c \in Int
  BY <1>1, StaysStarted, CumulativeNext
<1>5. Scheduled(steadyFarm, r, unpriced) = c * Share(r)
  <2>1. Scheduled(steadyFarm, r, unpriced)
          = IF r.config.reward_type = "Constant" THEN c * STAKED ELSE c
    BY SteadyTypes, UnpricedTypes DEF Scheduled
  <2>2. c = c * 1
    <3> HIDE DEF c
    <3> QED BY <1>4
  <2> HIDE DEF c
  <2> QED BY <2>1, <2>2 DEF Share
<1>6. Share(r) \in Nat
  BY IssuanceAssumption DEF Share
<1>7. /\ OwedBy(r, now) = PaidUpTo(curve, now) * Share(r)
      /\ OwedBy(r, last) = PaidUpTo(curve, last) * Share(r)
  BY <1>1, <1>2, OwedIsPaid
<1> DEFINE x == PaidUpTo(curve, last)
           y == PaidUpTo(curve, now)
           h == Share(r)
<1>8. y * h = x * h + c * h /\ x * h \in Nat /\ c * h \in Int
  <2>1. y = x + c /\ x \in Nat /\ y \in Nat /\ c \in Int /\ h \in Nat
    BY <1>2, <1>3, <1>4, <1>6
  <2> HIDE DEF x, y, c, h
  <2> QED BY <2>1
<1> QED BY <1>5, <1>7, <1>8

-----------------------------------------------------------------------------
(* A refresh: it leaves the reward alone, or it issues. *)

(* An issue pays for the time since the last one: never more than is owed    *)
(* for it, and less by under one token unless the funds fall short.          *)
LEMMA IssueBounds ==
  ASSUME NEW r \in RewardInfo, now \in Nat, r.last_issuance_ts =< now,
         r.last_issuance_ts # 0 => StartedBy(r.config.reward_schedule_curve, 0),
         RefreshGlobalRewardOk(steadyFarm, r, unpriced),
         now # r.last_issuance_ts, IssuableAmount(steadyFarm, r, unpriced) # 0
  PROVE  LET q == RefreshGlobalReward(steadyFarm, r, unpriced)
         IN  /\ q.config = r.config /\ q.last_issuance_ts = now
             /\ StartedBy(r.config.reward_schedule_curve, 0)
             /\ OwedBy(r, r.last_issuance_ts) \in Int /\ OwedBy(q, now) \in Int
             /\ IssuedBy(q) - IssuedBy(r) =< OwedBy(q, now) - OwedBy(r, r.last_issuance_ts)
             /\ IssuableAmount(steadyFarm, r, unpriced) =< r.rewards_available =>
                  /\ q.rewards_issued_unclaimed > r.rewards_issued_unclaimed
                  /\ OwedBy(q, now) - OwedBy(r, r.last_issuance_ts)
                       - (IssuedBy(q) - IssuedBy(r)) =< DecimalsOf(r) - 1
<1> DEFINE q == RefreshGlobalReward(steadyFarm, r, unpriced)
           a == IssuedAmount(steadyFarm, r, unpriced)
           b == IssuableAmount(steadyFarm, r, unpriced)
           c == Scheduled(steadyFarm, r, unpriced)
           scale == DecimalsOf(r)
           curve == r.config.reward_schedule_curve
<1>1. /\ steadyFarm \in FarmAccount /\ steadyFarm.active.stake \in Nat \ {0}
      /\ ~HasOracle(steadyFarm.config)
      /\ unpriced \in Environment /\ unpriced.ts = now
  BY SteadyTypes, UnpricedTypes
<1>2. curve \in Curves /\ scale \in Nat \ {0} /\ r.rewards_issued_unclaimed \in Nat
      /\ r.rewards_available \in Nat /\ r.last_issuance_ts \in Nat
  BY RewardInfoFields, DecimalsPositive
<1>3. StartedBy(curve, 0)
  <2>1. StartedBy(curve, r.last_issuance_ts)
    BY <1>1 DEF RefreshGlobalRewardOk
  <2> QED BY <2>1
<1>4. a \in 0 .. r.rewards_available
  BY <1>1, IssuedAmountBound
<1>5. /\ OwedBy(r, now) = OwedBy(r, r.last_issuance_ts) + c
      /\ OwedBy(r, r.last_issuance_ts) \in Nat /\ c \in Int
  BY <1>3, ScheduledIsOwed
<1>6. b = c \div scale
  BY <1>1 DEF IssuableAmount, AtOraclePrice, DecimalsOf
<1>7. a = Least(b, r.rewards_available)
  BY DEF IssuedAmount
<1>8. q = [ r EXCEPT !.last_issuance_ts = now,
                     !.rewards_issued_unclaimed = @ + a,
                     !.rewards_issued_cumulative = @ + a,
                     !.rewards_available = @ - a,
                     !.reward_per_share_scaled = @ + PerShare(steadyFarm, a) ]
  BY <1>1 DEF RefreshGlobalReward
<1>9. /\ q.config = r.config /\ q.last_issuance_ts = now
      /\ q.rewards_issued_unclaimed = r.rewards_issued_unclaimed + a
  <2> HIDE DEF q, a
  <2> QED BY <1>8 DEF RewardInfo
<1>10. OwedBy(q, now) = OwedBy(r, now)
  <2> HIDE DEF q
  <2> QED BY <1>9 DEF OwedBy
<1>11. b # 0
  OBVIOUS
<1> HIDE DEF q, a, b, c, scale, curve
<1>12. b \in Int /\ scale * b =< c /\ c - scale * b =< scale - 1 /\ scale * b \in Int
  <2>1. b \in Int
    BY <1>2, <1>5, <1>6
  <2>2. scale * b =< c /\ c - scale * b =< scale - 1
    BY <1>2, <1>5, <1>6
  <2> QED BY <1>2, <2>1, <2>2
<1>13. a \in Nat /\ a =< b /\ (b =< r.rewards_available => a = b)
  BY <1>2, <1>4, <1>7, <1>12 DEF Least
<1>14. scale * a =< scale * b /\ scale * a \in Nat
  BY <1>2, <1>12, <1>13
<1>15. IssuedBy(q) - IssuedBy(r) = scale * a
  <2> DEFINE u == r.rewards_issued_unclaimed
  <2>1. IssuedBy(q) = scale * (u + a) /\ IssuedBy(r) = scale * u
    BY <1>9 DEF IssuedBy, DecimalsOf, scale
  <2> HIDE DEF u
  <2>2. scale * (u + a) = scale * u + scale * a /\ scale * u \in Nat
    BY <1>2, <1>13 DEF u
  <2> QED BY <1>14, <2>1, <2>2
<1>16. OwedBy(q, now) - OwedBy(r, r.last_issuance_ts) = c /\ OwedBy(q, now) \in Int
  BY <1>5, <1>10
<1>17. IssuedBy(q) - IssuedBy(r) =< OwedBy(q, now) - OwedBy(r, r.last_issuance_ts)
  BY <1>5, <1>12, <1>14, <1>15, <1>16
<1>18. ASSUME b =< r.rewards_available
       PROVE  /\ q.rewards_issued_unclaimed > r.rewards_issued_unclaimed
              /\ OwedBy(q, now) - OwedBy(r, r.last_issuance_ts)
                   - (IssuedBy(q) - IssuedBy(r)) =< scale - 1
  <2>1. a = b
    BY <1>13, <1>18
  <2>2. a > 0
    BY <1>11, <1>13, <2>1
  <2>3. c - scale * a =< scale - 1
    BY <1>12, <2>1
  <2> QED BY <1>2, <1>9, <1>13, <1>15, <1>16, <2>2, <2>3
<1> QED BY <1>3, <1>5, <1>9, <1>16, <1>17, <1>18 DEF q, b, scale, curve

(* A refresh at the instant of the last, or too early for a whole token,     *)
(* leaves the reward as it is.                                               *)
LEMMA NothingToIssue ==
  ASSUME NEW r \in RewardInfo, now \in Nat,
         now = r.last_issuance_ts \/ IssuableAmount(steadyFarm, r, unpriced) = 0
  PROVE  RefreshGlobalReward(steadyFarm, r, unpriced) = r
<1>1. unpriced.ts = now /\ steadyFarm.active.stake # 0
  BY SteadyTypes, UnpricedTypes
<1>2. [r EXCEPT !.last_issuance_ts = r.last_issuance_ts] = r
  BY DEF RewardInfo
<1> QED BY <1>1, <1>2 DEF RefreshGlobalReward

(* What a refresh adds per share is covered by what it issues. *)
LEMMA RefreshKeepsCover ==
  ASSUME NEW r \in RewardInfo, now \in Nat, RefreshGlobalRewardOk(steadyFarm, r, unpriced),
         STAKED * r.reward_per_share_scaled =< r.rewards_issued_unclaimed * WAD
  PROVE  LET q == RefreshGlobalReward(steadyFarm, r, unpriced)
         IN  STAKED * q.reward_per_share_scaled =< q.rewards_issued_unclaimed * WAD
<1> DEFINE q == RefreshGlobalReward(steadyFarm, r, unpriced)
           a == IssuedAmount(steadyFarm, r, unpriced)
           U == r.rewards_issued_unclaimed
           V == q.rewards_issued_unclaimed
           x == r.reward_per_share_scaled
           y == q.reward_per_share_scaled
<1>1. CASE now = r.last_issuance_ts \/ IssuableAmount(steadyFarm, r, unpriced) = 0
  BY <1>1, NothingToIssue
<1>2. CASE ~(now = r.last_issuance_ts \/ IssuableAmount(steadyFarm, r, unpriced) = 0)
  <2>1. /\ steadyFarm \in FarmAccount /\ steadyFarm.active.stake \in Nat \ {0}
        /\ steadyFarm.active.stake = STAKED * WAD
        /\ unpriced \in Environment /\ unpriced.ts = now
    BY SteadyTypes, UnpricedTypes
  <2>2. a \in 0 .. r.rewards_available
    BY <1>2, <2>1, IssuedAmountBound
  <2>3. q = [ r EXCEPT !.last_issuance_ts = now,
                       !.rewards_issued_unclaimed = @ + a,
                       !.rewards_issued_cumulative = @ + a,
                       !.rewards_available = @ - a,
                       !.reward_per_share_scaled = @ + PerShare(steadyFarm, a) ]
    BY <1>2, <2>1 DEF RefreshGlobalReward
  <2>4. q.rewards_issued_unclaimed = r.rewards_issued_unclaimed + a
    <3> HIDE DEF q, a
    <3> QED BY <2>3 DEF RewardInfo
  <2>5. q \in RewardInfo
    BY <2>1, RefreshGlobalRewardIssues
  <2>6. U \in Nat /\ V \in Nat /\ x \in Nat /\ y \in Nat /\ U =< V
    <3>1. U \in Nat /\ x \in Nat
      BY RewardInfoFields
    <3>2. V \in Nat /\ y \in Nat
      <4> HIDE DEF q
      <4> QED BY <2>5, RewardInfoFields
    <3>3. a \in Nat
      BY <2>2, RewardInfoFields
    <3> HIDE DEF q, a
    <3> QED BY <2>4, <3>1, <3>2, <3>3
  <2>7. WAD * StakeScale * U - steadyFarm.active.stake * x
          =< WAD * StakeScale * V - steadyFarm.active.stake * y
    BY <2>1, RefreshGlobalRewardSlack
  <2>8. STAKED * x =< U * WAD
    OBVIOUS
  <2> DEFINE T == StakeScale
  <2>9. WAD \in Nat \ {0} /\ T \in Nat /\ T =< WAD /\ STAKED \in Nat
    BY MathAssumption, StakeScalePositive, IssuanceAssumption DEF StakeScale
  <2> HIDE DEF q, a, U, V, x, y, T
  <2>10. WAD * (STAKED * y - STAKED * x) =< WAD * (T * V - T * U)
    <3>1. WAD * T * U - STAKED * WAD * x =< WAD * T * V - STAKED * WAD * y
      BY <2>1, <2>7 DEF T
    <3>2. /\ WAD * T * U = WAD * (T * U) /\ WAD * T * V = WAD * (T * V)
          /\ STAKED * WAD * x = WAD * (STAKED * x) /\ STAKED * WAD * y = WAD * (STAKED * y)
      BY <2>6, <2>9
    <3> DEFINE A == T * U
               B == T * V
               C == STAKED * x
               D == STAKED * y
    <3>3. A \in Nat /\ B \in Nat /\ C \in Nat /\ D \in Nat
      BY <2>6, <2>9
    <3>4. WAD * A - WAD * C =< WAD * B - WAD * D
      BY <3>1, <3>2
    <3> HIDE DEF A, B, C, D
    <3>5. WAD * (D - C) =< WAD * (B - A)
      <4>1. /\ WAD * (D - C) = WAD * D - WAD * C /\ WAD * (B - A) = WAD * B - WAD * A
            /\ WAD * A \in Nat /\ WAD * B \in Nat /\ WAD * C \in Nat /\ WAD * D \in Nat
        BY <2>9, <3>3
      <4> QED BY <3>4, <4>1
    <3> QED BY <3>5 DEF A, B, C, D
  <2>11. STAKED * y - STAKED * x =< T * V - T * U
    <3> DEFINE d == STAKED * y - STAKED * x
               e == T * V - T * U
    <3>1. d \in Int /\ e \in Int
      BY <2>6, <2>9
    <3> HIDE DEF d, e
    <3>2. WAD * d =< WAD * e => d =< e
      BY <2>9, <3>1
    <3> QED BY <2>10, <3>2 DEF d, e
  <2>12. T * V - T * U =< V * WAD - U * WAD
    <3> DEFINE d == V - U
    <3>1. d \in Nat
      BY <2>6
    <3>2. T * V - T * U = T * d /\ V * WAD - U * WAD = WAD * d
      BY <2>6, <2>9
    <3> HIDE DEF d
    <3>3. T * d =< WAD * d
      BY <2>9, <3>1
    <3> QED BY <3>2, <3>3
  <2>13. STAKED * y =< V * WAD
    <3> DEFINE A == T * U
               B == T * V
               C == STAKED * x
               D == STAKED * y
               E == U * WAD
               F == V * WAD
    <3>1. A \in Nat /\ B \in Nat /\ C \in Nat /\ D \in Nat /\ E \in Nat /\ F \in Nat
      BY <2>6, <2>9
    <3>2. D - C =< B - A /\ B - A =< F - E /\ C =< E
      BY <2>8, <2>11, <2>12
    <3> HIDE DEF A, B, C, D, E, F
    <3>3. D =< F
      BY <3>1, <3>2
    <3> QED BY <3>3 DEF D, F
  <2> QED BY <2>13 DEF q, V, y
<1> QED BY <1>1, <1>2

-----------------------------------------------------------------------------
(* The invariant: besides what the theorems claim, issuance does not run     *)
(* ahead of the clock, and a schedule that has not started issues nothing.   *)
IssuanceInv ==
  /\ TypeOK
  /\ reward.last_issuance_ts =< now
  /\ reward.last_issuance_ts # 0 => StartedBy(reward.config.reward_schedule_curve, 0)
  /\ NeverIssuesTwice
  /\ NeverSkipsAnInstant
  /\ PerShareCovered

(* The same of a state given by its values. *)
Sound(t, r, n, d, k) ==
  /\ t \in 0 .. MAX_TIME /\ r \in RewardInfo
  /\ n \in Nat /\ d \in BOOLEAN /\ k \in 0 .. MAX_TOPUPS
  /\ r.last_issuance_ts =< t
  /\ r.last_issuance_ts # 0 => StartedBy(r.config.reward_schedule_curve, 0)
  /\ IssuedBy(r) =< OwedBy(r, r.last_issuance_ts)
  /\ ~d => OwedBy(r, r.last_issuance_ts) - IssuedBy(r) =< n * (DecimalsOf(r) - 1)
  /\ STAKED * r.reward_per_share_scaled =< r.rewards_issued_unclaimed * WAD

(* Both say the same. *)
LEMMA InvIsSound ==
  /\ IssuanceInv <=> Sound(now, reward, issues, dry, topups)
  /\ IssuanceInv' <=> Sound(now', reward', issues', dry', topups')
<1>1. \A ts : Owed(ts) = OwedBy(reward, ts)
  BY DEF Owed, OwedBy, PaidUpTo
<1>2. IssuedSoFar = IssuedBy(reward)
  BY DEF IssuedSoFar, IssuedBy, Decimals, DecimalsOf
<1>3. Owed(reward.last_issuance_ts)' = OwedBy(reward', reward'.last_issuance_ts)
  BY DEF Owed, OwedBy, PaidUpTo
<1>4. IssuedSoFar' = IssuedBy(reward')
  BY DEF IssuedSoFar, IssuedBy, Decimals, DecimalsOf
<1>5. IssuanceInv <=> Sound(now, reward, issues, dry, topups)
  BY <1>1, <1>2 DEF IssuanceInv, TypeOK, NeverIssuesTwice, NeverSkipsAnInstant, PerShareCovered,
                    Sound, Decimals, DecimalsOf
<1>6. IssuanceInv' <=> Sound(now', reward', issues', dry', topups')
  BY <1>3, <1>4 DEF IssuanceInv, TypeOK, NeverIssuesTwice, NeverSkipsAnInstant, PerShareCovered,
                    Sound, Decimals, DecimalsOf
<1> QED BY <1>5, <1>6

(* Nothing is issued and nothing owed at first. *)
LEMMA IssuanceInit == Init => IssuanceInv
<1> SUFFICES ASSUME Init PROVE Sound(now, reward, issues, dry, topups)
  BY InvIsSound
<1>1. now = 0 /\ issues = 0 /\ dry = FALSE /\ topups = 0
  BY DEF Init
<1>2. PICK config \in IssuanceConfigs :
        reward = [NewReward EXCEPT !.config = config, !.rewards_available = FUNDS]
  BY DEF Init
<1>3. /\ NewReward \in RewardInfo /\ NewReward.last_issuance_ts = 0
      /\ NewReward.rewards_issued_unclaimed = 0 /\ NewReward.reward_per_share_scaled = 0
  BY SteadyTypes DEF NewReward
<1>4. config \in RewardConfig /\ FUNDS \in Nat
  BY IssuanceAssumption
<1>5. /\ reward \in RewardInfo /\ reward.last_issuance_ts = 0
      /\ reward.rewards_issued_unclaimed = 0 /\ reward.reward_per_share_scaled = 0
  BY <1>2, <1>3, <1>4 DEF RewardInfo
<1>6. DecimalsOf(reward) \in Nat \ {0}
  BY DecimalsPositive
<1>7. OwedBy(reward, 0) = 0
  <2>1. PaidUpTo(reward.config.reward_schedule_curve, 0) = 0
    BY NothingPaidAtStart
  <2> QED BY <2>1, IssuanceAssumption DEF OwedBy
<1>8. IssuedBy(reward) = 0
  BY <1>5, <1>6 DEF IssuedBy
<1>9. 0 * (DecimalsOf(reward) - 1) = 0
  BY <1>6
<1>10. STAKED * 0 = 0 /\ 0 * WAD = 0
  BY IssuanceAssumption, MathAssumption
<1>11. 0 \in 0 .. MAX_TIME /\ 0 \in 0 .. MAX_TOPUPS
  BY IssuanceAssumption
<1>12. IssuedBy(reward) =< OwedBy(reward, reward.last_issuance_ts)
  BY <1>5, <1>7, <1>8
<1>13. OwedBy(reward, reward.last_issuance_ts) - IssuedBy(reward)
         =< issues * (DecimalsOf(reward) - 1)
  <2>1. issues * (DecimalsOf(reward) - 1) = 0
    BY <1>1, <1>9
  <2>2. OwedBy(reward, reward.last_issuance_ts) - IssuedBy(reward) = 0
    BY <1>5, <1>7, <1>8
  <2> QED BY <2>1, <2>2
<1>14. STAKED * reward.reward_per_share_scaled =< reward.rewards_issued_unclaimed * WAD
  <2>1. STAKED * reward.reward_per_share_scaled = 0 /\ reward.rewards_issued_unclaimed * WAD = 0
    BY <1>5, <1>10
  <2> QED BY <2>1
<1>15. reward.last_issuance_ts =< now /\ ~(reward.last_issuance_ts # 0)
  BY <1>1, <1>5
<1>16. now \in 0 .. MAX_TIME /\ issues \in Nat /\ dry \in BOOLEAN /\ topups \in 0 .. MAX_TOPUPS
  BY <1>1, <1>11
<1> QED BY <1>5, <1>12, <1>13, <1>14, <1>15, <1>16 DEF Sound

(* A refresh that issues. *)
LEMMA IssueKeepsSound ==
  ASSUME Sound(now, reward, issues, dry, topups), Refresh,
         now # reward.last_issuance_ts, IssuableAmount(steadyFarm, reward, unpriced) # 0
  PROVE  Sound(now', reward', issues', dry', topups')
<1> DEFINE q == RefreshGlobalReward(steadyFarm, reward, unpriced)
           b == IssuableAmount(steadyFarm, reward, unpriced)
           s == DecimalsOf(reward) - 1
           owed == OwedBy(reward, reward.last_issuance_ts)
           owes == OwedBy(q, now)
<1>1. /\ now \in 0 .. MAX_TIME /\ reward \in RewardInfo /\ issues \in Nat /\ dry \in BOOLEAN
      /\ topups \in 0 .. MAX_TOPUPS /\ reward.last_issuance_ts =< now
      /\ reward.last_issuance_ts # 0 => StartedBy(reward.config.reward_schedule_curve, 0)
      /\ IssuedBy(reward) =< owed
      /\ ~dry => owed - IssuedBy(reward) =< issues * s
      /\ STAKED * reward.reward_per_share_scaled =< reward.rewards_issued_unclaimed * WAD
  BY DEF Sound
<1>2. /\ RefreshGlobalRewardOk(steadyFarm, reward, unpriced)
      /\ reward' = q /\ now' = now /\ topups' = topups
      /\ issues' = IF q.rewards_issued_unclaimed > reward.rewards_issued_unclaimed
                   THEN issues + 1 ELSE issues
      /\ dry' = (dry \/ b > reward.rewards_available)
  BY DEF Refresh
<1>3. now \in Nat
  BY <1>1, IssuanceAssumption
<1>4. /\ q.config = reward.config /\ q.last_issuance_ts = now
      /\ StartedBy(reward.config.reward_schedule_curve, 0)
      /\ owed \in Int /\ owes \in Int
      /\ IssuedBy(q) - IssuedBy(reward) =< owes - owed
      /\ b =< reward.rewards_available =>
           /\ q.rewards_issued_unclaimed > reward.rewards_issued_unclaimed
           /\ owes - owed - (IssuedBy(q) - IssuedBy(reward)) =< s
  BY <1>1, <1>2, <1>3, IssueBounds
<1>5. q \in RewardInfo
  BY <1>1, <1>2, <1>3, SteadyTypes, UnpricedTypes, RefreshGlobalRewardIssues
<1>6. STAKED * q.reward_per_share_scaled =< q.rewards_issued_unclaimed * WAD
  BY <1>1, <1>2, <1>3, RefreshKeepsCover
<1>7. b \in Int /\ reward.rewards_available \in Int
  <2>1. b \in Nat
    <3>1. IsU64(b)
      BY <1>2, <1>3, SteadyTypes, UnpricedTypes DEF RefreshGlobalRewardOk
    <3> QED BY <3>1, MachineIntegersAreNat
  <2>2. reward.rewards_available \in Nat
    BY <1>1, RewardInfoFields
  <2> QED BY <2>1, <2>2
<1>8. s \in Int /\ IssuedBy(reward) \in Int /\ IssuedBy(q) \in Int
  <2>1. DecimalsOf(reward) \in Nat \ {0} /\ reward.rewards_issued_unclaimed \in Nat
    BY <1>1, RewardInfoFields, DecimalsPositive
  <2>2. DecimalsOf(q) \in Nat \ {0} /\ q.rewards_issued_unclaimed \in Nat
    <3> HIDE DEF q
    <3> QED BY <1>5, RewardInfoFields, DecimalsPositive
  <2> HIDE DEF q
  <2> QED BY <2>1, <2>2 DEF IssuedBy
<1>9. issues' \in Nat /\ dry' \in BOOLEAN
  BY <1>1, <1>2
<1> HIDE DEF q, b, s, owed, owes
<1>10. IssuedBy(q) =< owes
  BY <1>1, <1>4, <1>8
<1>11. ASSUME ~dry' PROVE owes - IssuedBy(q) =< issues' * s
  <2>1. ~dry /\ b =< reward.rewards_available
    <3>1. ~dry /\ ~(b > reward.rewards_available)
      BY <1>2, <1>11
    <3> QED BY <1>7, <3>1
  <2>2. issues' = issues + 1
    BY <1>2, <1>4, <2>1
  <2>3. owed - IssuedBy(reward) =< issues * s /\ owes - owed - (IssuedBy(q) - IssuedBy(reward)) =< s
    BY <1>1, <1>4, <2>1
  <2> DEFINE p == issues * s
  <2>4. (issues + 1) * s = p + s /\ p \in Int
    BY <1>1, <1>8
  <2> HIDE DEF p
  <2>5. owes - IssuedBy(q) =< p + s
    BY <1>4, <1>8, <2>3, <2>4 DEF p
  <2> QED BY <2>2, <2>4, <2>5
<1>12. /\ OwedBy(reward', reward'.last_issuance_ts) = owes
       /\ DecimalsOf(reward') - 1 = s
  BY <1>2, <1>4 DEF owes, s, DecimalsOf
<1>13. reward'.last_issuance_ts = now' /\ now' =< now'
  BY <1>2, <1>3, <1>4
<1> QED BY <1>1, <1>2, <1>4, <1>5, <1>6, <1>9, <1>10, <1>11, <1>12, <1>13 DEF Sound

(* Every step keeps the invariant. *)
LEMMA IssuanceStep == IssuanceInv /\ [Next]_vars => IssuanceInv'
<1> SUFFICES ASSUME Sound(now, reward, issues, dry, topups), [Next]_vars
             PROVE  Sound(now', reward', issues', dry', topups')
  BY InvIsSound
<1>1. /\ now \in 0 .. MAX_TIME /\ reward \in RewardInfo /\ issues \in Nat /\ dry \in BOOLEAN
      /\ topups \in 0 .. MAX_TOPUPS /\ reward.last_issuance_ts =< now
      /\ now \in Nat /\ MAX_TIME \in Nat /\ MAX_TOPUPS \in Nat /\ FUNDS \in Nat
      /\ reward.rewards_available \in Nat /\ reward.last_issuance_ts \in Nat
  BY IssuanceAssumption, RewardInfoFields DEF Sound
<1>2. CASE Refresh
  <2>1. CASE now = reward.last_issuance_ts \/ IssuableAmount(steadyFarm, reward, unpriced) = 0
    <3>1. reward' = reward
      BY <1>1, <1>2, <2>1, NothingToIssue DEF Refresh
    <3>2. now' = now /\ topups' = topups /\ issues' = issues
      <4>1. ~(reward'.rewards_issued_unclaimed > reward.rewards_issued_unclaimed)
        BY <1>1, <3>1, RewardInfoFields
      <4> QED BY <1>2, <4>1 DEF Refresh
    <3>3. dry' = dry
      BY <1>1, <1>2, <2>1 DEF Refresh
    <3> QED BY <3>1, <3>2, <3>3
  <2>2. CASE ~(now = reward.last_issuance_ts \/ IssuableAmount(steadyFarm, reward, unpriced) = 0)
    BY <1>2, <2>2, IssueKeepsSound
  <2> QED BY <2>1, <2>2
<1>3. CASE TopUp
  <2>1. /\ reward' = [reward EXCEPT !.rewards_available = @ + FUNDS]
        /\ topups' = topups + 1 /\ topups < MAX_TOPUPS
        /\ now' = now /\ issues' = issues /\ dry' = dry
    BY <1>3 DEF TopUp
  <2>2. /\ reward' \in RewardInfo
        /\ reward'.config = reward.config /\ reward'.last_issuance_ts = reward.last_issuance_ts
        /\ reward'.rewards_issued_unclaimed = reward.rewards_issued_unclaimed
        /\ reward'.reward_per_share_scaled = reward.reward_per_share_scaled
    BY <1>1, <2>1 DEF RewardInfo
  <2>3. topups' \in 0 .. MAX_TOPUPS
    BY <1>1, <2>1
  <2>4. /\ IssuedBy(reward') = IssuedBy(reward)
        /\ OwedBy(reward', reward'.last_issuance_ts) = OwedBy(reward, reward.last_issuance_ts)
    BY <2>2 DEF IssuedBy, OwedBy, DecimalsOf
  <2>5. DecimalsOf(reward') = DecimalsOf(reward)
    BY <2>2 DEF DecimalsOf
  <2> QED BY <2>1, <2>2, <2>3, <2>4, <2>5 DEF Sound
<1>4. CASE Tick
  <2>1. now' = now + 1 /\ now < MAX_TIME /\ UNCHANGED <<reward, issues, dry, topups>>
    BY <1>4 DEF Tick
  <2>2. now' \in 0 .. MAX_TIME /\ reward.last_issuance_ts =< now'
    BY <1>1, <2>1
  <2> QED BY <2>1, <2>2 DEF Sound
<1>5. CASE UNCHANGED vars
  BY <1>5 DEF vars, Sound
<1> QED BY <1>2, <1>3, <1>4, <1>5 DEF Next

(* The four invariants of the issuance, for every schedule, type of reward,  *)
(* scale, funds and clock: the variables have their types,                   *)
THEOREM IssuanceTypes == Spec => []TypeOK
<1>1. IssuanceInv => TypeOK
  BY DEF IssuanceInv
<1> QED BY <1>1, IssuanceInit, IssuanceStep, PTL DEF Spec

(* no instant of the schedule is paid twice,                                 *)
THEOREM NoInstantTwice == Spec => []NeverIssuesTwice
<1>1. IssuanceInv => NeverIssuesTwice
  BY DEF IssuanceInv
<1> QED BY <1>1, IssuanceInit, IssuanceStep, PTL DEF Spec

(* none is skipped while there are funds, but for less than a token an issue, *)
THEOREM NoInstantSkipped == Spec => []NeverSkipsAnInstant
<1>1. IssuanceInv => NeverSkipsAnInstant
  BY DEF IssuanceInv
<1> QED BY <1>1, IssuanceInit, IssuanceStep, PTL DEF Spec

(* and the claims on each share are covered by what was issued.              *)
THEOREM SharesAreCovered == Spec => []PerShareCovered
<1>1. IssuanceInv => PerShareCovered
  BY DEF IssuanceInv
<1> QED BY <1>1, IssuanceInit, IssuanceStep, PTL DEF Spec

=============================================================================
