--------------------------- MODULE RewardSchedule ---------------------------
(* The reward schedule of a reward token: a piecewise constant rate, given   *)
(* by the points at which it changes.  A curve is the sequence of the points *)
(* in use; the padding points at u64::MAX that fill the fixed-size array     *)
(* never start and are left out.                                             *)
EXTENDS Sequences, FiniteSetsExt

Point == [ts_start : Nat, reward_per_time_unit : Nat]

REWARD_CURVE_POINTS == 20

(* RewardScheduleCurve::validate: sorted, no instant twice. *)
ValidCurve(curve) ==
  /\ Len(curve) \in 1 .. REWARD_CURVE_POINTS
  /\ \A i \in 1 .. Len(curve) - 1 : curve[i].ts_start < curve[i + 1].ts_start

Curves == {curve \in Seq(Point) : ValidCurve(curve)}

ConstantCurve(rate) == << [ts_start |-> 0, reward_per_time_unit |-> rate] >>

DefaultCurve == ConstantCurve(0)

(* most_recent_curve_starting_point, which fails before the first point. *)
StartedBy(curve, ts) == curve[1].ts_start =< ts

StartingPoint(curve, ts) == Max({i \in DOMAIN curve : curve[i].ts_start =< ts})

CurrentRps(curve, ts) == curve[StartingPoint(curve, ts)].reward_per_time_unit

PeriodEnd(curve, i, now) ==
  IF i < Len(curve) /\ curve[i + 1].ts_start < now THEN curve[i + 1].ts_start ELSE now

(* Mutant: the first period counts from the point, not from the last issuance. *)
MutPeriodFromPoint(curve, i, last, now) ==
  curve[i].reward_per_time_unit * (PeriodEnd(curve, i, now) - curve[i].ts_start)

PeriodAmount(curve, i, last, now) ==
  LET from == Max({curve[i].ts_start, last})
  IN  curve[i].reward_per_time_unit * (PeriodEnd(curve, i, now) - from)

(* get_cumulative_amount_issued_since_last_ts *)
CumulativeAmount(curve, last, now) ==
  LET periods == {i \in StartingPoint(curve, last) .. Len(curve) : curve[i].ts_start < now}
  IN  SumFunction([i \in periods |-> PeriodAmount(curve, i, last, now)])
=============================================================================
