-------------------------- MODULE MCRewardIssuance --------------------------
(* Schedules of up to three rates, one of them zero. *)
EXTENDS RewardIssuance

At(ts, rate) == [ts_start |-> ts, reward_per_time_unit |-> rate]

CurvesChecked ==
  { <<At(0, 2)>>,
    <<At(0, 1), At(2, 3)>>,
    <<At(0, 2), At(1, 0), At(3, 5)>>,
    <<At(0, 0), At(2, 1), At(3, 4)>> }

(* In the place of the powers of ten, scales that divide the rates unevenly. *)
Scales == [x \in 0 .. 2 |-> <<1, 3, 10>>[x + 1]]

ConfigsChecked ==
  [ reward_schedule_curve : CurvesChecked, min_claim_duration_seconds : {0},
    reward_type : RewardType, rewards_per_second_decimals : DOMAIN Scales ]
=============================================================================
