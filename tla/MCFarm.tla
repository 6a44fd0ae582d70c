------------------------------- MODULE MCFarm -------------------------------
(* Small farms for TLC. *)
EXTENDS FarmProperties, TLC

CONSTANTS u1, u2

Symmetry == Permutations(Users)

None == {}

(* The table of ten_pow ends at 1 in place of 19. *)
Powers == [x \in 0 .. 1 |-> 10 ^ x]

UnitPrice == [value |-> 1, exp |-> 0, unix_timestamp |-> 0]
NoFee == {0}

Configured(config) == [NewFarm EXCEPT !.config = config]

-----------------------------------------------------------------------------
(* Staking: warmup and cooldown, and authorities that add and remove tokens. *)
StakingConfig ==
  [DefaultConfig EXCEPT !.deposit_warmup_period = 1,
                        !.withdrawal_cooldown_period = 1,
                        !.withdraw_authority = TRUE]

StakingFarms == {Configured(StakingConfig)}
StakingAmounts == {1, U64_MAX}
StakingShares == {WAD + 1, U128_MAX}
OneToken == {1}
TwoTokens == {2}
FiveTokens == {5}
SomeShares == {5}
AllShares == {U128_MAX}

-----------------------------------------------------------------------------
(* Locking: early withdrawals pay a penalty; the mode changes under way, and *)
(* without lock and cooldown stake can change hands.                         *)
LockedConfig(mode) ==
  [DefaultConfig EXCEPT !.locking_mode = mode,
                        !.locking_duration = 2,
                        !.locking_early_withdrawal_penalty_bps = 5000,
                        !.slashed_amount_spill_address = TRUE]

LockingFarms == {Configured(LockedConfig(mode)) : mode \in {"Continuous", "WithExpiry"}}
AllFarms == StakingFarms \union LockingFarms
LockingConfigs == {LockedConfig("None")}

-----------------------------------------------------------------------------
(* Rewards: one reward token.  The run has integers so narrow that the       *)
(* counters of the rewards, and what shares have earned, reach their ends.   *)
Rate(rate) == [DefaultRewardConfig EXCEPT !.reward_schedule_curve = ConstantCurve(rate)]

AllTokens == {U64_MAX}

WithReward(f) ==
  [f EXCEPT !.num_reward_tokens = 1, !.rewards[0].config = Rate(3)]

RewardFarms == {WithReward(NewFarm)}

WarmupConfig == [DefaultConfig EXCEPT !.deposit_warmup_period = 1]

WarmupFarms == RewardFarms \union {WithReward(Configured(WarmupConfig))}

-----------------------------------------------------------------------------
(* Funding: a reward may be initialised under way; amounts follow an oracle  *)
(* whose price doubles and grows old; the decimals may leave the table.      *)
OracleConfig ==
  [DefaultConfig EXCEPT !.scope_prices = TRUE,
                        !.scope_oracle_price_id = "Listed",
                        !.scope_oracle_max_age = 1]

FundingFarms ==
  {Configured(OracleConfig), WithReward(Configured(OracleConfig)), WithReward(NewFarm)}
FundingConfigs ==
  {DefaultRewardConfig, Rate(1), [Rate(1) EXCEPT !.rewards_per_second_decimals = 20]}
DoublePrice == {[value |-> 20, exp |-> 1, unix_timestamp |-> 0]}
BothFees == {0, 5000}

-----------------------------------------------------------------------------
(* Configurations that change under a pending withdrawal, and a schedule     *)
(* whose first point lies in the future.                                     *)
CooldownFarms == {Configured([DefaultConfig EXCEPT !.withdrawal_cooldown_period = 2])}
NoCooldown == {DefaultConfig}

FutureCurve ==
  {[DefaultRewardConfig EXCEPT !.reward_schedule_curve =
      << [ts_start |-> 2, reward_per_time_unit |-> 1] >>]}
=============================================================================
