----------------------------- MODULE FarmState ------------------------------
(* The accounts of one farm: FarmState with its pools, configuration and     *)
(* reward tokens, and the UserState of each of its users (state.rs).         *)
(* Keys, padding, names of mints and the statistic num_users are left out;   *)
(* of the cumulative counters, which nothing reads either, an overflow fails *)
(* the instruction that adds to them.                                        *)
EXTENDS FarmMath, RewardSchedule

CONSTANTS
  MAX_REWARDS_TOKENS,
  Delegated          \* is_delegated: fixed when the farm is created

ASSUME FarmStateAssumption ==
  /\ MAX_REWARDS_TOKENS \in Nat
  /\ Delegated \in BOOLEAN

RewardIndex == 0 .. MAX_REWARDS_TOKENS - 1

(* A delegated farm counts its stake in units, any other scaled by WAD. *)
StakeScale == IF Delegated THEN 1 ELSE WAD

LockingMode == {"None", "Continuous", "WithExpiry"}
RewardType  == {"Proportional", "Constant"}

(* A pool of tokens held in shares: stake is the total of the shares. *)
Pool == [stake : Nat, amount : Nat]

EmptyPool == [stake |-> 0, amount |-> 0]

(* scope_oracle_price_id: u64::MAX for no oracle, an entry of its price      *)
(* account, or an index beyond the entries.                                  *)
OraclePriceId == {"None", "Listed", "Unlisted"}

(* What update_farm_config writes.  withdraw_authority,                      *)
(* slashed_amount_spill_address and scope_prices say whether one is set.     *)
FarmConfig ==
  [ deposit_warmup_period : Nat,
    withdrawal_cooldown_period : Nat,
    locking_mode : LockingMode,
    locking_start_timestamp : Nat,
    locking_duration : Nat,
    locking_early_withdrawal_penalty_bps : Nat,
    deposit_cap_amount : Nat,
    withdraw_authority : BOOLEAN,
    slashed_amount_spill_address : BOOLEAN,
    scope_prices : BOOLEAN,
    scope_oracle_price_id : OraclePriceId,
    scope_oracle_max_age : Nat ]

(* The zeroed account, as handler_initialize_farm leaves it. *)
DefaultConfig ==
  [ deposit_warmup_period |-> 0,
    withdrawal_cooldown_period |-> 0,
    locking_mode |-> "None",
    locking_start_timestamp |-> 0,
    locking_duration |-> 0,
    locking_early_withdrawal_penalty_bps |-> 0,
    deposit_cap_amount |-> 0,
    withdraw_authority |-> FALSE,
    slashed_amount_spill_address |-> FALSE,
    scope_prices |-> FALSE,
    scope_oracle_price_id |-> "None",
    scope_oracle_max_age |-> 0 ]

(* What update_reward_config writes; no option but the curve is validated. *)
RewardConfig ==
  [ reward_schedule_curve : Curves,
    min_claim_duration_seconds : Nat,
    reward_type : RewardType,
    rewards_per_second_decimals : Nat ]

DefaultRewardConfig ==
  [ reward_schedule_curve |-> DefaultCurve,
    min_claim_duration_seconds |-> 0,
    reward_type |-> "Proportional",
    rewards_per_second_decimals |-> 0 ]

RewardInfo ==
  [ config : RewardConfig,
    rewards_available : Nat,
    last_issuance_ts : Nat,
    rewards_issued_unclaimed : Nat,
    rewards_issued_cumulative : Nat,
    reward_per_share_scaled : Nat ]

NewReward ==
  [ config |-> DefaultRewardConfig,
    rewards_available |-> 0,
    last_issuance_ts |-> 0,
    rewards_issued_unclaimed |-> 0,
    rewards_issued_cumulative |-> 0,
    reward_per_share_scaled |-> 0 ]

FarmAccount ==
  [ config : FarmConfig,
    active : Pool,                 \* total_active_stake_scaled, total_staked_amount
    pending : Pool,                \* total_pending_stake_scaled, total_pending_amount
    slashed : Nat,                 \* slashed_amount_current
    slashed_amount_cumulative : Nat,
    frozen : BOOLEAN,              \* is_farm_frozen
    num_reward_tokens : 0 .. MAX_REWARDS_TOKENS,
    rewards : [RewardIndex -> RewardInfo] ]

NewFarm ==
  [ config |-> DefaultConfig,
    active |-> EmptyPool,
    pending |-> EmptyPool,
    slashed |-> 0,
    slashed_amount_cumulative |-> 0,
    frozen |-> FALSE,
    num_reward_tokens |-> 0,
    rewards |-> [i \in RewardIndex |-> NewReward] ]

InitialisedRewards(farm) == {i \in RewardIndex : i < farm.num_reward_tokens}

UserAccount ==
  [ initialised : BOOLEAN,
    active_stake : Nat,
    pending_deposit_stake : Nat,
    pending_deposit_stake_ts : Nat,
    pending_withdrawal_unstake : Nat,
    pending_withdrawal_unstake_ts : Nat,
    last_stake_ts : Nat,
    rewards_tally : [RewardIndex -> Nat],
    rewards_issued_unclaimed : [RewardIndex -> Nat],
    last_claim_ts : [RewardIndex -> Nat] ]

NewUser ==
  [ initialised |-> FALSE,
    active_stake |-> 0,
    pending_deposit_stake |-> 0,
    pending_deposit_stake_ts |-> 0,
    pending_withdrawal_unstake |-> 0,
    pending_withdrawal_unstake_ts |-> 0,
    last_stake_ts |-> 0,
    rewards_tally |-> [i \in RewardIndex |-> 0],
    rewards_issued_unclaimed |-> [i \in RewardIndex |-> 0],
    last_claim_ts |-> [i \in RewardIndex |-> 0] ]

(* What an instruction reads besides the accounts: the clock in the farm's   *)
(* time unit and the dated price of the Scope oracle.                        *)
Price == [value : Nat, exp : Nat, unix_timestamp : Nat]

Environment == [ts : Nat, price : Price]

HasOracle(c) == c.scope_oracle_price_id # "None"

(* load_scope_price: without the oracle no price account is needed. *)
LoadScopePriceOk(farm) ==
  HasOracle(farm.config) =>
    farm.config.scope_prices /\ farm.config.scope_oracle_price_id = "Listed"

(* Too old a price is an error; one from the future underflows. *)
PriceUsable(farm, env) ==
  /\ LoadScopePriceOk(farm)
  /\ TenPowOk(env.price.exp)
  /\ env.price.unix_timestamp =< env.ts
  /\ env.ts - env.price.unix_timestamp =< farm.config.scope_oracle_max_age

AtOraclePrice(farm, env, amount) ==
  IF HasOracle(farm.config) THEN MulDiv(amount, env.price.value, TenPow(env.price.exp))
  ELSE amount

(* The price is converted, and must convert, even when there is no cap. *)
CanAcceptDeposit(farm, env, amount) ==
  LET total == farm.active.amount + amount
  IN  /\ IsU64(total)
      /\ HasOracle(farm.config) =>
           PriceUsable(farm, env) /\ IsU64(AtOraclePrice(farm, env, total))
      /\ \/ farm.config.deposit_cap_amount = 0
         \/ AtOraclePrice(farm, env, total) =< farm.config.deposit_cap_amount
=============================================================================
