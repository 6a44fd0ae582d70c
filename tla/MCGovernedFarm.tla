--------------------------- MODULE MCGovernedFarm ---------------------------
(* Small farms and the people around them. *)
EXTENDS GovernedFarm, FarmProperties, TLC

CONSTANTS u1, u2, k1, k2

(* States are told apart by the farm and its keys: no action reads signer or *)
(* nominators.                                                               *)
View == <<vars, global_keys, farm_keys>>

Symmetry == Permutations(Users)

None == {}

(* The table of ten_pow ends at 1 in place of 19. *)
Powers == [x \in 0 .. 1 |-> 10 ^ x]

NoFee == {0}
HalfFee == {5000}
UnitPrice == [value |-> 1, exp |-> 0, unix_timestamp |-> 0]
OneToken == {1}
AllTokens == {U64_MAX}
AllShares == {U128_MAX}

-----------------------------------------------------------------------------
(* A farm with a lock, whose penalties are swept, and one whose stakes can   *)
(* change hands; the second person may become admin or withdraw authority.   *)
SweptConfig ==
  [DefaultConfig EXCEPT !.locking_mode = "Continuous",
                        !.locking_duration = 2,
                        !.withdrawal_cooldown_period = 1,
                        !.locking_early_withdrawal_penalty_bps = 5000,
                        !.slashed_amount_spill_address = TRUE]

VaultFarms == {NewFarm, [NewFarm EXCEPT !.config = SweptConfig]}

VaultConfigs ==
  {[config EXCEPT !.withdraw_authority = set] : config \in {DefaultConfig, SweptConfig}, set \in BOOLEAN}

CandidatesForVault ==
  [ pending_farm_admin |-> {u2},
    withdraw_authority |-> {u2, NoKey},
    delegated_rps_admin |-> {},
    second_delegated_authority |-> {},
    pending_global_admin |-> {u2} ]

-----------------------------------------------------------------------------
(* A delegated farm with a reward: stakes are dictated by one delegate or    *)
(* two, the rates are set by the admin or by a delegated one.                *)
Rate(rate) == [DefaultRewardConfig EXCEPT !.reward_schedule_curve = ConstantCurve(rate)]

Rates == {Rate(3), [Rate(3) EXCEPT !.min_claim_duration_seconds = 1]}

OracleConfig ==
  [DefaultConfig EXCEPT !.scope_prices = TRUE,
                        !.scope_oracle_price_id = "Listed",
                        !.scope_oracle_max_age = 1]

CappedConfig == [DefaultConfig EXCEPT !.deposit_cap_amount = 3]

WithReward(config) ==
  [NewFarm EXCEPT !.config = config, !.num_reward_tokens = 1, !.rewards[0].config = Rate(3)]

DelegatedFarms == {NewFarm, WithReward(OracleConfig)}

DelegatedConfigs == {CappedConfig, [DefaultConfig EXCEPT !.withdrawal_cooldown_period = 1]}

DictatedStakes == {0, 1, 3}

CandidatesForRates ==
  [ pending_farm_admin |-> {k2},
    withdraw_authority |-> {},
    delegated_rps_admin |-> {k2},
    second_delegated_authority |-> {k2, NoKey},
    pending_global_admin |-> {} ]
=============================================================================
