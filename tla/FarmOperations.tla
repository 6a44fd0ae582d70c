--------------------------- MODULE FarmOperations ---------------------------
(* The operations of farm_operations.rs on the accounts s = [farm, user] in  *)
(* the environment env = [ts, price]; each has its Ok operator, which is     *)
(* false where the code returns an error or panics.                          *)
EXTENDS StakeOperations

-----------------------------------------------------------------------------
(* Issuance: refresh_global_reward of one reward r of the farm. *)

Scheduled(farm, r, env) ==
  LET cumulative == CumulativeAmount(r.config.reward_schedule_curve, r.last_issuance_ts, env.ts)
  IN  IF r.config.reward_type = "Constant" THEN cumulative * farm.active.amount ELSE cumulative

IssuableAmount(farm, r, env) ==
  AtOraclePrice(farm, env,
    Scheduled(farm, r, env) \div TenPow(r.config.rewards_per_second_decimals))

(* Mutant: issues what is not there. *)
MutIssueUnfunded(farm, r, env) == IssuableAmount(farm, r, env)

IssuedAmount(farm, r, env) == Least(IssuableAmount(farm, r, env), r.rewards_available)

(* Mutant: rounds up. *)
MutPerShareUp(farm, amount) ==
  (amount * WAD * StakeScale + farm.active.stake - 1) \div farm.active.stake

PerShare(farm, amount) == (amount * WAD * StakeScale) \div farm.active.stake

(* Mutant: time passes also when nothing is issued. *)
MutRefreshAlwaysAdvances(farm, r, env) ==
  LET issued == IF farm.active.stake = 0 THEN 0 ELSE IssuedAmount(farm, r, env)
  IN  [ r EXCEPT !.last_issuance_ts = env.ts,
                 !.rewards_issued_unclaimed = @ + issued,
                 !.rewards_issued_cumulative = @ + issued,
                 !.rewards_available = @ - issued,
                 !.reward_per_share_scaled =
                    IF farm.active.stake = 0 THEN @ ELSE @ + PerShare(farm, issued) ]

RefreshGlobalReward(farm, r, env) ==
  IF env.ts = r.last_issuance_ts \/ farm.active.stake = 0
  THEN [r EXCEPT !.last_issuance_ts = env.ts]
  ELSE IF IssuableAmount(farm, r, env) = 0
  THEN r
  ELSE LET issued == IssuedAmount(farm, r, env)
       IN  [ r EXCEPT
               !.last_issuance_ts = env.ts,
               !.rewards_issued_unclaimed = @ + issued,
               !.rewards_issued_cumulative = @ + issued,
               !.rewards_available = @ - issued,
               !.reward_per_share_scaled = @ + PerShare(farm, issued) ]

(* Mutant: every farm needs a price. *)
MutPriceAlwaysNeeded(farm, r, env) ==
  env.ts # r.last_issuance_ts /\ farm.active.stake # 0 =>
    /\ r.last_issuance_ts =< env.ts
    /\ StartedBy(r.config.reward_schedule_curve, r.last_issuance_ts)
    /\ TenPowOk(r.config.rewards_per_second_decimals)
    /\ PriceUsable(farm, env)

RefreshGlobalRewardOk(farm, r, env) ==
  env.ts # r.last_issuance_ts /\ farm.active.stake # 0 =>
    /\ r.last_issuance_ts =< env.ts
    /\ StartedBy(r.config.reward_schedule_curve, r.last_issuance_ts)
    /\ IsU64(CumulativeAmount(r.config.reward_schedule_curve, r.last_issuance_ts, env.ts))
    /\ TenPowOk(r.config.rewards_per_second_decimals)
    /\ HasOracle(farm.config) => PriceUsable(farm, env)
    /\ IsU64(IssuableAmount(farm, r, env))
    /\ IsU64(r.rewards_issued_unclaimed + IssuedAmount(farm, r, env))
    /\ IsU64(r.rewards_issued_cumulative + IssuedAmount(farm, r, env))
    /\ IsU128(r.reward_per_share_scaled + PerShare(farm, IssuedAmount(farm, r, env)))

RefreshGlobalRewards(farm, env) ==
  [ farm EXCEPT !.rewards =
      [ i \in RewardIndex |-> IF i \in InitialisedRewards(farm)
                              THEN RefreshGlobalReward(farm, @[i], env) ELSE @[i] ] ]

RefreshGlobalRewardsOk(farm, env) ==
  \A i \in InitialisedRewards(farm) : RefreshGlobalRewardOk(farm, farm.rewards[i], env)

-----------------------------------------------------------------------------
(* What a user has earned: the tally is what was already counted for them. *)

RewardValue(farm, shares, i) ==
  MulDiv(shares, farm.rewards[i].reward_per_share_scaled, StakeScale)

Entitlement(s, i) == RewardValue(s.farm, s.user.active_stake, i)

RewardDue(s, i) == (Entitlement(s, i) - s.user.rewards_tally[i]) \div WAD

(* Mutant: the reward is counted and the tally forgotten. *)
MutForgetTally(s, indices) ==
  [ s EXCEPT !.user.rewards_issued_unclaimed = [i \in RewardIndex |->
      IF i \in indices THEN @[i] + RewardDue(s, i) ELSE @[i]] ]

UserRefreshReward(s, indices) ==
  [ s EXCEPT
      !.user.rewards_tally = [i \in RewardIndex |->
          IF i \in indices THEN @[i] + RewardDue(s, i) * WAD ELSE @[i]],
      !.user.rewards_issued_unclaimed = [i \in RewardIndex |->
          IF i \in indices THEN @[i] + RewardDue(s, i) ELSE @[i]] ]

UserRefreshRewardOk(s, indices) ==
  \A i \in indices :
    /\ s.user.rewards_tally[i] =< Entitlement(s, i)
    /\ IsU64(s.user.rewards_issued_unclaimed[i] + RewardDue(s, i))
    /\ IsU128(s.user.rewards_tally[i] + RewardDue(s, i) * WAD)

(* user_refresh_all_rewards skips a user without active stake. *)
RefreshedIndices(s) == IF s.user.active_stake = 0 THEN {} ELSE InitialisedRewards(s.farm)

(* refresh_global_rewards, then user_refresh_all_rewards: how stake, unstake *)
(* and the refresh of a user begin.                                          *)
Issued(s, env) == [s EXCEPT !.farm = RefreshGlobalRewards(@, env)]

RefreshRewards(s, env) == UserRefreshReward(Issued(s, env), RefreshedIndices(s))

RefreshRewardsOk(s, env) ==
  /\ RefreshGlobalRewardsOk(s.farm, env)
  /\ UserRefreshRewardOk(Issued(s, env), RefreshedIndices(s))

(* Mutant: new shares earn what was issued before them. *)
MutTallyUnchanged(s, shares) == s

(* update_user_rewards_tally_on_stake_increase: new shares earn nothing of   *)
(* what was issued before them.                                              *)
IncreaseTally(s, shares) ==
  [ s EXCEPT !.user.rewards_tally =
      [i \in RewardIndex |-> IF i \in InitialisedRewards(s.farm)
                             THEN @[i] + RewardValue(s.farm, shares, i) ELSE @[i]] ]

IncreaseTallyOk(s, shares) ==
  \A i \in InitialisedRewards(s.farm) :
    IsU128(s.user.rewards_tally[i] + RewardValue(s.farm, shares, i))

-----------------------------------------------------------------------------
(* Issuance of a farm without staked tokens starts afresh. *)
InitializeRewardTsIfNeeded(farm, ts) ==
  IF farm.active.amount # 0 THEN farm
  ELSE [ farm EXCEPT !.rewards =
           [i \in RewardIndex |-> IF i \in InitialisedRewards(farm)
                                  THEN [@[i] EXCEPT !.last_issuance_ts = ts] ELSE @[i]] ]

DepositMatured(user, ts) ==
  user.pending_deposit_stake > 0 /\ ts >= user.pending_deposit_stake_ts

ActivatedShares(s) == SharesFor(ActivatedAmount(s), s.farm.active)

UserRefreshStake(s, env) ==
  LET t == [s EXCEPT !.farm = InitializeRewardTsIfNeeded(@, env.ts)]
  IN  IF DepositMatured(s.user, env.ts)
      THEN IncreaseTally(ActivatePendingStake(t), ActivatedShares(t))
      ELSE t

UserRefreshStakeOk(s, env) ==
  DepositMatured(s.user, env.ts) =>
    /\ ActivatePendingStakeOk(s)
    /\ IncreaseTallyOk(s, ActivatedShares(s))

(* Mutant: like the rewards, the stake is refreshed for active users only. *)
MutRefreshActiveOnly(s, env) ==
  IF Delegated \/ s.user.active_stake = 0 THEN RefreshRewards(s, env)
  ELSE UserRefreshStake(RefreshRewards(s, env), env)

UserRefreshState(s, env) ==
  IF Delegated THEN RefreshRewards(s, env) ELSE UserRefreshStake(RefreshRewards(s, env), env)

UserRefreshStateOk(s, env) ==
  /\ RefreshRewardsOk(s, env)
  /\ ~Delegated => UserRefreshStakeOk(RefreshRewards(s, env), env)

-----------------------------------------------------------------------------
(* farm_operations::stake: the amount waits for the warmup in the pending    *)
(* pool, or is active at once.                                               *)
Deposit(s, amount, ts) ==
  LET warmup == s.farm.config.deposit_warmup_period
      t == IF warmup > 0
           THEN [AddPendingDepositStake(s, amount) EXCEPT
                   !.user.pending_deposit_stake_ts = ts + warmup]
           ELSE IncreaseTally(AddActiveStake(s, amount), SharesFor(amount, s.farm.active))
  IN  [t EXCEPT !.user.last_stake_ts = ts]

DepositOk(s, amount, env) ==
  /\ CanAcceptDeposit(s.farm, env, amount)
  /\ IF s.farm.config.deposit_warmup_period > 0
     THEN /\ IsU64(env.ts + s.farm.config.deposit_warmup_period)
          /\ AddAmountOk(s.farm.pending, amount)
     ELSE /\ AddAmountOk(s.farm.active, amount)
          /\ IncreaseTallyOk(s, SharesFor(amount, s.farm.active))

Stake(s, amount, env) ==
  Deposit(UserRefreshStake(RefreshRewards(s, env), env), amount, env.ts)

StakeOk(s, amount, env) ==
  /\ RefreshRewardsOk(s, env)
  /\ UserRefreshStakeOk(RefreshRewards(s, env), env)
  /\ DepositOk(UserRefreshStake(RefreshRewards(s, env), env), amount, env)

-----------------------------------------------------------------------------
(* farm_operations::unstake.  The whole pending withdrawal gets the deadline *)
(* of the new one, and one that is due must be withdrawn first.              *)
SharesToUnstake(s, requested) == Least(requested, s.user.active_stake)

(* Mutant: the tally keeps the shares that left. *)
MutTallyKept(s, shares) == s

(* saturating_sub *)
ReduceTally(s, shares) ==
  [ s EXCEPT !.user.rewards_tally =
      [i \in RewardIndex |-> IF i \in InitialisedRewards(s.farm)
                             THEN @[i] - Least(@[i], RewardValue(s.farm, shares, i)) ELSE @[i]] ]

(* What require_gt checks. *)
TallyCovers(s, shares) ==
  \A i \in InitialisedRewards(s.farm) :
    s.user.rewards_tally[i] + WAD > RewardValue(s.farm, shares, i)

ReduceTallyOk(s, shares) ==
  /\ TallyCovers(s, shares)
  /\ \A i \in InitialisedRewards(s.farm) : IsU128(RewardValue(s.farm, shares, i))

MoveOut(s, shares, ts) ==
  LET penalty == UnstakePenalty(s, shares, ts)
      t == [s EXCEPT !.user.pending_withdrawal_unstake_ts =
                       ts + s.farm.config.withdrawal_cooldown_period]
      moved == MoveToPendingWithdrawal(t, shares, ts)
      slashed == [ moved.farm EXCEPT !.slashed = @ + penalty,
                                     !.slashed_amount_cumulative = @ + penalty ]
  IN  ReduceTally([ moved EXCEPT !.farm = slashed ], shares)

(* Mutant: any pending withdrawal must be withdrawn first. *)
MutOneWithdrawalAtATime(s, shares, ts) ==
  /\ shares > 0
  /\ s.user.pending_withdrawal_unstake = 0
  /\ MoveToPendingWithdrawalOk(s, shares, ts)

MoveOutOk(s, shares, ts) ==
  /\ shares > 0
  /\ s.user.pending_withdrawal_unstake > 0 => s.user.pending_withdrawal_unstake_ts > ts
  /\ IsU64(ts + s.farm.config.withdrawal_cooldown_period)
  /\ MoveToPendingWithdrawalOk(s, shares, ts)
  /\ IsU64(s.farm.slashed + UnstakePenalty(s, shares, ts))
  /\ IsU64(s.farm.slashed_amount_cumulative + UnstakePenalty(s, shares, ts))
  /\ ReduceTallyOk(s, shares)

Unstake(s, requested, env) ==
  LET t == RefreshRewards(s, env) IN MoveOut(t, SharesToUnstake(t, requested), env.ts)

UnstakeOk(s, requested, env) ==
  LET t == RefreshRewards(s, env)
  IN  RefreshRewardsOk(s, env) /\ MoveOutOk(t, SharesToUnstake(t, requested), env.ts)

(* withdraw_unstaked_deposits *)
AmountToWithdraw(s) == AmountFor(s.user.pending_withdrawal_unstake, s.farm.pending)

WithdrawUnstakedDeposits(s) == RemovePendingWithdrawalStake(s)

WithdrawUnstakedDepositsOk(s, ts) ==
  /\ s.user.pending_withdrawal_unstake_ts =< ts
  /\ s.user.pending_withdrawal_unstake > 0
  /\ RemoveSharesOk(s.farm.pending, s.user.pending_withdrawal_unstake)

-----------------------------------------------------------------------------
(* farm_operations::harvest of reward i: refresh, then pay out everything    *)
(* counted for the user, part of it to the treasury.  With nothing to pay    *)
(* the refresh is kept and last_claim_ts is not.                             *)
RefreshOne(s, i, env) == UserRefreshReward(Issued(s, env), {i})

HarvestedReward(s, i, env) == RefreshOne(s, i, env).user.rewards_issued_unclaimed[i]

TreasuryShare(reward, treasury_fee_bps) == MulDiv(reward, treasury_fee_bps, BPS_DIV_FACTOR)

(* Mutant: the farm keeps counting what was paid. *)
MutPaidStillUnclaimed(s, i, env) ==
  LET t == RefreshOne(s, i, env)
  IN  IF HarvestedReward(s, i, env) = 0 THEN t
      ELSE [t EXCEPT !.user.rewards_issued_unclaimed[i] = 0, !.user.last_claim_ts[i] = env.ts]

Harvest(s, i, env) ==
  LET t == RefreshOne(s, i, env)
      reward == HarvestedReward(s, i, env)
  IN  IF reward = 0 THEN t
      ELSE [ t EXCEPT
               !.farm.rewards[i].rewards_issued_unclaimed = @ - reward,
               !.user.rewards_issued_unclaimed[i] = 0,
               !.user.last_claim_ts[i] = env.ts ]

HarvestOk(s, i, env) ==
  /\ i \in InitialisedRewards(s.farm)
  /\ RefreshGlobalRewardsOk(s.farm, env)
  /\ UserRefreshRewardOk(Issued(s, env), {i})
  /\ s.user.last_claim_ts[i] + s.farm.rewards[i].config.min_claim_duration_seconds =< env.ts
  /\ HarvestedReward(s, i, env) =< RefreshOne(s, i, env).farm.rewards[i].rewards_issued_unclaimed

-----------------------------------------------------------------------------
(* The operations of the farm admin and of whoever funds a reward. *)

InitializeReward(farm, ts) ==
  [ farm EXCEPT
      !.rewards[farm.num_reward_tokens].rewards_available = 0,
      !.rewards[farm.num_reward_tokens].last_issuance_ts = ts,
      !.num_reward_tokens = @ + 1 ]

AddReward(farm, i, amount, env) ==
  [RefreshGlobalRewards(farm, env) EXCEPT !.rewards[i].rewards_available = @ + amount]

AddRewardOk(farm, i, amount, env) ==
  /\ i \in InitialisedRewards(farm)
  /\ RefreshGlobalRewardsOk(farm, env)
  /\ IsU64(RefreshGlobalRewards(farm, env).rewards[i].rewards_available + amount)

WithdrawableReward(farm, i, amount, env) ==
  Least(RefreshGlobalRewards(farm, env).rewards[i].rewards_available, amount)

(* Mutant: takes the whole amount off what is available. *)
MutWithdrawUnavailable(farm, i, amount, env) ==
  [RefreshGlobalRewards(farm, env) EXCEPT !.rewards[i].rewards_available = @ - amount]

WithdrawReward(farm, i, amount, env) ==
  [RefreshGlobalRewards(farm, env) EXCEPT
     !.rewards[i].rewards_available = @ - WithdrawableReward(farm, i, amount, env)]

WithdrawRewardOk(farm, i, amount, env) ==
  /\ i \in InitialisedRewards(farm)
  /\ RefreshGlobalRewardsOk(farm, env)
  /\ WithdrawableReward(farm, i, amount, env) > 0
  /\ farm.rewards[i].config.reward_schedule_curve = DefaultCurve

(* Each instruction sets one option. *)
OneOptionDiffers(old, new) ==
  \E changed \in DOMAIN old : \A other \in DOMAIN old \ {changed} : old[other] = new[other]

(* Mutant: a delegated farm accepts a warmup and a cooldown. *)
MutDelegatedMayCool(old, new) ==
  OneOptionDiffers(old, new) /\ new.locking_early_withdrawal_penalty_bps =< 10000

UpdateFarmConfigOk(old, new) ==
  /\ OneOptionDiffers(old, new)
  /\ new.locking_early_withdrawal_penalty_bps =< 10000
  /\ Delegated => /\ new.deposit_warmup_period = old.deposit_warmup_period
                  /\ new.withdrawal_cooldown_period = old.withdrawal_cooldown_period

(* Whichever option is set, the time since the last issuance is forgotten    *)
(* once the rewards are refreshed.                                           *)
UpdateRewardConfig(farm, i, config, env) ==
  [ RefreshGlobalRewards(farm, env) EXCEPT
      !.rewards[i].config = config,
      !.rewards[i].last_issuance_ts = env.ts ]

UpdateRewardConfigOk(farm, i, config, env) ==
  /\ i \in InitialisedRewards(farm)
  /\ RefreshGlobalRewardsOk(farm, env)
  /\ OneOptionDiffers(farm.rewards[i].config, config)

InitializeUser(user, ts) ==
  [ user EXCEPT !.initialised = TRUE, !.last_claim_ts = [i \in RewardIndex |-> ts] ]

(* reward_user_once credits without issuing or funding anything, and checks  *)
(* the index against the array only.                                         *)
RewardUserOnce(s, i, amount) ==
  LET credited == [ s.farm.rewards[i] EXCEPT !.rewards_issued_unclaimed = @ + amount,
                                             !.rewards_issued_cumulative = @ + amount ]
  IN  [ s EXCEPT !.farm.rewards[i] = credited,
                 !.user.rewards_issued_unclaimed[i] = @ + amount ]

(* Mutant: the cumulative counter is added to without a check. *)
MutCumulativeUnchecked(s, i, amount) ==
  /\ IsU64(s.farm.rewards[i].rewards_issued_unclaimed + amount)
  /\ IsU64(s.user.rewards_issued_unclaimed[i] + amount)

RewardUserOnceOk(s, i, amount) ==
  /\ IsU64(s.farm.rewards[i].rewards_issued_unclaimed + amount)
  /\ IsU64(s.farm.rewards[i].rewards_issued_cumulative + amount)
  /\ IsU64(s.user.rewards_issued_unclaimed[i] + amount)

-----------------------------------------------------------------------------
(* set_stake: the delegate authority of a delegated farm dictates a user's   *)
(* stake.  It passes no price, so that whatever needs one fails.             *)
WithoutPrice(env) == [env EXCEPT !.price.unix_timestamp = env.ts + 1]

StakeIncreases(s, new_stake) == new_stake > s.user.active_stake

(* Mutant: the farm adds the whole stake, not the difference. *)
MutAddsWholeStake(s, new_stake, env) ==
  IF new_stake = s.user.active_stake THEN s
  ELSE LET t == RefreshRewards(s, WithoutPrice(env))
       IN  [ farm |-> [t.farm EXCEPT !.active.stake = @ + new_stake,
                                     !.active.amount = @ + new_stake],
             user |-> [t.user EXCEPT !.active_stake = new_stake,
                                     !.rewards_tally = [i \in RewardIndex |->
                                       t.farm.rewards[i].reward_per_share_scaled * new_stake]] ]

(* Mutant: the tally is that of the stake before. *)
MutTallyNotSet(s, new_stake, env) ==
  LET t == RefreshRewards(s, WithoutPrice(env))
  IN  [ farm |-> [t.farm EXCEPT !.active.stake  = @ + new_stake - s.user.active_stake,
                                !.active.amount = @ + new_stake - s.user.active_stake],
        user |-> [t.user EXCEPT !.active_stake = new_stake] ]

SetStake(s, new_stake, env) ==
  IF new_stake = s.user.active_stake THEN s
  ELSE
    LET t == RefreshRewards(s, WithoutPrice(env))
        f == IF StakeIncreases(s, new_stake)
             THEN InitializeRewardTsIfNeeded(t.farm, env.ts) ELSE t.farm
    IN  [ farm |-> [f EXCEPT
                      !.active.stake  = @ + new_stake - s.user.active_stake,
                      !.active.amount = @ + new_stake - s.user.active_stake],
          user |-> [t.user EXCEPT
                      !.active_stake = new_stake,
                      !.last_stake_ts = IF StakeIncreases(s, new_stake) THEN env.ts ELSE @,
                      !.rewards_tally = [i \in RewardIndex |->
                          IF i \in InitialisedRewards(f)
                          THEN f.rewards[i].reward_per_share_scaled * new_stake ELSE @[i]]] ]

(* What set_stake asserts of the farm. *)
DelegatedBooksBalance(farm) ==
  /\ farm.active.stake = farm.active.amount
  /\ farm.pending = EmptyPool
  /\ farm.config.deposit_warmup_period = 0
  /\ farm.config.withdrawal_cooldown_period = 0

SetStakeOk(s, new_stake, env) ==
  /\ DelegatedBooksBalance(s.farm)
  /\ IsU64(s.user.active_stake)
  /\ new_stake # s.user.active_stake =>
       /\ RefreshRewardsOk(s, WithoutPrice(env))
       /\ StakeIncreases(s, new_stake) =>
            CanAcceptDeposit(s.farm, WithoutPrice(env), new_stake - s.user.active_stake)
       /\ s.user.active_stake =< s.farm.active.stake + new_stake
       /\ \A i \in InitialisedRewards(s.farm) :
            IsU128(RefreshGlobalRewards(s.farm, WithoutPrice(env)).rewards[i].reward_per_share_scaled
                     * new_stake)
=============================================================================
