--------------------------- MODULE FarmProperties ---------------------------
(* What must hold of a farm, whatever instructions it receives. *)
EXTENDS Farm

(* Every account keeps its shape: no counter goes below zero, the penalty    *)
(* and fee rates are rates, the reward index stays within the array.         *)
TypeOK ==
  /\ now \in Nat
  /\ price \in Price
  /\ treasury_fee_bps \in 0 .. BPS_DIV_FACTOR
  /\ farm \in FarmAccount
  /\ users \in [Users -> UserAccount]
  /\ wallets \in [Users -> Nat]
  /\ admin_ata \in Nat
  /\ farm_vault \in Nat
  /\ reward_vault \in [RewardIndex -> Nat]
  /\ treasury_vault \in [RewardIndex -> Nat]
  /\ credited \in [RewardIndex -> Nat]
  /\ tally_roundings \in Nat

-----------------------------------------------------------------------------
(* Staked tokens *)

(* The farm's token account holds exactly what the farm's books owe: the two *)
(* pools and the penalties not yet swept.  The books and the account are     *)
(* changed by different calls of each instruction, and transfer_ownership    *)
(* changes the books three times without moving a token.                     *)
VaultBacksLiabilities == ~Delegated => farm_vault = Liabilities(farm)

(* The shares of each pool are the shares of its users; deposits that wait   *)
(* for the warmup and withdrawals that wait for the cooldown share a pool.   *)
SharesMatchPools ==
  /\ farm.active.stake = SumFunction([u \in Users |-> users[u].active_stake])
  /\ farm.pending.stake =
       SumFunction([u \in Users |-> users[u].pending_deposit_stake
                                      + users[u].pending_withdrawal_unstake])

(* No pool has shares without tokens, a state in which every deposit panics  *)
(* on "Total amount is zero but total stake is not", unless the withdraw     *)
(* authority emptied the farm: rounding never leaves such dust behind.       *)
NoOrphanShares ==
  \A pool \in {farm.active, farm.pending} : pool.amount = 0 /\ pool.stake > 0 => farm.frozen

VaultWithdrawal == \E amount \in VaultWithdrawals : HandleWithdrawFromFarmVault(amount)

(* A pool has at most WAD shares per token. *)
SharesAtPar == \A pool \in {farm.active, farm.pending} : pool.stake =< WAD * pool.amount

(* No share is ever sold for less than a token's worth, nor does rounding    *)
(* take it there, which keeps the shares of a pool as far from u128 as its   *)
(* tokens are from u64: only withdraw_from_farm_vault takes tokens out from  *)
(* under the shares.                                                         *)
SharesKeepPar == [][SharesAtPar => VaultWithdrawal \/ SharesAtPar']_vars

WithdrawalDue(u) ==
  users[u].pending_withdrawal_unstake > 0 /\ users[u].pending_withdrawal_unstake_ts =< now

(* A withdrawal whose cooldown is over is never refused: whatever the others *)
(* did to the shared pool, its shares are there and the vault can pay.       *)
DueWithdrawalGoesThrough ==
  \A u \in Users : ~Delegated /\ WithdrawalDue(u) =>
    /\ WithdrawUnstakedDepositsOk(Of(u), now)
    /\ AmountToWithdraw(Of(u)) =< farm_vault

KeepsValue(shares, pool, next) == AmountFor(shares, next) >= AmountFor(shares, pool)

(* What others do never costs a user a token: whatever instruction leaves a  *)
(* user's account alone, the user's shares are worth at least as much after  *)
(* it, rounding included, unless the withdraw authority takes tokens out.    *)
OthersKeepTheirValue ==
  [][VaultWithdrawal \/
     \A u \in Users : users'[u] = users[u] =>
       /\ KeepsValue(users[u].active_stake, farm.active, farm'.active)
       /\ KeepsValue(users[u].pending_deposit_stake, farm.pending, farm'.pending)
       /\ KeepsValue(users[u].pending_withdrawal_unstake, farm.pending, farm'.pending)]_vars

(* A pending withdrawal is only ever extended, as unstake's log says: its    *)
(* deadline never moves to an earlier instant.                               *)
WithdrawalOnlyExtended ==
  [][\A u \in Users :
       users[u].pending_withdrawal_unstake > 0 /\ users'[u].pending_withdrawal_unstake > 0 =>
         users'[u].pending_withdrawal_unstake_ts >= users[u].pending_withdrawal_unstake_ts]_vars

(* A farm whose vault was emptied under its stakers is left frozen, as       *)
(* withdraw_farm's log says: no user's tokens enter it any more.             *)
FrozenTakesNoStake ==
  [][farm.frozen /\ farm.active.stake > 0 => \A u \in Users : wallets'[u] >= wallets[u]]_vars

(* Waiting never makes leaving more expensive: as long as a stake is locked, *)
(* the penalty of unstaking any part of it does not grow with time, and it   *)
(* never takes all of an amount.                                             *)
PenaltyOnlyShrinks ==
  \A u \in Users, shares \in UnstakeShares, later \in now .. MAX_TIME :
    LET s == Of(u)
        part == Least(shares, s.user.active_stake)
        amount == AmountFor(part, farm.active)
        c == farm.config
    IN  /\ c.locking_mode # "None"
        /\ Locked(LockBegin(s), c.locking_duration, now)
        /\ MoveToPendingWithdrawalOk(s, part, now)
        => /\ UnstakePenalty(s, part, later) =< UnstakePenalty(s, part, now)
           /\ amount > 0 => UnstakePenalty(s, part, now) < amount

-----------------------------------------------------------------------------
(* Rewards *)

(* Each reward token account, with what the admin promised by                *)
(* reward_user_once and did not fund, covers what is still to be issued and  *)
(* what was issued and not claimed.                                          *)
RewardsBacked ==
  \A i \in RewardIndex :
    reward_vault[i] + credited[i] =
      farm.rewards[i].rewards_available + farm.rewards[i].rewards_issued_unclaimed

(* A reward that is not initialised has no funds: what initialize_reward     *)
(* resets is zero already.                                                   *)
UnusedRewardsEmpty ==
  \A i \in RewardIndex \ InitialisedRewards(farm) : farm.rewards[i].rewards_available = 0

(* Together they are inductive: the farm holds the tokens it must hand out.  *)
Custody == TypeOK /\ VaultBacksLiabilities /\ RewardsBacked /\ UnusedRewardsEmpty

(* What the books say is in the farm's keeping.  A delegated farm holds no   *)
(* tokens: its stakes are numbers; what reward_user_once promised without    *)
(* funds is not there.                                                       *)
BookedStake == IF Delegated THEN 0 ELSE Liabilities(farm)

BookedFunds ==
  [i \in RewardIndex |->
     farm.rewards[i].rewards_available + farm.rewards[i].rewards_issued_unclaimed - credited[i]]

Custodian ==
  INSTANCE FarmCustody WITH
    Rewards <- RewardIndex, SUPPLY <- REWARD_SUPPLY, authority <- admin_ata,
    safe <- BookedStake, funds <- BookedFunds, treasury <- treasury_vault

(* The books follow the tokens step by step: whenever tokens change hands,   *)
(* the books of the farm change by that amount in the same instruction, and  *)
(* instructions that move no token, however they move shares between users   *)
(* and pools or issue rewards, leave the farm's totals alone.                *)
BooksFollowTokens == Custodian!Spec

(* What the users can claim of a reward, counted or not yet counted, never   *)
(* exceeds what was issued and not claimed, up to one unit of the last       *)
(* decimal for each rounding of a tally: harvest's checked_sub cannot fail   *)
(* on a reward the users really earned.                                      *)
ClaimsWithinIssued ==
  \A i \in RewardIndex :
    WAD * SumFunction([u \in Users |-> users[u].rewards_issued_unclaimed[i]])
      + SumFunction([u \in Users |-> Entitlement(Of(u), i)])
    =< WAD * farm.rewards[i].rewards_issued_unclaimed
         + SumFunction([u \in Users |-> users[u].rewards_tally[i]]) + tally_roundings

(* Once the rewards are refreshed, the check of the tally in unstake never   *)
(* fails, so that rewards never keep a user from leaving.                    *)
TallyNeverBlocksUnstake ==
  \A u \in Users, shares \in UnstakeShares :
    LET t == RefreshRewards(Of(u), env)
    IN  RefreshRewardsOk(Of(u), env) => TallyCovers(t, SharesToUnstake(t, shares))

(* A tally exceeds the value it is compared with by one unit of the last     *)
(* decimal at most: the rounding of a partial unstake.                       *)
TallyOvershootsByOneUnit ==
  \A u \in Users, i \in InitialisedRewards(farm) :
    users[u].rewards_tally[i] =< Entitlement(Of(u), i) + 1

(* The subtraction user_refresh_reward makes never goes below zero.          *)
TallyWithinEntitlement ==
  \A u \in Users, i \in InitialisedRewards(farm) :
    users[u].rewards_tally[i] =< Entitlement(Of(u), i)

(* While there are stakers, the schedule in force has begun by the last      *)
(* issuance; the log of most_recent_curve_starting_point calls any other     *)
(* curve invalid, and no refresh gets past it.                               *)
ScheduleHasBegun ==
  farm.active.stake > 0 => \A i \in InitialisedRewards(farm) :
    StartedBy(farm.rewards[i].config.reward_schedule_curve, farm.rewards[i].last_issuance_ts)

TalliesCounted(u) ==
  \A i \in InitialisedRewards(farm) : users[u].rewards_tally[i] =< Entitlement(Of(u), i)

(* The farm once its admin unsets the oracle, and once its rewards are then  *)
(* issued up to now.                                                         *)
Unpriced == [farm EXCEPT !.config.scope_oracle_price_id = "None"]

Refreshed == RefreshGlobalRewards(Unpriced, env)

(* The schedules have begun, their decimals are in the table of ten_pow, and *)
(* what they accumulate is no overflow.                                      *)
SchedulesInRange ==
  \A i \in InitialisedRewards(farm) :
    LET r == farm.rewards[i]
        curve == r.config.reward_schedule_curve
    IN  /\ StartedBy(curve, r.last_issuance_ts)
        /\ TenPowOk(r.config.rewards_per_second_decimals)
        /\ IsU64(CumulativeAmount(curve, r.last_issuance_ts, now))
        /\ farm.active.stake > 0 =>
             /\ IsU64(IssuableAmount(Unpriced, r, env))
             /\ IsU128(r.reward_per_share_scaled + PerShare(farm, IssuedAmount(Unpriced, r, env)))

UserCount == SumFunction([u \in Users |-> 1])

(* The counters of each reward can take all that is left of its funds.  The  *)
(* cumulative ones never decrease, and reward_user_once adds to all of them  *)
(* without funds: the tokens that exist are no bound for them.               *)
CountersHaveRoom ==
  \A i \in InitialisedRewards(farm) :
    LET r == farm.rewards[i]
    IN  /\ IsU64(r.rewards_issued_cumulative + r.rewards_available)
        /\ IsU64(r.rewards_issued_unclaimed + r.rewards_available
                   + (tally_roundings + UserCount) \div WAD)

PenaltiesHaveRoom == IsU64(farm.slashed_amount_cumulative + farm.active.amount)

(* The shares a user has after a refresh. *)
SharesSoon(u) ==
  users[u].active_stake
    + (IF DepositMatured(users[u], now) THEN ActivatedShares(Of(u)) ELSE 0)

(* What the shares of a user have earned since the farm began fits u128; the *)
(* code multiplies it out, however much of it was claimed long ago.          *)
EarningsFit ==
  \A i \in InitialisedRewards(farm) :
    /\ \A u \in Users : IsU128(RewardValue(Refreshed, SharesSoon(u), i))
    /\ Delegated => \A stake \in DelegatedStakes : IsU128(RewardValue(Refreshed, stake, i))

(* Either pool has room for the shares of the other's tokens.  Shares at par *)
(* leave it, shares whose tokens the withdraw authority took may not.        *)
SharesFit ==
  /\ IsU128(farm.pending.stake + SharesFor(farm.active.amount, farm.pending))
  /\ IsU128(farm.active.stake + SharesFor(farm.pending.amount, farm.active))

(* The end of a cooldown and of a lock can be computed. *)
DeadlinesFit ==
  LET c == farm.config
  IN  /\ IsU64(now + c.withdrawal_cooldown_period)
      /\ c.locking_mode # "None" =>
           IsU64(BPS_DIV_FACTOR * (now + c.locking_start_timestamp + c.locking_duration))

(* The rewards can be issued and counted. *)
RewardsInRange == SchedulesInRange /\ CountersHaveRoom /\ EarningsFit

(* Nothing keeps a user from unstaking everything, whatever the others do    *)
(* and whatever the oracle says once the admin unsets it, but: a withdrawal  *)
(* that is due, a stake locked without a price, a farm that was emptied, a   *)
(* tally rounded one unit too high, a schedule that has not begun, that      *)
(* overflows or whose decimals ten_pow does not know, and the ends of the    *)
(* integers: of the counters of rewards and penalties, of what the shares    *)
(* have earned, of the shares of a pool and of the deadlines.                *)
StakersCanLeave ==
  LET c == farm.config
  IN  /\ ~Delegated /\ ~farm.frozen
      /\ c.locking_mode # "None" =>
            c.locking_early_withdrawal_penalty_bps \in 1 .. BPS_DIV_FACTOR - 1
      /\ PenaltiesHaveRoom /\ SharesFit /\ DeadlinesFit /\ RewardsInRange
      => \A u \in Users :
           users[u].active_stake > 0 /\ ~WithdrawalDue(u) /\ TalliesCounted(u)
           => UnstakeOk([farm |-> Unpriced, user |-> users[u]], users[u].active_stake, env)

(* Nothing keeps a deposit whose warmup is over from becoming active at the  *)
(* next refresh of its user, whatever others did to the pending pool it      *)
(* shares with their withdrawals, but what of these concerns a refresh.      *)
MaturedDepositsActivate ==
  ~Delegated /\ ~farm.frozen /\ SharesFit /\ RewardsInRange =>
    \A u \in Users :
      DepositMatured(users[u], now) /\ TalliesCounted(u)
      => UserRefreshStateOk([farm |-> Unpriced, user |-> users[u]], env)

(* The delegate authority can dictate any stake within the cap and u64 as    *)
(* long as the rewards are in range: the checks and assertions set_stake     *)
(* makes on the way never fail it.  With an oracle, whose price set_stake    *)
(* does not pass, that leaves lower stakes, and only at the instant up to    *)
(* which the rewards are issued.                                             *)
DictatedStakeIsAccepted ==
  Delegated /\ RewardsInRange =>
    \A u \in Users, stake \in DelegatedStakes :
      LET c == farm.config
          more == stake > users[u].active_stake
          total == farm.active.amount + stake - users[u].active_stake
      IN  /\ HasOracle(c) => ~more /\ \A i \in InitialisedRewards(farm) :
                                           farm.rewards[i].last_issuance_ts = now
          /\ more => /\ IsU64(total)
                     /\ c.deposit_cap_amount = 0 \/ total =< c.deposit_cap_amount
          => SetStakeOk(Of(u), stake, env)

(* Every counter fits the machine integer that holds it.  Of the shares, the *)
(* operators check the sums of the pools only; those of a user are in range  *)
(* with the pool's, whatever moved between the pools before, so that what    *)
(* the accessors unwrap never panics where the pool's own sum does not.      *)
CountersFit ==
  /\ \A pool \in {farm.active, farm.pending} : IsU64(pool.amount) /\ IsU128(pool.stake)
  /\ IsU64(farm.slashed) /\ IsU64(farm.slashed_amount_cumulative)
  /\ \A i \in RewardIndex :
       LET r == farm.rewards[i] IN
         /\ IsU64(r.rewards_available) /\ IsU64(r.rewards_issued_unclaimed)
         /\ IsU64(r.rewards_issued_cumulative) /\ IsU128(r.reward_per_share_scaled)
  /\ \A u \in Users :
       LET a == users[u] IN
         /\ IsU128(a.active_stake) /\ IsU128(a.pending_deposit_stake)
         /\ IsU128(a.pending_withdrawal_unstake)
         /\ IsU64(a.pending_deposit_stake_ts) /\ IsU64(a.pending_withdrawal_unstake_ts)
         /\ \A i \in RewardIndex : IsU64(a.rewards_issued_unclaimed[i]) /\ IsU128(a.rewards_tally[i])

(* The balances set_stake asserts of a delegated farm hold throughout: no    *)
(* instruction of such a farm makes set_stake panic.                         *)
DelegatedFarmBalances == Delegated => DelegatedBooksBalance(farm) /\ farm_vault = 0

-----------------------------------------------------------------------------
(* Progress *)

(* Every withdrawal is paid: an unstake may extend it, but it comes due and  *)
(* then goes through, for what its shares are worth by then, which is        *)
(* nothing in a farm that was emptied.                                       *)
WithdrawalEventuallyPaid ==
  \A u \in Users : users[u].pending_withdrawal_unstake > 0 ~> users[u].pending_withdrawal_unstake = 0

(* Every deposit becomes active once its warmup is over and someone          *)
(* refreshes the user, unless the withdraw authority empties the farm.       *)
DepositEventuallyActive ==
  \A u \in Users :
    users[u].pending_deposit_stake > 0 ~> users[u].pending_deposit_stake = 0 \/ farm.frozen
=============================================================================
