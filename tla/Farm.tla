-------------------------------- MODULE Farm --------------------------------
(* One farm, its users and the token accounts it owns, as the instructions   *)
(* of the program change them.  The runtime executes the instructions that   *)
(* touch one farm one at a time and undoes one that fails, so every          *)
(* instruction is one action, and one that fails is no step.                 *)
EXTENDS FarmOperations

CONSTANTS
  Users,
  InitFarms,           \* farms as created and configured at instant 0
  WALLET,              \* farm tokens each user starts with
  ADMIN_FUNDS,         \* farm tokens the admin starts with
  REWARD_SUPPLY,       \* tokens that exist of each reward mint
  StakeAmounts,        \* arguments of the instructions: of stake
  UnstakeShares,       \* of unstake, in scaled shares
  DelegatedStakes,     \* of set_stake_delegated
  VaultDeposits,       \* of deposit_to_farm_vault
  VaultWithdrawals,    \* of withdraw_from_farm_vault
  RewardAmounts,       \* of add_reward, withdraw_reward, withdraw_treasury
  CreditAmounts,       \* of reward_user_once
  FarmConfigs,         \* configurations update_farm_config may reach
  RewardConfigs,       \* reward configurations it may reach
  TreasuryFees,        \* of update_global_config
  InitPrice,           \* what the oracle has published at instant 0
  Prices,              \* what it may publish later
  MAX_CREDIT,          \* bound of credited
  MAX_SLASHED,         \* bound of slashed_amount_cumulative
  MAX_ROUNDINGS,       \* bound of tally_roundings
  MAX_TIME,            \* bound of the clock
  HORIZON              \* last instant at which users move stake, so that what they start can end

ASSUME FarmAssumption ==
  /\ IsFiniteSet(Users)
  /\ InitFarms \subseteq FarmAccount
  /\ \A f \in InitFarms :
       /\ f.active = EmptyPool /\ f.pending = EmptyPool /\ ~f.frozen
       /\ f.slashed = 0 /\ f.slashed_amount_cumulative = 0
       /\ \A i \in RewardIndex : /\ f.rewards[i].last_issuance_ts = 0
                                 /\ f.rewards[i].rewards_available = 0
                                 /\ f.rewards[i].rewards_issued_unclaimed = 0
                                 /\ f.rewards[i].rewards_issued_cumulative = 0
                                 /\ f.rewards[i].reward_per_share_scaled = 0
       /\ Delegated => /\ f.config.deposit_warmup_period = 0
                       /\ f.config.withdrawal_cooldown_period = 0
  /\ WALLET \in Nat /\ ADMIN_FUNDS \in Nat /\ REWARD_SUPPLY \in Nat
  /\ StakeAmounts \subseteq Nat /\ UnstakeShares \subseteq Nat /\ DelegatedStakes \subseteq Nat
  /\ VaultDeposits \subseteq Nat /\ VaultWithdrawals \subseteq Nat
  /\ RewardAmounts \subseteq Nat /\ CreditAmounts \subseteq Nat
  /\ FarmConfigs \subseteq FarmConfig /\ RewardConfigs \subseteq RewardConfig
  /\ TreasuryFees \subseteq 0 .. BPS_DIV_FACTOR
  /\ InitPrice \in Price /\ Prices \subseteq Price
  /\ MAX_TIME \in Nat /\ HORIZON \in Nat /\ MAX_CREDIT \in Nat
  /\ MAX_SLASHED \in Nat /\ MAX_ROUNDINGS \in Nat

VARIABLES
  now,                 \* the clock in the farm's time unit
  price,               \* the farm's entry of the oracle's price account
  treasury_fee_bps,    \* of the GlobalConfig
  farm,                \* the FarmState account
  users,               \* the UserState accounts
  wallets,             \* farm tokens of each user
  admin_ata,           \* farm tokens of the farm's authorities
  farm_vault,          \* farm tokens of the farm
  reward_vault,        \* reward tokens of the farm, per reward
  treasury_vault,      \* reward tokens of the treasury, per reward
  credited,            \* history: what reward_user_once promised, per reward
  tally_roundings      \* history: how often a tally may have been rounded down

environment  == <<now, price, treasury_fee_bps>>
stakeTokens  == <<wallets, admin_ata, farm_vault>>
rewardTokens == <<reward_vault, treasury_vault>>
history      == <<credited, tally_roundings>>

vars == <<environment, farm, users, stakeTokens, rewardTokens, history>>

-----------------------------------------------------------------------------
env == [ts |-> now, price |-> price]

Of(u) == [farm |-> farm, user |-> users[u]]

(* The instruction leaves the farm and the user as in s. *)
Becomes(u, s) ==
  /\ farm' = s.farm
  /\ users' = [users EXCEPT ![u] = s.user]

(* Each increase of a user's shares may round once; an instruction makes at  *)
(* most two, the activation of a matured deposit and a new one.              *)
CountRoundings(u) ==
  /\ tally_roundings' =
       IF farm.num_reward_tokens > 0 /\ users'[u].active_stake > users[u].active_stake
       THEN tally_roundings + 2 ELSE tally_roundings
  /\ tally_roundings' =< MAX_ROUNDINGS

(* Tokens of a reward mint outside the farm's and the treasury's accounts. *)
RewardsOutside(i) == REWARD_SUPPLY - reward_vault[i] - treasury_vault[i]

Init ==
  /\ now = 0
  /\ price = InitPrice
  /\ treasury_fee_bps \in TreasuryFees
  /\ farm \in InitFarms
  /\ users = [u \in Users |-> NewUser]
  /\ wallets = [u \in Users |-> WALLET]
  /\ admin_ata = ADMIN_FUNDS
  /\ farm_vault = 0
  /\ reward_vault = [i \in RewardIndex |-> 0]
  /\ treasury_vault = [i \in RewardIndex |-> 0]
  /\ credited = [i \in RewardIndex |-> 0]
  /\ tally_roundings = 0

-----------------------------------------------------------------------------
(* Instructions of the users *)

HandleInitializeUser(u) ==
  /\ ~users[u].initialised
  /\ users' = [users EXCEPT ![u] = InitializeUser(@, now)]
  /\ UNCHANGED <<environment, farm, stakeTokens, rewardTokens, history>>

(* u64::MAX stands for all the tokens of the user's account. *)
StakedTokens(u, amount) == IF amount = U64_MAX THEN wallets[u] ELSE amount

HandleStake(u, amount) ==
  /\ ~Delegated
  /\ now =< HORIZON
  /\ users[u].initialised
  /\ LoadScopePriceOk(farm)
  /\ amount # 0
  /\ StakedTokens(u, amount) =< wallets[u]
  /\ StakeOk(Of(u), StakedTokens(u, amount), env)
  /\ Becomes(u, Stake(Of(u), StakedTokens(u, amount), env))
  /\ wallets' = [wallets EXCEPT ![u] = @ - StakedTokens(u, amount)]
  /\ farm_vault' = farm_vault + StakedTokens(u, amount)
  /\ CountRoundings(u)
  /\ UNCHANGED <<environment, admin_ata, rewardTokens, credited>>

HandleUnstake(u, shares) ==
  /\ ~Delegated
  /\ now =< HORIZON
  /\ users[u].initialised
  /\ LoadScopePriceOk(farm)
  /\ shares # 0
  /\ UnstakeOk(Of(u), shares, env)
  /\ Becomes(u, Unstake(Of(u), shares, env))
  /\ farm'.slashed_amount_cumulative =< MAX_SLASHED
  /\ UNCHANGED <<environment, stakeTokens, rewardTokens, history>>

HandleWithdrawUnstakedDeposits(u) ==
  /\ ~Delegated
  /\ users[u].initialised
  /\ WithdrawUnstakedDepositsOk(Of(u), now)
  /\ AmountToWithdraw(Of(u)) =< farm_vault
  /\ Becomes(u, WithdrawUnstakedDeposits(Of(u)))
  /\ wallets' = [wallets EXCEPT ![u] = @ + AmountToWithdraw(Of(u))]
  /\ farm_vault' = farm_vault - AmountToWithdraw(Of(u))
  /\ UNCHANGED <<environment, admin_ata, rewardTokens, history>>

HandleHarvestReward(u, i) ==
  LET reward == HarvestedReward(Of(u), i, env)
      fee == TreasuryShare(reward, treasury_fee_bps)
  IN  /\ users[u].initialised
      /\ LoadScopePriceOk(farm)
      /\ HarvestOk(Of(u), i, env)
      /\ reward =< reward_vault[i]
      /\ Becomes(u, Harvest(Of(u), i, env))
      /\ reward_vault' = [reward_vault EXCEPT ![i] = @ - reward]
      /\ treasury_vault' = [treasury_vault EXCEPT ![i] = @ + fee]
      /\ UNCHANGED <<environment, stakeTokens, history>>

(* Stake moves from old to new at one instant, through a withdrawal that is  *)
(* due at once and takes along what old already had pending; no token moves. *)
Heir(new) == IF users[new].initialised THEN users[new] ELSE InitializeUser(users[new], now)

TransferUnstaked(old) == Unstake(Of(old), users[old].active_stake, env)

TransferWithdrawn(old) == WithdrawUnstakedDeposits(TransferUnstaked(old))

TransferredAmount(old) == AmountToWithdraw(TransferUnstaked(old))

HandleTransferOwnership(old, new) ==
  LET heir == [farm |-> TransferWithdrawn(old).farm, user |-> Heir(new)]
      moved == Stake(heir, TransferredAmount(old), env)
  IN  /\ ~Delegated
      /\ now =< HORIZON
      /\ old # new
      /\ users[old].initialised
      /\ LoadScopePriceOk(farm)
      /\ farm.config.locking_mode = "None"
      /\ farm.config.withdrawal_cooldown_period = 0
      /\ UnstakeOk(Of(old), users[old].active_stake, env)
      /\ WithdrawUnstakedDepositsOk(TransferUnstaked(old), now)
      /\ StakeOk(heir, TransferredAmount(old), env)
      /\ farm' = moved.farm
      /\ users' = [users EXCEPT ![old] = TransferWithdrawn(old).user, ![new] = moved.user]
      /\ CountRoundings(new)
      /\ UNCHANGED <<environment, stakeTokens, rewardTokens, credited>>

-----------------------------------------------------------------------------
(* Instructions anyone may send *)

HandleRefreshFarm ==
  /\ LoadScopePriceOk(farm)
  /\ RefreshGlobalRewardsOk(farm, env)
  /\ farm' = RefreshGlobalRewards(farm, env)
  /\ UNCHANGED <<environment, users, stakeTokens, rewardTokens, history>>

HandleRefreshUserState(u) ==
  /\ users[u].initialised
  /\ LoadScopePriceOk(farm)
  /\ UserRefreshStateOk(Of(u), env)
  /\ Becomes(u, UserRefreshState(Of(u), env))
  /\ CountRoundings(u)
  /\ UNCHANGED <<environment, stakeTokens, rewardTokens, credited>>

HandleAddReward(i, amount) ==
  /\ LoadScopePriceOk(farm)
  /\ AddRewardOk(farm, i, amount, env)
  /\ amount =< RewardsOutside(i)
  /\ farm' = AddReward(farm, i, amount, env)
  /\ reward_vault' = [reward_vault EXCEPT ![i] = @ + amount]
  /\ UNCHANGED <<environment, users, stakeTokens, treasury_vault, history>>

(* Mutant: the penalties may be swept again. *)
MutSweepAgain ==
  /\ ~Delegated
  /\ farm.config.slashed_amount_spill_address
  /\ farm.slashed =< farm_vault
  /\ farm_vault' = farm_vault - farm.slashed
  /\ admin_ata' = admin_ata + farm.slashed
  /\ UNCHANGED <<environment, farm, users, wallets, rewardTokens, history>>

HandleWithdrawSlashedAmount ==
  /\ ~Delegated
  /\ farm.config.slashed_amount_spill_address
  /\ farm.slashed =< farm_vault
  /\ farm' = [farm EXCEPT !.slashed = 0]
  /\ farm_vault' = farm_vault - farm.slashed
  /\ admin_ata' = admin_ata + farm.slashed
  /\ UNCHANGED <<environment, users, wallets, rewardTokens, history>>

-----------------------------------------------------------------------------
(* Instructions of the farm's authorities *)

HandleInitializeReward ==
  /\ farm.num_reward_tokens < MAX_REWARDS_TOKENS
  /\ farm' = InitializeReward(farm, now)
  /\ UNCHANGED <<environment, users, stakeTokens, rewardTokens, history>>

HandleWithdrawReward(i, amount) ==
  /\ LoadScopePriceOk(farm)
  /\ WithdrawRewardOk(farm, i, amount, env)
  /\ WithdrawableReward(farm, i, amount, env) =< reward_vault[i]
  /\ farm' = WithdrawReward(farm, i, amount, env)
  /\ reward_vault' = [reward_vault EXCEPT ![i] = @ - WithdrawableReward(farm, i, amount, env)]
  /\ UNCHANGED <<environment, users, stakeTokens, treasury_vault, history>>

HandleUpdateFarmConfig(config) ==
  /\ UpdateFarmConfigOk(farm.config, config)
  /\ farm' = [farm EXCEPT !.config = config]
  /\ UNCHANGED <<environment, users, stakeTokens, rewardTokens, history>>

HandleUpdateRewardConfig(i, config) ==
  /\ UpdateRewardConfigOk(farm, i, config, env)
  /\ farm' = UpdateRewardConfig(farm, i, config, env)
  /\ UNCHANGED <<environment, users, stakeTokens, rewardTokens, history>>

HandleRewardUserOnce(u, i, amount) ==
  /\ users[u].initialised
  /\ RewardUserOnceOk(Of(u), i, amount)
  /\ Becomes(u, RewardUserOnce(Of(u), i, amount))
  /\ credited' = [credited EXCEPT ![i] = @ + amount]
  /\ credited'[i] =< MAX_CREDIT
  /\ UNCHANGED <<environment, stakeTokens, rewardTokens, tally_roundings>>

HandleDepositToFarmVault(amount) ==
  /\ ~Delegated
  /\ amount # 0
  /\ amount =< admin_ata
  /\ IncreaseTotalAmountOk(farm, amount)
  /\ farm' = IncreaseTotalAmount(farm, amount)
  /\ farm_vault' = farm_vault + amount
  /\ admin_ata' = admin_ata - amount
  /\ UNCHANGED <<environment, users, wallets, rewardTokens, history>>

HandleWithdrawFromFarmVault(amount) ==
  /\ ~Delegated
  /\ farm.config.withdraw_authority
  /\ WithdrawFarmOk(farm)
  /\ WithdrawnAmount(farm, amount) =< farm_vault
  /\ farm' = WithdrawFarm(farm, amount)
  /\ farm_vault' = farm_vault - WithdrawnAmount(farm, amount)
  /\ admin_ata' = admin_ata + WithdrawnAmount(farm, amount)
  /\ UNCHANGED <<environment, users, wallets, rewardTokens, history>>

HandleSetStakeDelegated(u, new_stake) ==
  /\ Delegated
  /\ now =< HORIZON
  /\ users[u].initialised
  /\ SetStakeOk(Of(u), new_stake, env)
  /\ Becomes(u, SetStake(Of(u), new_stake, env))
  /\ UNCHANGED <<environment, stakeTokens, rewardTokens, history>>

-----------------------------------------------------------------------------
(* Instructions of the global admin *)

HandleWithdrawTreasury(i, amount) ==
  /\ amount > 0
  /\ amount =< treasury_vault[i]
  /\ treasury_vault' = [treasury_vault EXCEPT ![i] = @ - amount]
  /\ UNCHANGED <<environment, farm, users, stakeTokens, reward_vault, history>>

HandleUpdateGlobalConfig(fee) ==
  /\ fee =< 10000
  /\ treasury_fee_bps' = fee
  /\ UNCHANGED <<now, price, farm, users, stakeTokens, rewardTokens, history>>

-----------------------------------------------------------------------------
(* The world outside the program *)

Tick ==
  /\ now < MAX_TIME
  /\ now' = now + 1
  /\ UNCHANGED <<price, treasury_fee_bps, farm, users, stakeTokens, rewardTokens, history>>

(* The oracle publishes a price, dated with the current time. *)
UpdatePrice ==
  /\ \E p \in Prices : price' = [p EXCEPT !.unix_timestamp = now]
  /\ UNCHANGED <<now, treasury_fee_bps, farm, users, stakeTokens, rewardTokens, history>>

UserInstruction(u) ==
  \/ HandleInitializeUser(u)
  \/ HandleRefreshUserState(u)
  \/ \E amount \in StakeAmounts : HandleStake(u, amount)
  \/ \E shares \in UnstakeShares : HandleUnstake(u, shares)
  \/ HandleWithdrawUnstakedDeposits(u)
  \/ \E new \in Users : HandleTransferOwnership(u, new)
  \/ \E stake \in DelegatedStakes : HandleSetStakeDelegated(u, stake)

FarmInstruction ==
  \/ HandleRefreshFarm
  \/ HandleWithdrawSlashedAmount
  \/ HandleInitializeReward
  \/ \E config \in FarmConfigs : HandleUpdateFarmConfig(config)
  \/ \E amount \in VaultDeposits : HandleDepositToFarmVault(amount)
  \/ \E amount \in VaultWithdrawals : HandleWithdrawFromFarmVault(amount)

RewardInstruction(i) ==
  \/ \E u \in Users : HandleHarvestReward(u, i)
  \/ \E amount \in RewardAmounts : HandleAddReward(i, amount)
  \/ \E amount \in RewardAmounts : HandleWithdrawReward(i, amount)
  \/ \E config \in RewardConfigs : HandleUpdateRewardConfig(i, config)
  \/ \E u \in Users, amount \in CreditAmounts : HandleRewardUserOnce(u, i, amount)
  \/ \E amount \in RewardAmounts : HandleWithdrawTreasury(i, amount)

GlobalInstruction == \E fee \in TreasuryFees : HandleUpdateGlobalConfig(fee)

Next ==
  \/ \E u \in Users : UserInstruction(u)
  \/ FarmInstruction
  \/ \E i \in RewardIndex : RewardInstruction(i)
  \/ GlobalInstruction
  \/ Tick
  \/ UpdatePrice

(* Time passes; anyone may refresh a user, and a user who can withdraw does. *)
Fairness ==
  /\ WF_vars(Tick)
  /\ \A u \in Users : /\ WF_vars(HandleRefreshUserState(u))
                      /\ WF_vars(HandleWithdrawUnstakedDeposits(u))

Spec == Init /\ [][Next]_vars

LiveSpec == Spec /\ Fairness
=============================================================================
