----------------------------- MODULE FarmProofs -----------------------------
(* The farm keeps custody of the tokens it owes, and implements the abstract *)
(* custodian: proved for every number of users and reward tokens, every      *)
(* scale of the decimals, every configuration of the farm and every argument *)
(* of the instructions.  So are the price of leaving early and what rounding *)
(* leaves in the pools.                                                      *)
EXTENDS FarmProperties, OperationsProofs, Integers

-----------------------------------------------------------------------------
(* Custody *)

(* Typed states *)

(* The accounts an instruction loads have their types. *)
LEMMA OfTypes ==
  ASSUME TypeOK, NEW u \in Users
  PROVE  /\ Of(u) \in Accounts /\ env \in Environment
         /\ Of(u).farm = farm /\ Of(u).user = users[u]
         /\ Books(Of(u)) = Liabilities(farm)
BY DEF TypeOK, Of, env, Accounts, Environment, Books

(* Accounts stored with their types keep the types of all accounts. *)
LEMMA BecomesTypes ==
  ASSUME TypeOK, NEW u \in Users, NEW s \in Accounts, Becomes(u, s)
  PROVE  /\ farm' \in FarmAccount /\ users' \in [Users -> UserAccount]
         /\ farm' = s.farm /\ Liabilities(farm') = Books(s)
BY DEF TypeOK, Becomes, Accounts, Books

(* The wider environment and the tokens, of which an instruction changes few. *)
OthersOK ==
  /\ now \in Nat /\ price \in Price /\ treasury_fee_bps \in 0 .. BPS_DIV_FACTOR
  /\ wallets \in [Users -> Nat] /\ admin_ata \in Nat /\ farm_vault \in Nat
  /\ reward_vault \in [RewardIndex -> Nat] /\ treasury_vault \in [RewardIndex -> Nat]
  /\ credited \in [RewardIndex -> Nat] /\ tally_roundings \in Nat

(* The types fall into those of the farm and those of the rest. *)
LEMMA TypeOKParts ==
  TypeOK <=> OthersOK /\ farm \in FarmAccount /\ users \in [Users -> UserAccount]
BY DEF TypeOK, OthersOK

(* And so after a step. *)
LEMMA TypeOKPartsPrimed ==
  TypeOK' <=> OthersOK' /\ farm' \in FarmAccount /\ users' \in [Users -> UserAccount]
BY DEF TypeOK, OthersOK

(* The count of roundings is a natural number. *)
LEMMA CountRoundingsNat ==
  ASSUME TypeOK, NEW u \in Users, CountRoundings(u)
  PROVE  tally_roundings' \in Nat
BY DEF TypeOK, CountRoundings

(* The reward vaults back the promises. *)
LEMMA BackedPromises ==
  RewardsBacked <=> \A i \in RewardIndex : reward_vault[i] + credited[i] = Promised(farm, i)
BY DEF RewardsBacked, Promised

(* And so after a step. *)
LEMMA BackedPromisesPrimed ==
  RewardsBacked' <=> \A i \in RewardIndex : reward_vault'[i] + credited'[i] = Promised(farm', i)
BY DEF RewardsBacked, Promised

(* An instruction that moves no reward tokens and keeps the promises keeps their backing. *)
LEMMA PromisesKept ==
  ASSUME Custody, KeepsPromises(farm, farm'), UNCHANGED <<reward_vault, credited>>
  PROVE  RewardsBacked' /\ UnusedRewardsEmpty'
<1>1. RewardsBacked'
  BY BackedPromises, BackedPromisesPrimed DEF Custody, KeepsPromises
<1>2. UnusedRewardsEmpty'
  BY DEF Custody, UnusedRewardsEmpty, KeepsPromises, InitialisedRewards
<1> QED BY <1>1, <1>2

(* A promise that changes with its vault keeps its backing. *)
LEMMA PromiseChanged ==
  ASSUME Custody, NEW i \in RewardIndex, NEW gain \in Nat, NEW loss \in Nat, farm' \in FarmAccount,
         ChangesPromise(farm, farm', i, gain, loss),
         \/ /\ reward_vault' = [reward_vault EXCEPT ![i] = @ + gain - loss]
            /\ credited' = credited
         \/ /\ reward_vault' = reward_vault /\ loss = 0
            /\ credited' = [credited EXCEPT ![i] = @ + gain]
  PROVE  RewardsBacked' /\ UnusedRewardsEmpty'
<1>1. /\ reward_vault \in [RewardIndex -> Nat] /\ credited \in [RewardIndex -> Nat]
      /\ farm \in FarmAccount
  BY DEF Custody, TypeOK
<1>2. /\ reward_vault[i] \in Nat /\ credited[i] \in Nat
      /\ Promised(farm, i) \in Nat /\ Promised(farm', i) \in Nat
  BY <1>1, RewardFields
<1>3. reward_vault'[i] + credited'[i] = reward_vault[i] + credited[i] + gain - loss
  BY <1>1, <1>2
<1>4. \A j \in RewardIndex \ {i} :
        reward_vault'[j] = reward_vault[j] /\ credited'[j] = credited[j]
  BY <1>1
<1>5. reward_vault[i] + credited[i] = Promised(farm, i)
  BY BackedPromises DEF Custody
<1>6. reward_vault'[i] + credited'[i] = Promised(farm', i)
  BY <1>2, <1>3, <1>5 DEF ChangesPromise
<1>7. RewardsBacked'
  BY <1>4, <1>6, BackedPromises, BackedPromisesPrimed DEF Custody, ChangesPromise
<1>8. UnusedRewardsEmpty'
  BY DEF Custody, UnusedRewardsEmpty, ChangesPromise, InitialisedRewards
<1> QED BY <1>7, <1>8

-----------------------------------------------------------------------------
(* Each instruction keeps custody *)

(* A new farm owes nothing and holds nothing. *)
LEMMA InitCustody == Init => Custody
<1> SUFFICES ASSUME Init PROVE Custody
  OBVIOUS
<1>1. farm \in FarmAccount /\ price \in Price /\ treasury_fee_bps \in 0 .. BPS_DIV_FACTOR
  BY FarmAssumption DEF Init
<1>2. NewUser \in UserAccount
  BY DEF NewUser, UserAccount
<1>3. TypeOK
  BY <1>1, <1>2, FarmAssumption DEF Init, TypeOK
<1>4. /\ farm.active = EmptyPool /\ farm.pending = EmptyPool /\ farm.slashed = 0
      /\ \A i \in RewardIndex : /\ farm.rewards[i].rewards_available = 0
                               /\ farm.rewards[i].rewards_issued_unclaimed = 0
  BY FarmAssumption DEF Init
<1>5. VaultBacksLiabilities
  BY <1>4 DEF Init, VaultBacksLiabilities, Liabilities, EmptyPool
<1>6. RewardsBacked /\ UnusedRewardsEmpty
  BY <1>4 DEF Init, RewardsBacked, UnusedRewardsEmpty
<1> QED BY <1>3, <1>5, <1>6 DEF Custody

(* A new user owns nothing. *)
LEMMA InitializeUserCustody ==
  ASSUME Custody, NEW u \in Users, HandleInitializeUser(u)
  PROVE  Custody'
<1>1. InitializeUser(users[u], now) \in UserAccount
  BY DEF Custody, TypeOK, InitializeUser, UserAccount
<1>2. users' \in [Users -> UserAccount]
  BY <1>1 DEF HandleInitializeUser, Custody, TypeOK
<1>3. UNCHANGED <<environment, farm, stakeTokens, rewardTokens, history>>
  BY DEF HandleInitializeUser
<1> QED BY <1>2, <1>3
        DEF Custody, TypeOK, VaultBacksLiabilities, RewardsBacked, UnusedRewardsEmpty,
            InitialisedRewards, environment, stakeTokens, rewardTokens, history

(* The amount that u64::MAX stands for is a natural number. *)
LEMMA StakedTokensNat ==
  ASSUME TypeOK, NEW u \in Users, NEW amount \in StakeAmounts
  PROVE  StakedTokens(u, amount) \in Nat
BY FarmAssumption DEF TypeOK, StakedTokens

(* stake: the vault receives what the books grow by. *)
LEMMA StakeCustody ==
  ASSUME Custody, NEW u \in Users, NEW amount \in StakeAmounts, HandleStake(u, amount)
  PROVE  Custody'
<1> DEFINE tokens == StakedTokens(u, amount)
           s == Stake(Of(u), tokens, env)
<1>1. TypeOK /\ tokens \in Nat
  BY StakedTokensNat DEF Custody
<1>2. /\ Of(u) \in Accounts /\ env \in Environment
      /\ Of(u).farm = farm /\ Books(Of(u)) = Liabilities(farm)
  BY <1>1, OfTypes
<1>3. StakeOk(Of(u), tokens, env) /\ Becomes(u, s)
  BY DEF HandleStake
<1> HIDE DEF tokens
<1>4. /\ s \in Accounts
      /\ Books(s) = Books(Of(u)) + tokens
      /\ KeepsPromises(Of(u).farm, s.farm)
  BY <1>1, <1>2, <1>3, StakeBooks
<1> HIDE DEF s
<1>5. /\ farm' \in FarmAccount /\ users' \in [Users -> UserAccount]
      /\ farm' = s.farm /\ Liabilities(farm') = Liabilities(farm) + tokens
  BY <1>1, <1>2, <1>3, <1>4, BecomesTypes
<1>6. /\ wallets' = [wallets EXCEPT ![u] = @ - tokens] /\ tokens =< wallets[u]
      /\ farm_vault' = farm_vault + tokens
      /\ UNCHANGED <<environment, admin_ata, rewardTokens, credited>>
  BY DEF HandleStake, tokens
<1>7. tally_roundings' \in Nat
  BY <1>1, CountRoundingsNat DEF HandleStake
<1>8. OthersOK'
  BY <1>1, <1>6, <1>7 DEF TypeOK, OthersOK, environment, rewardTokens
<1>9. TypeOK'
  BY <1>5, <1>8, TypeOKPartsPrimed
<1>10. VaultBacksLiabilities'
  <2>1. Liabilities(farm) \in Nat /\ farm_vault \in Nat
    BY <1>1, FarmFields DEF TypeOK, Liabilities
  <2> QED BY <1>5, <1>6, <2>1 DEF Custody, VaultBacksLiabilities
<1>11. RewardsBacked' /\ UnusedRewardsEmpty'
  BY <1>2, <1>4, <1>5, <1>6, PromisesKept DEF rewardTokens
<1> QED BY <1>9, <1>10, <1>11 DEF Custody

(* unstake: tokens change pool within the vault. *)
LEMMA UnstakeCustody ==
  ASSUME Custody, NEW u \in Users, NEW shares \in UnstakeShares, HandleUnstake(u, shares)
  PROVE  Custody'
<1> DEFINE s == Unstake(Of(u), shares, env)
<1>1. TypeOK /\ shares \in Nat
  BY FarmAssumption DEF Custody
<1>2. /\ Of(u) \in Accounts /\ env \in Environment
      /\ Of(u).farm = farm /\ Books(Of(u)) = Liabilities(farm)
  BY <1>1, OfTypes
<1>3. /\ UnstakeOk(Of(u), shares, env) /\ Becomes(u, s)
      /\ UNCHANGED <<environment, stakeTokens, rewardTokens, history>>
  BY DEF HandleUnstake
<1>4. s \in Accounts /\ Books(s) = Books(Of(u)) /\ KeepsPromises(Of(u).farm, s.farm)
  BY <1>1, <1>2, <1>3, UnstakeBooks
<1> HIDE DEF s
<1>5. /\ farm' \in FarmAccount /\ users' \in [Users -> UserAccount]
      /\ farm' = s.farm /\ Liabilities(farm') = Liabilities(farm)
  BY <1>1, <1>2, <1>3, <1>4, BecomesTypes
<1>6. OthersOK'
  BY <1>1, <1>3 DEF TypeOK, OthersOK, environment, stakeTokens, rewardTokens, history
<1>7. TypeOK'
  BY <1>5, <1>6, TypeOKPartsPrimed
<1>8. VaultBacksLiabilities'
  BY <1>3, <1>5 DEF Custody, VaultBacksLiabilities, stakeTokens
<1>9. RewardsBacked' /\ UnusedRewardsEmpty'
  BY <1>2, <1>3, <1>4, <1>5, PromisesKept DEF rewardTokens, history
<1> QED BY <1>7, <1>8, <1>9 DEF Custody

(* withdraw_unstaked_deposits: the vault pays what leaves the pending pool. *)
LEMMA WithdrawUnstakedDepositsCustody ==
  ASSUME Custody, NEW u \in Users, HandleWithdrawUnstakedDeposits(u)
  PROVE  Custody'
<1> DEFINE s == WithdrawUnstakedDeposits(Of(u))
           paid == AmountToWithdraw(Of(u))
<1>1. TypeOK /\ now \in Nat
  BY DEF Custody, TypeOK
<1>2. /\ Of(u) \in Accounts /\ Of(u).farm = farm /\ Books(Of(u)) = Liabilities(farm)
  BY <1>1, OfTypes
<1>3. /\ WithdrawUnstakedDepositsOk(Of(u), now) /\ Becomes(u, s)
      /\ paid =< farm_vault
      /\ wallets' = [wallets EXCEPT ![u] = @ + paid] /\ farm_vault' = farm_vault - paid
      /\ UNCHANGED <<environment, admin_ata, rewardTokens, history>>
  BY DEF HandleWithdrawUnstakedDeposits
<1>4. /\ s \in Accounts /\ paid \in Nat
      /\ Books(s) = Books(Of(u)) - paid
      /\ KeepsPromises(Of(u).farm, s.farm)
  BY <1>1, <1>2, <1>3, WithdrawUnstakedDepositsBooks
<1> HIDE DEF s, paid
<1>5. /\ farm' \in FarmAccount /\ users' \in [Users -> UserAccount]
      /\ farm' = s.farm /\ Liabilities(farm') = Liabilities(farm) - paid
  BY <1>1, <1>2, <1>3, <1>4, BecomesTypes
<1>6. OthersOK'
  BY <1>1, <1>3, <1>4 DEF TypeOK, OthersOK, environment, rewardTokens, history
<1>7. TypeOK'
  BY <1>5, <1>6, TypeOKPartsPrimed
<1>8. VaultBacksLiabilities'
  BY <1>3, <1>5 DEF Custody, VaultBacksLiabilities
<1>9. RewardsBacked' /\ UnusedRewardsEmpty'
  BY <1>2, <1>3, <1>4, <1>5, PromisesKept DEF rewardTokens, history
<1> QED BY <1>7, <1>8, <1>9 DEF Custody

(* refresh_user_state: activation and issuance move no tokens. *)
LEMMA RefreshUserStateCustody ==
  ASSUME Custody, NEW u \in Users, HandleRefreshUserState(u)
  PROVE  Custody'
<1> DEFINE s == UserRefreshState(Of(u), env)
<1>1. TypeOK
  BY DEF Custody
<1>2. /\ Of(u) \in Accounts /\ env \in Environment
      /\ Of(u).farm = farm /\ Books(Of(u)) = Liabilities(farm)
  BY <1>1, OfTypes
<1>3. /\ UserRefreshStateOk(Of(u), env) /\ Becomes(u, s) /\ CountRoundings(u)
      /\ UNCHANGED <<environment, stakeTokens, rewardTokens, credited>>
  BY DEF HandleRefreshUserState
<1>4. s \in Accounts /\ Books(s) = Books(Of(u)) /\ KeepsPromises(Of(u).farm, s.farm)
  BY <1>2, <1>3, UserRefreshStateBooks
<1> HIDE DEF s
<1>5. /\ farm' \in FarmAccount /\ users' \in [Users -> UserAccount]
      /\ farm' = s.farm /\ Liabilities(farm') = Liabilities(farm)
  BY <1>1, <1>2, <1>3, <1>4, BecomesTypes
<1>6. tally_roundings' \in Nat
  BY <1>1, <1>3, CountRoundingsNat
<1>7. OthersOK'
  BY <1>1, <1>3, <1>6 DEF TypeOK, OthersOK, environment, stakeTokens, rewardTokens
<1>8. TypeOK'
  BY <1>5, <1>7, TypeOKPartsPrimed
<1>9. VaultBacksLiabilities'
  BY <1>3, <1>5 DEF Custody, VaultBacksLiabilities, stakeTokens
<1>10. RewardsBacked' /\ UnusedRewardsEmpty'
  BY <1>2, <1>3, <1>4, <1>5, PromisesKept DEF rewardTokens
<1> QED BY <1>8, <1>9, <1>10 DEF Custody

(* Stake that changes hands leaves the books of the farm as they were. *)
LEMMA TransferOwnershipCustody ==
  ASSUME Custody, NEW old \in Users, NEW new \in Users, HandleTransferOwnership(old, new)
  PROVE  Custody'
<1> DEFINE s == Of(old)
           shares == users[old].active_stake
           out == TransferUnstaked(old)
           paid == TransferWithdrawn(old)
           amount == TransferredAmount(old)
           heir == [farm |-> paid.farm, user |-> Heir(new)]
           moved == Stake(heir, amount, env)
<1>1. TypeOK /\ now \in Nat
  BY DEF Custody, TypeOK
<1>2. /\ s \in Accounts /\ env \in Environment
      /\ s.farm = farm /\ Books(s) = Liabilities(farm)
  BY <1>1, OfTypes
<1>3. /\ UnstakeOk(s, shares, env)
      /\ WithdrawUnstakedDepositsOk(out, now)
      /\ StakeOk(heir, amount, env)
      /\ farm' = moved.farm
      /\ users' = [users EXCEPT ![old] = paid.user, ![new] = moved.user]
      /\ CountRoundings(new)
      /\ UNCHANGED <<environment, stakeTokens, rewardTokens, credited>>
  BY DEF HandleTransferOwnership
<1>4. /\ out = Unstake(s, shares, env)
      /\ paid = WithdrawUnstakedDeposits(out) /\ amount = AmountToWithdraw(out)
  BY DEF TransferUnstaked, TransferWithdrawn, TransferredAmount
<1>5. shares \in Nat
  BY <1>1 DEF TypeOK, UserAccount
<1> HIDE DEF s, shares, out, paid, amount
<1>6. out \in Accounts /\ Books(out) = Books(s) /\ KeepsPromises(s.farm, out.farm)
  BY <1>2, <1>3, <1>4, <1>5, UnstakeBooks
<1>7. /\ paid \in Accounts /\ amount \in Nat
      /\ Books(paid) = Books(out) - amount
      /\ KeepsPromises(out.farm, paid.farm)
  BY <1>1, <1>3, <1>4, <1>6, WithdrawUnstakedDepositsBooks
<1>8. Heir(new) \in UserAccount
  BY <1>1 DEF TypeOK, Heir, InitializeUser, UserAccount
<1>9. heir \in Accounts /\ heir.farm = paid.farm
  BY <1>7, <1>8 DEF Accounts
<1> HIDE DEF heir
<1>10. /\ moved \in Accounts
       /\ Books(moved) = Books(heir) + amount
       /\ KeepsPromises(heir.farm, moved.farm)
  BY <1>2, <1>3, <1>7, <1>9, StakeBooks
<1> HIDE DEF moved
<1>11. Liabilities(farm') = Liabilities(farm)
  <2>1. Books(s) \in Nat /\ Books(heir) = Books(paid)
    BY <1>2, <1>9, BooksNat DEF Books
  <2> QED BY <1>2, <1>3, <1>6, <1>7, <1>10, <2>1 DEF Books
<1>12. KeepsPromises(farm, farm')
  BY <1>2, <1>3, <1>6, <1>7, <1>9, <1>10, KeepsPromisesTransitive
<1>13. farm' \in FarmAccount /\ users' \in [Users -> UserAccount]
  BY <1>1, <1>3, <1>7, <1>10 DEF TypeOK, Accounts
<1>14. tally_roundings' \in Nat
  BY <1>1, <1>3, CountRoundingsNat
<1>15. OthersOK'
  BY <1>1, <1>3, <1>14 DEF TypeOK, OthersOK, environment, stakeTokens, rewardTokens
<1>16. TypeOK'
  BY <1>13, <1>15, TypeOKPartsPrimed
<1>17. VaultBacksLiabilities'
  BY <1>3, <1>11 DEF Custody, VaultBacksLiabilities, stakeTokens
<1>18. RewardsBacked' /\ UnusedRewardsEmpty'
  BY <1>3, <1>12, PromisesKept DEF rewardTokens
<1> QED BY <1>16, <1>17, <1>18 DEF Custody

(* set_stake_delegated: a delegated farm holds no tokens of its users. *)
LEMMA SetStakeCustody ==
  ASSUME Custody, NEW u \in Users, NEW stake \in DelegatedStakes,
         HandleSetStakeDelegated(u, stake)
  PROVE  Custody'
<1> DEFINE s == SetStake(Of(u), stake, env)
<1>1. TypeOK /\ stake \in Nat
  BY FarmAssumption DEF Custody
<1>2. Of(u) \in Accounts /\ env \in Environment /\ Of(u).farm = farm
  BY <1>1, OfTypes
<1>3. /\ Delegated /\ SetStakeOk(Of(u), stake, env) /\ Becomes(u, s)
      /\ UNCHANGED <<environment, stakeTokens, rewardTokens, history>>
  BY DEF HandleSetStakeDelegated
<1>4. s \in Accounts /\ KeepsPromises(Of(u).farm, s.farm)
  BY <1>1, <1>2, <1>3, SetStakeTypes
<1> HIDE DEF s
<1>5. farm' \in FarmAccount /\ users' \in [Users -> UserAccount] /\ farm' = s.farm
  BY <1>1, <1>3, <1>4, BecomesTypes
<1>6. OthersOK'
  BY <1>1, <1>3 DEF TypeOK, OthersOK, environment, stakeTokens, rewardTokens, history
<1>7. TypeOK'
  BY <1>5, <1>6, TypeOKPartsPrimed
<1>8. VaultBacksLiabilities'
  BY <1>3 DEF VaultBacksLiabilities
<1>9. RewardsBacked' /\ UnusedRewardsEmpty'
  BY <1>2, <1>3, <1>4, <1>5, PromisesKept DEF rewardTokens, history
<1> QED BY <1>7, <1>8, <1>9 DEF Custody

(* harvest_reward: the reward vault pays what leaves the unclaimed rewards. *)
LEMMA HarvestCustody ==
  ASSUME Custody, NEW u \in Users, NEW i \in RewardIndex, HandleHarvestReward(u, i)
  PROVE  Custody'
<1> DEFINE reward == HarvestedReward(Of(u), i, env)
           fee == TreasuryShare(reward, treasury_fee_bps)
           s == Harvest(Of(u), i, env)
<1>1. TypeOK
  BY DEF Custody
<1>2. /\ Of(u) \in Accounts /\ env \in Environment
      /\ Of(u).farm = farm /\ Books(Of(u)) = Liabilities(farm)
  BY <1>1, OfTypes
<1>3. /\ HarvestOk(Of(u), i, env) /\ Becomes(u, s)
      /\ reward =< reward_vault[i]
      /\ reward_vault' = [reward_vault EXCEPT ![i] = @ - reward]
      /\ treasury_vault' = [treasury_vault EXCEPT ![i] = @ + fee]
      /\ UNCHANGED <<environment, stakeTokens, history>>
  BY DEF HandleHarvestReward
<1>4. /\ s \in Accounts /\ reward \in Nat /\ Books(s) = Books(Of(u))
      /\ ChangesPromise(Of(u).farm, s.farm, i, 0, reward)
  BY <1>2, <1>3, HarvestPromises
<1> HIDE DEF s, reward
<1>5. fee \in Nat
  <2>1. treasury_fee_bps \in Nat /\ BPS_DIV_FACTOR \in Nat \ {0}
    BY <1>1 DEF TypeOK, BPS_DIV_FACTOR
  <2> QED BY <1>4, <2>1, MulDivNat DEF TreasuryShare
<1> HIDE DEF fee
<1>6. /\ farm' \in FarmAccount /\ users' \in [Users -> UserAccount]
      /\ farm' = s.farm /\ Liabilities(farm') = Liabilities(farm)
  BY <1>1, <1>2, <1>3, <1>4, BecomesTypes
<1>7. OthersOK'
  BY <1>1, <1>3, <1>4, <1>5 DEF TypeOK, OthersOK, environment, stakeTokens, history
<1>8. TypeOK'
  BY <1>6, <1>7, TypeOKPartsPrimed
<1>9. VaultBacksLiabilities'
  BY <1>3, <1>6 DEF Custody, VaultBacksLiabilities, stakeTokens
<1>10. RewardsBacked' /\ UnusedRewardsEmpty'
  <2>1. reward_vault[i] + 0 - reward = reward_vault[i] - reward
    BY <1>1, <1>4 DEF TypeOK
  <2>2. reward_vault' = [reward_vault EXCEPT ![i] = @ + 0 - reward] /\ credited' = credited
    BY <1>3, <2>1 DEF history
  <2> QED BY <1>2, <1>4, <1>6, <2>2, PromiseChanged
<1> QED BY <1>8, <1>9, <1>10 DEF Custody

(* reward_user_once: the promise made without funds is remembered. *)
LEMMA RewardUserOnceCustody ==
  ASSUME Custody, NEW u \in Users, NEW i \in RewardIndex, NEW amount \in CreditAmounts,
         HandleRewardUserOnce(u, i, amount)
  PROVE  Custody'
<1> DEFINE s == RewardUserOnce(Of(u), i, amount)
<1>1. TypeOK /\ amount \in Nat
  BY FarmAssumption DEF Custody
<1>2. /\ Of(u) \in Accounts
      /\ Of(u).farm = farm /\ Books(Of(u)) = Liabilities(farm)
  BY <1>1, OfTypes
<1>3. /\ Becomes(u, s)
      /\ credited' = [credited EXCEPT ![i] = @ + amount]
      /\ UNCHANGED <<environment, stakeTokens, rewardTokens, tally_roundings>>
  BY DEF HandleRewardUserOnce
<1>4. /\ s \in Accounts /\ Books(s) = Books(Of(u))
      /\ ChangesPromise(Of(u).farm, s.farm, i, amount, 0)
  BY <1>1, <1>2, RewardUserOncePromises
<1> HIDE DEF s
<1>5. /\ farm' \in FarmAccount /\ users' \in [Users -> UserAccount]
      /\ farm' = s.farm /\ Liabilities(farm') = Liabilities(farm)
  BY <1>1, <1>2, <1>3, <1>4, BecomesTypes
<1>6. OthersOK'
  BY <1>1, <1>3 DEF TypeOK, OthersOK, environment, stakeTokens, rewardTokens
<1>7. TypeOK'
  BY <1>5, <1>6, TypeOKPartsPrimed
<1>8. VaultBacksLiabilities'
  BY <1>3, <1>5 DEF Custody, VaultBacksLiabilities, stakeTokens
<1>9. RewardsBacked' /\ UnusedRewardsEmpty'
  BY <1>1, <1>2, <1>3, <1>4, <1>5, PromiseChanged DEF rewardTokens
<1> QED BY <1>7, <1>8, <1>9 DEF Custody

(* refresh_farm: issuance moves no tokens. *)
LEMMA RefreshFarmCustody ==
  ASSUME Custody, HandleRefreshFarm
  PROVE  Custody'
<1>1. TypeOK /\ farm \in FarmAccount /\ env \in Environment
  BY DEF Custody, TypeOK, env, Environment
<1>2. /\ RefreshGlobalRewardsOk(farm, env) /\ farm' = RefreshGlobalRewards(farm, env)
      /\ UNCHANGED <<environment, users, stakeTokens, rewardTokens, history>>
  BY DEF HandleRefreshFarm
<1>3. farm' \in FarmAccount /\ Liabilities(farm') = Liabilities(farm) /\ KeepsPromises(farm, farm')
  BY <1>1, <1>2, RefreshGlobalRewardsIssues, IssuanceKeepsBooks
<1>4. TypeOK'
  BY <1>1, <1>2, <1>3 DEF TypeOK, environment, stakeTokens, rewardTokens, history
<1>5. VaultBacksLiabilities'
  BY <1>2, <1>3 DEF Custody, VaultBacksLiabilities, stakeTokens
<1>6. RewardsBacked' /\ UnusedRewardsEmpty'
  BY <1>2, <1>3, PromisesKept DEF rewardTokens, history
<1> QED BY <1>4, <1>5, <1>6 DEF Custody

(* add_reward: the reward vault receives what becomes available. *)
LEMMA AddRewardCustody ==
  ASSUME Custody, NEW i \in RewardIndex, NEW amount \in RewardAmounts, HandleAddReward(i, amount)
  PROVE  Custody'
<1>1. /\ TypeOK /\ farm \in FarmAccount /\ env \in Environment /\ amount \in Nat
      /\ reward_vault[i] \in Nat
  BY FarmAssumption DEF Custody, TypeOK, env, Environment
<1>2. /\ AddRewardOk(farm, i, amount, env) /\ farm' = AddReward(farm, i, amount, env)
      /\ reward_vault' = [reward_vault EXCEPT ![i] = @ + amount]
      /\ UNCHANGED <<environment, users, stakeTokens, treasury_vault, history>>
  BY DEF HandleAddReward
<1>3. /\ farm' \in FarmAccount /\ Liabilities(farm') = Liabilities(farm)
      /\ ChangesPromise(farm, farm', i, amount, 0)
  BY <1>1, <1>2, AddRewardPromises
<1>4. TypeOK'
  BY <1>1, <1>2, <1>3 DEF TypeOK, environment, stakeTokens, history
<1>5. VaultBacksLiabilities'
  BY <1>2, <1>3 DEF Custody, VaultBacksLiabilities, stakeTokens
<1>6. RewardsBacked' /\ UnusedRewardsEmpty'
  <2>1. reward_vault[i] + amount - 0 = reward_vault[i] + amount
    BY <1>1
  <2>2. reward_vault' = [reward_vault EXCEPT ![i] = @ + amount - 0] /\ credited' = credited
    BY <1>2, <2>1 DEF history
  <2> QED BY <1>1, <1>3, <2>2, PromiseChanged
<1> QED BY <1>4, <1>5, <1>6 DEF Custody

(* withdraw_reward: the reward vault pays what was available. *)
LEMMA WithdrawRewardCustody ==
  ASSUME Custody, NEW i \in RewardIndex, NEW amount \in RewardAmounts,
         HandleWithdrawReward(i, amount)
  PROVE  Custody'
<1> DEFINE paid == WithdrawableReward(farm, i, amount, env)
<1>1. /\ TypeOK /\ farm \in FarmAccount /\ env \in Environment /\ amount \in Nat
      /\ reward_vault[i] \in Nat
  BY FarmAssumption DEF Custody, TypeOK, env, Environment
<1>2. /\ WithdrawRewardOk(farm, i, amount, env) /\ farm' = WithdrawReward(farm, i, amount, env)
      /\ paid =< reward_vault[i]
      /\ reward_vault' = [reward_vault EXCEPT ![i] = @ - paid]
      /\ UNCHANGED <<environment, users, stakeTokens, treasury_vault, history>>
  BY DEF HandleWithdrawReward
<1>3. /\ farm' \in FarmAccount /\ Liabilities(farm') = Liabilities(farm)
      /\ paid \in Nat
      /\ ChangesPromise(farm, farm', i, 0, paid)
  BY <1>1, <1>2, WithdrawRewardPromises
<1> HIDE DEF paid
<1>4. TypeOK'
  BY <1>1, <1>2, <1>3 DEF TypeOK, environment, stakeTokens, history
<1>5. VaultBacksLiabilities'
  BY <1>2, <1>3 DEF Custody, VaultBacksLiabilities, stakeTokens
<1>6. RewardsBacked' /\ UnusedRewardsEmpty'
  <2>1. reward_vault[i] + 0 - paid = reward_vault[i] - paid
    BY <1>1, <1>3
  <2>2. reward_vault' = [reward_vault EXCEPT ![i] = @ + 0 - paid] /\ credited' = credited
    BY <1>2, <2>1 DEF history
  <2> QED BY <1>1, <1>3, <2>2, PromiseChanged
<1> QED BY <1>4, <1>5, <1>6 DEF Custody

(* update_farm_config of a reward: issuance, then a new configuration. *)
LEMMA UpdateRewardConfigCustody ==
  ASSUME Custody, NEW i \in RewardIndex, NEW config \in RewardConfigs,
         HandleUpdateRewardConfig(i, config)
  PROVE  Custody'
<1>1. /\ TypeOK /\ farm \in FarmAccount /\ env \in Environment /\ config \in RewardConfig
      /\ reward_vault[i] \in Nat /\ reward_vault \in [RewardIndex -> Nat]
  BY FarmAssumption DEF Custody, TypeOK, env, Environment
<1>2. /\ UpdateRewardConfigOk(farm, i, config, env)
      /\ farm' = UpdateRewardConfig(farm, i, config, env)
      /\ UNCHANGED <<environment, users, stakeTokens, rewardTokens, history>>
  BY DEF HandleUpdateRewardConfig
<1>3. /\ farm' \in FarmAccount /\ Liabilities(farm') = Liabilities(farm)
      /\ ChangesPromise(farm, farm', i, 0, 0)
  BY <1>1, <1>2, UpdateRewardConfigPromises
<1>4. TypeOK'
  BY <1>1, <1>2, <1>3 DEF TypeOK, environment, stakeTokens, rewardTokens, history
<1>5. VaultBacksLiabilities'
  BY <1>2, <1>3 DEF Custody, VaultBacksLiabilities, stakeTokens
<1>6. RewardsBacked' /\ UnusedRewardsEmpty'
  <2>1. reward_vault[i] + 0 - 0 = reward_vault[i]
    BY <1>1
  <2>2. reward_vault' = [reward_vault EXCEPT ![i] = @ + 0 - 0] /\ credited' = credited
    BY <1>1, <1>2, <2>1 DEF history, rewardTokens
  <2> QED BY <1>1, <1>3, <2>2, PromiseChanged
<1> QED BY <1>4, <1>5, <1>6 DEF Custody

(* initialize_reward: what it resets was zero. *)
LEMMA InitializeRewardCustody ==
  ASSUME Custody, HandleInitializeReward
  PROVE  Custody'
<1>1. /\ TypeOK /\ farm \in FarmAccount /\ now \in Nat
  BY DEF Custody, TypeOK
<1>2. /\ farm.num_reward_tokens < MAX_REWARDS_TOKENS /\ farm' = InitializeReward(farm, now)
      /\ UNCHANGED <<environment, users, stakeTokens, rewardTokens, history>>
  BY DEF HandleInitializeReward
<1>3. farm.rewards[farm.num_reward_tokens].rewards_available = 0
  <2>1. farm.num_reward_tokens \in RewardIndex \ InitialisedRewards(farm)
    BY <1>1, <1>2, FarmStateAssumption DEF FarmAccount, RewardIndex, InitialisedRewards
  <2> QED BY <2>1 DEF Custody, UnusedRewardsEmpty
<1>4. /\ farm' \in FarmAccount /\ Liabilities(farm') = Liabilities(farm)
      /\ \A i \in RewardIndex : Promised(farm', i) = Promised(farm, i)
      /\ InitialisedRewards(farm) \subseteq InitialisedRewards(farm')
      /\ \A i \in RewardIndex :
           farm'.rewards[i].rewards_available = farm.rewards[i].rewards_available
  BY <1>1, <1>2, <1>3, InitializeRewardPromises
<1>5. TypeOK'
  BY <1>1, <1>2, <1>4 DEF TypeOK, environment, stakeTokens, rewardTokens, history
<1>6. VaultBacksLiabilities'
  BY <1>2, <1>4 DEF Custody, VaultBacksLiabilities, stakeTokens
<1>7. RewardsBacked'
  BY <1>2, <1>4, BackedPromises, BackedPromisesPrimed DEF Custody, rewardTokens, history
<1>8. UnusedRewardsEmpty'
  <2>1. InitialisedRewards(farm)' = InitialisedRewards(farm')
    BY DEF InitialisedRewards
  <2> QED BY <1>4, <2>1 DEF Custody, UnusedRewardsEmpty
<1> QED BY <1>5, <1>6, <1>7, <1>8 DEF Custody

(* withdraw_slashed_amount: the vault pays the penalties, which are then gone. *)
LEMMA WithdrawSlashedAmountCustody ==
  ASSUME Custody, HandleWithdrawSlashedAmount
  PROVE  Custody'
<1>1. TypeOK /\ farm \in FarmAccount /\ farm.slashed \in Nat /\ farm_vault \in Nat
  BY FarmFields DEF Custody, TypeOK
<1>2. /\ farm' = [farm EXCEPT !.slashed = 0] /\ farm.slashed =< farm_vault
      /\ farm_vault' = farm_vault - farm.slashed /\ admin_ata' = admin_ata + farm.slashed
      /\ UNCHANGED <<environment, users, wallets, rewardTokens, history>>
  BY DEF HandleWithdrawSlashedAmount
<1>3. farm' \in FarmAccount /\ Liabilities(farm') = Liabilities(farm) - farm.slashed
  BY <1>1, <1>2 DEF FarmAccount, Pool, Liabilities
<1>4. KeepsPromises(farm, farm')
  BY <1>1, <1>2, SameRewardsKeepPromises DEF FarmAccount
<1>5. TypeOK'
  BY <1>1, <1>2, <1>3 DEF TypeOK, environment, rewardTokens, history
<1>6. VaultBacksLiabilities'
  BY <1>2, <1>3 DEF Custody, VaultBacksLiabilities
<1>7. RewardsBacked' /\ UnusedRewardsEmpty'
  BY <1>2, <1>4, PromisesKept DEF rewardTokens, history
<1> QED BY <1>5, <1>6, <1>7 DEF Custody

(* update_farm_config of the farm: no amount changes. *)
LEMMA UpdateFarmConfigCustody ==
  ASSUME Custody, NEW config \in FarmConfigs, HandleUpdateFarmConfig(config)
  PROVE  Custody'
<1>1. TypeOK /\ farm \in FarmAccount /\ config \in FarmConfig
  BY FarmAssumption DEF Custody, TypeOK
<1>2. /\ farm' = [farm EXCEPT !.config = config]
      /\ UNCHANGED <<environment, users, stakeTokens, rewardTokens, history>>
  BY DEF HandleUpdateFarmConfig
<1>3. farm' \in FarmAccount /\ Liabilities(farm') = Liabilities(farm)
  BY <1>1, <1>2 DEF FarmAccount, Liabilities
<1>4. KeepsPromises(farm, farm')
  BY <1>1, <1>2, SameRewardsKeepPromises DEF FarmAccount
<1>5. TypeOK'
  BY <1>1, <1>2, <1>3 DEF TypeOK, environment, stakeTokens, rewardTokens, history
<1>6. VaultBacksLiabilities'
  BY <1>2, <1>3 DEF Custody, VaultBacksLiabilities, stakeTokens
<1>7. RewardsBacked' /\ UnusedRewardsEmpty'
  BY <1>2, <1>4, PromisesKept DEF rewardTokens, history
<1> QED BY <1>5, <1>6, <1>7 DEF Custody

(* deposit_to_farm_vault: the active pool grows by what the vault receives. *)
LEMMA DepositToFarmVaultCustody ==
  ASSUME Custody, NEW amount \in VaultDeposits, HandleDepositToFarmVault(amount)
  PROVE  Custody'
<1>1. TypeOK /\ farm \in FarmAccount /\ amount \in Nat
  BY FarmAssumption DEF Custody, TypeOK
<1>2. /\ farm' = [farm EXCEPT !.active.amount = @ + amount] /\ amount =< admin_ata
      /\ farm_vault' = farm_vault + amount /\ admin_ata' = admin_ata - amount
      /\ UNCHANGED <<environment, users, wallets, rewardTokens, history>>
  BY DEF HandleDepositToFarmVault, IncreaseTotalAmount
<1>3. farm' \in FarmAccount /\ Liabilities(farm') = Liabilities(farm) + amount
  BY <1>1, <1>2 DEF FarmAccount, Pool, Liabilities
<1>4. KeepsPromises(farm, farm')
  BY <1>1, <1>2, SameRewardsKeepPromises DEF FarmAccount
<1>5. TypeOK'
  BY <1>1, <1>2, <1>3 DEF TypeOK, environment, rewardTokens, history
<1>6. VaultBacksLiabilities'
  BY <1>2, <1>3 DEF Custody, VaultBacksLiabilities
<1>7. RewardsBacked' /\ UnusedRewardsEmpty'
  BY <1>2, <1>4, PromisesKept DEF rewardTokens, history
<1> QED BY <1>5, <1>6, <1>7 DEF Custody

(* withdraw_from_farm_vault: the pools lose what the vault pays. *)
LEMMA WithdrawFromFarmVaultCustody ==
  ASSUME Custody, NEW amount \in VaultWithdrawals, HandleWithdrawFromFarmVault(amount)
  PROVE  Custody'
<1> DEFINE paid == WithdrawnAmount(farm, amount)
<1>1. TypeOK /\ farm \in FarmAccount /\ amount \in Nat
  BY FarmAssumption DEF Custody, TypeOK
<1>2. /\ farm' = WithdrawFarm(farm, amount) /\ paid =< farm_vault
      /\ farm_vault' = farm_vault - paid /\ admin_ata' = admin_ata + paid
      /\ UNCHANGED <<environment, users, wallets, rewardTokens, history>>
  BY DEF HandleWithdrawFromFarmVault
<1>3. /\ farm' \in FarmAccount /\ Liabilities(farm') = Liabilities(farm) - paid
      /\ paid \in 0 .. farm.active.amount + farm.pending.amount
  BY <1>1, <1>2, WithdrawFarmBooks
<1>4. paid \in Nat
  BY <1>1, <1>3, FarmFields
<1>5. KeepsPromises(farm, farm')
  <2>1. farm'.rewards = farm.rewards /\ farm'.num_reward_tokens = farm.num_reward_tokens
    BY <1>1, <1>2 DEF WithdrawFarm, FarmAccount
  <2> QED BY <2>1, SameRewardsKeepPromises
<1> HIDE DEF paid
<1>6. TypeOK'
  BY <1>1, <1>2, <1>3, <1>4 DEF TypeOK, environment, rewardTokens, history
<1>7. VaultBacksLiabilities'
  BY <1>2, <1>3 DEF Custody, VaultBacksLiabilities
<1>8. RewardsBacked' /\ UnusedRewardsEmpty'
  BY <1>2, <1>5, PromisesKept DEF rewardTokens, history
<1> QED BY <1>6, <1>7, <1>8 DEF Custody

(* A step that touches neither the farm nor the tokens it owes. *)
LEMMA UntouchedCustody ==
  ASSUME Custody, TypeOK', UNCHANGED <<farm, farm_vault, reward_vault, credited>>
  PROVE  Custody'
BY DEF Custody, VaultBacksLiabilities, RewardsBacked, UnusedRewardsEmpty, InitialisedRewards

(* withdraw_treasury: the treasury is no vault of the farm. *)
LEMMA WithdrawTreasuryCustody ==
  ASSUME Custody, NEW i \in RewardIndex, NEW amount \in RewardAmounts,
         HandleWithdrawTreasury(i, amount)
  PROVE  Custody'
<1>1. TypeOK /\ amount \in Nat
  BY FarmAssumption DEF Custody
<1>2. TypeOK'
  BY <1>1 DEF HandleWithdrawTreasury, TypeOK, environment, stakeTokens, history
<1> QED BY <1>2, UntouchedCustody DEF HandleWithdrawTreasury, stakeTokens, history

(* The clock, the oracle and the treasury fee leave the accounts alone. *)
LEMMA WorldCustody ==
  ASSUME Custody, GlobalInstruction \/ Tick \/ UpdatePrice \/ UNCHANGED vars
  PROVE  Custody'
<1>1. TypeOK
  BY DEF Custody
<1>2. CASE GlobalInstruction
  <2>1. TypeOK'
    BY <1>1, <1>2, FarmAssumption
    DEF GlobalInstruction, HandleUpdateGlobalConfig, TypeOK, stakeTokens, rewardTokens, history
  <2> QED BY <1>2, <2>1, UntouchedCustody
          DEF GlobalInstruction, HandleUpdateGlobalConfig, stakeTokens, rewardTokens, history
<1>3. CASE Tick
  <2>1. TypeOK'
    BY <1>1, <1>3 DEF Tick, TypeOK, stakeTokens, rewardTokens, history
  <2> QED BY <1>3, <2>1, UntouchedCustody DEF Tick, stakeTokens, rewardTokens, history
<1>4. CASE UpdatePrice
  <2>1. price' \in Price
    BY <1>1, <1>4, FarmAssumption DEF UpdatePrice, Price, TypeOK
  <2>2. TypeOK'
    BY <1>1, <1>4, <2>1 DEF UpdatePrice, TypeOK, stakeTokens, rewardTokens, history
  <2> QED BY <1>4, <2>2, UntouchedCustody DEF UpdatePrice, stakeTokens, rewardTokens, history
<1>5. CASE UNCHANGED vars
  <2>1. TypeOK'
    BY <1>1, <1>5 DEF vars, TypeOK, environment, stakeTokens, rewardTokens, history
  <2> QED BY <1>5, <2>1, UntouchedCustody DEF vars, stakeTokens, rewardTokens, history
<1> QED BY <1>2, <1>3, <1>4, <1>5

-----------------------------------------------------------------------------
(* Whatever happens keeps custody. *)
LEMMA NextCustody == Custody /\ [Next]_vars => Custody'
<1> SUFFICES ASSUME Custody, [Next]_vars PROVE Custody'
  OBVIOUS
<1>1. ASSUME NEW u \in Users, UserInstruction(u) PROVE Custody'
  <2>1. CASE HandleInitializeUser(u)
    BY <2>1, InitializeUserCustody
  <2>2. CASE HandleRefreshUserState(u)
    BY <2>2, RefreshUserStateCustody
  <2>3. CASE \E amount \in StakeAmounts : HandleStake(u, amount)
    BY <2>3, StakeCustody
  <2>4. CASE \E shares \in UnstakeShares : HandleUnstake(u, shares)
    BY <2>4, UnstakeCustody
  <2>5. CASE HandleWithdrawUnstakedDeposits(u)
    BY <2>5, WithdrawUnstakedDepositsCustody
  <2>6. CASE \E new \in Users : HandleTransferOwnership(u, new)
    BY <2>6, TransferOwnershipCustody
  <2>7. CASE \E stake \in DelegatedStakes : HandleSetStakeDelegated(u, stake)
    BY <2>7, SetStakeCustody
  <2> QED BY <1>1, <2>1, <2>2, <2>3, <2>4, <2>5, <2>6, <2>7 DEF UserInstruction
<1>2. CASE FarmInstruction
  <2>1. CASE HandleRefreshFarm
    BY <2>1, RefreshFarmCustody
  <2>2. CASE HandleWithdrawSlashedAmount
    BY <2>2, WithdrawSlashedAmountCustody
  <2>3. CASE HandleInitializeReward
    BY <2>3, InitializeRewardCustody
  <2>4. CASE \E config \in FarmConfigs : HandleUpdateFarmConfig(config)
    BY <2>4, UpdateFarmConfigCustody
  <2>5. CASE \E amount \in VaultDeposits : HandleDepositToFarmVault(amount)
    BY <2>5, DepositToFarmVaultCustody
  <2>6. CASE \E amount \in VaultWithdrawals : HandleWithdrawFromFarmVault(amount)
    BY <2>6, WithdrawFromFarmVaultCustody
  <2> QED BY <1>2, <2>1, <2>2, <2>3, <2>4, <2>5, <2>6 DEF FarmInstruction
<1>3. ASSUME NEW i \in RewardIndex, RewardInstruction(i) PROVE Custody'
  <2>1. CASE \E u \in Users : HandleHarvestReward(u, i)
    BY <2>1, HarvestCustody
  <2>2. CASE \E amount \in RewardAmounts : HandleAddReward(i, amount)
    BY <2>2, AddRewardCustody
  <2>3. CASE \E amount \in RewardAmounts : HandleWithdrawReward(i, amount)
    BY <2>3, WithdrawRewardCustody
  <2>4. CASE \E config \in RewardConfigs : HandleUpdateRewardConfig(i, config)
    BY <2>4, UpdateRewardConfigCustody
  <2>5. CASE \E u \in Users, amount \in CreditAmounts : HandleRewardUserOnce(u, i, amount)
    BY <2>5, RewardUserOnceCustody
  <2>6. CASE \E amount \in RewardAmounts : HandleWithdrawTreasury(i, amount)
    BY <2>6, WithdrawTreasuryCustody
  <2> QED BY <1>3, <2>1, <2>2, <2>3, <2>4, <2>5, <2>6 DEF RewardInstruction
<1>4. CASE GlobalInstruction \/ Tick \/ UpdatePrice \/ UNCHANGED vars
  BY <1>4, WorldCustody
<1> QED BY <1>1, <1>2, <1>3, <1>4 DEF Next

(* In every reachable state the farm holds the tokens it must hand out. *)
LEMMA AlwaysCustody == Spec => []Custody
BY InitCustody, NextCustody, PTL DEF Spec

(* Every account keeps its type: no subtraction of the program's pools,      *)
(* vaults, tallies and counters that gets through its checks goes below zero.*)
THEOREM TypeCorrect == Spec => []TypeOK
<1>1. Custody => TypeOK
  BY DEF Custody
<1> QED BY <1>1, AlwaysCustody, PTL

(* The farm's vault always holds what the two pools and the penalties owe.   *)
THEOREM VaultSolvent == Spec => []VaultBacksLiabilities
<1>1. Custody => VaultBacksLiabilities
  BY DEF Custody
<1> QED BY <1>1, AlwaysCustody, PTL

(* The reward vaults always hold what is promised, but for what              *)
(* reward_user_once credited without funding it.                             *)
THEOREM RewardsFunded == Spec => []RewardsBacked
<1>1. Custody => RewardsBacked
  BY DEF Custody
<1> QED BY <1>1, AlwaysCustody, PTL

-----------------------------------------------------------------------------
(* The farm implements the custodian: its books, read as a safe and a fund   *)
(* for each reward, change exactly as tokens change hands.                   *)

(* With custody, what the books say is what the token accounts hold. *)

InSafe == IF Delegated THEN 0 ELSE farm_vault

(* The books are right. *)
LEMMA BooksAreTokens ==
  ASSUME Custody
  PROVE  BookedFunds = reward_vault /\ BookedStake = InSafe
<1>1. /\ farm \in FarmAccount /\ reward_vault \in [RewardIndex -> Nat]
      /\ credited \in [RewardIndex -> Nat]
  BY DEF Custody, TypeOK
<1>2. ASSUME NEW i \in RewardIndex
      PROVE  farm.rewards[i].rewards_available + farm.rewards[i].rewards_issued_unclaimed
               - credited[i] = reward_vault[i]
  <2>1. reward_vault[i] + credited[i] =
          farm.rewards[i].rewards_available + farm.rewards[i].rewards_issued_unclaimed
    BY DEF Custody, RewardsBacked
  <2>2. reward_vault[i] \in Nat /\ credited[i] \in Nat
    BY <1>1
  <2>3. /\ farm.rewards[i].rewards_available \in Nat
        /\ farm.rewards[i].rewards_issued_unclaimed \in Nat
    BY <1>1, RewardFields
  <2> QED BY <2>1, <2>2, <2>3
<1>3. BookedFunds = reward_vault
  BY <1>1, <1>2 DEF BookedFunds
<1> QED BY <1>3 DEF BookedStake, InSafe, Custody, VaultBacksLiabilities

(* And so after a step. *)
LEMMA BooksAreTokensPrimed ==
  ASSUME Custody'
  PROVE  BookedFunds' = reward_vault' /\ BookedStake' = InSafe'
<1>1. /\ farm' \in FarmAccount /\ reward_vault' \in [RewardIndex -> Nat]
      /\ credited' \in [RewardIndex -> Nat]
  BY DEF Custody, TypeOK
<1>2. ASSUME NEW i \in RewardIndex
      PROVE  farm'.rewards[i].rewards_available + farm'.rewards[i].rewards_issued_unclaimed
               - credited'[i] = reward_vault'[i]
  <2>1. reward_vault'[i] + credited'[i] =
          farm'.rewards[i].rewards_available + farm'.rewards[i].rewards_issued_unclaimed
    BY DEF Custody, RewardsBacked
  <2>2. reward_vault'[i] \in Nat /\ credited'[i] \in Nat
    BY <1>1
  <2>3. /\ farm'.rewards[i].rewards_available \in Nat
        /\ farm'.rewards[i].rewards_issued_unclaimed \in Nat
    BY <1>1, RewardFields
  <2> QED BY <2>1, <2>2, <2>3
<1>3. BookedFunds' = reward_vault'
  BY <1>1, <1>2 DEF BookedFunds
<1> QED BY <1>3 DEF BookedStake, InSafe, Custody, VaultBacksLiabilities

(* The tokens that change hands, and the books before and after. *)
Booked == /\ TypeOK
          /\ BookedFunds = reward_vault /\ BookedStake = InSafe
          /\ BookedFunds' = reward_vault' /\ BookedStake' = InSafe'

CustodianStep == [Custodian!Next]_(Custodian!vars)

(* An instruction that moves no token is no step of the custodian. *)
LEMMA NoTokenMoves ==
  ASSUME Booked, UNCHANGED <<stakeTokens, rewardTokens>>
  PROVE  CustodianStep
<1>1. UNCHANGED <<wallets, admin_ata, BookedStake, BookedFunds, treasury_vault>>
  BY DEF Booked, InSafe, stakeTokens, rewardTokens
<1> QED BY <1>1 DEF CustodianStep, Custodian!vars, Custodian!stakeSide, Custodian!rewardSide

(* A user pays into the vault. *)
LEMMA StakePutsIn ==
  ASSUME Booked, NEW u \in Users, NEW amount \in StakeAmounts, HandleStake(u, amount)
  PROVE  CustodianStep
<1> DEFINE n == StakedTokens(u, amount)
<1>1. /\ ~Delegated /\ n =< wallets[u] /\ wallets' = [wallets EXCEPT ![u] = @ - n]
      /\ farm_vault' = farm_vault + n /\ UNCHANGED <<admin_ata, rewardTokens>>
  BY DEF HandleStake
<1>2. n \in Nat /\ wallets \in [Users -> Nat] /\ farm_vault \in Nat
  BY StakedTokensNat DEF Booked, TypeOK
<1> HIDE DEF n
<1>3. BookedStake' = BookedStake + n /\ UNCHANGED <<admin_ata, BookedFunds, treasury_vault>>
  BY <1>1 DEF Booked, InSafe, rewardTokens
<1>4. CASE n = 0
  <2>1. UNCHANGED <<stakeTokens, rewardTokens>>
    BY <1>1, <1>2, <1>4 DEF stakeTokens
  <2> QED BY <2>1, NoTokenMoves
<1>5. CASE n # 0
  <2>1. n \in 1 .. wallets[u]
    BY <1>1, <1>2, <1>5
  <2>2. Custodian!PutIn(u)
    BY <1>1, <1>3, <2>1 DEF Custodian!PutIn, Custodian!rewardSide
  <2> QED BY <2>2 DEF CustodianStep, Custodian!Next
<1> QED BY <1>4, <1>5

(* The vault pays a user what is due. *)
LEMMA WithdrawUnstakedPaysOut ==
  ASSUME Booked, NEW u \in Users, HandleWithdrawUnstakedDeposits(u)
  PROVE  CustodianStep
<1> DEFINE n == AmountToWithdraw(Of(u))
<1>1. /\ ~Delegated /\ n =< farm_vault /\ wallets' = [wallets EXCEPT ![u] = @ + n]
      /\ farm_vault' = farm_vault - n /\ UNCHANGED <<admin_ata, rewardTokens>>
      /\ WithdrawUnstakedDepositsOk(Of(u), now)
  BY DEF HandleWithdrawUnstakedDeposits
<1>2. n \in Nat
  <2>1. Of(u) \in Accounts
    BY OfTypes DEF Booked
  <2>2. now \in Nat
    BY DEF Booked, TypeOK
  <2> QED BY <1>1, <2>1, <2>2, WithdrawUnstakedDepositsBooks
<1>3. wallets \in [Users -> Nat] /\ farm_vault \in Nat
  BY DEF Booked, TypeOK
<1> HIDE DEF n
<1>4. /\ BookedStake = farm_vault /\ BookedStake' = BookedStake - n
      /\ UNCHANGED <<admin_ata, BookedFunds, treasury_vault>>
  BY <1>1 DEF Booked, InSafe, rewardTokens
<1>5. CASE n = 0
  <2>1. UNCHANGED <<stakeTokens, rewardTokens>>
    BY <1>1, <1>3, <1>5 DEF stakeTokens
  <2> QED BY <2>1, NoTokenMoves
<1>6. CASE n # 0
  <2>1. n \in 1 .. BookedStake
    BY <1>1, <1>2, <1>3, <1>4, <1>6
  <2>2. Custodian!PayOut(u)
    BY <1>1, <1>4, <2>1 DEF Custodian!PayOut, Custodian!rewardSide
  <2> QED BY <2>2 DEF CustodianStep, Custodian!Next
<1> QED BY <1>5, <1>6

(* The admin adds to the vault. *)
LEMMA DepositSupplements ==
  ASSUME Booked, NEW amount \in VaultDeposits, HandleDepositToFarmVault(amount)
  PROVE  CustodianStep
<1>1. /\ ~Delegated /\ amount # 0 /\ amount =< admin_ata
      /\ farm_vault' = farm_vault + amount /\ admin_ata' = admin_ata - amount
      /\ UNCHANGED <<wallets, rewardTokens>>
  BY DEF HandleDepositToFarmVault
<1>2. amount \in 1 .. admin_ata
  BY <1>1, FarmAssumption DEF Booked, TypeOK
<1>3. BookedStake' = BookedStake + amount /\ UNCHANGED <<BookedFunds, treasury_vault>>
  BY <1>1 DEF Booked, InSafe, rewardTokens
<1>4. Custodian!Supplement
  BY <1>1, <1>2, <1>3 DEF Custodian!Supplement, Custodian!rewardSide
<1> QED BY <1>4 DEF CustodianStep, Custodian!Next

(* Tokens leave the vault for the authorities, penalties or not. *)
LEMMA VaultConfiscates ==
  ASSUME Booked, ~Delegated, NEW n \in Nat, n =< farm_vault,
         farm_vault' = farm_vault - n, admin_ata' = admin_ata + n,
         UNCHANGED <<wallets, rewardTokens>>
  PROVE  CustodianStep
<1>1. farm_vault \in Nat /\ admin_ata \in Nat
  BY DEF Booked, TypeOK
<1>2. /\ BookedStake = farm_vault /\ BookedStake' = BookedStake - n
      /\ UNCHANGED <<BookedFunds, treasury_vault>>
  BY DEF Booked, InSafe, rewardTokens
<1>3. CASE n = 0
  <2>1. UNCHANGED <<stakeTokens, rewardTokens>>
    BY <1>1, <1>3 DEF stakeTokens
  <2> QED BY <2>1, NoTokenMoves
<1>4. CASE n # 0
  <2>1. n \in 1 .. BookedStake
    BY <1>1, <1>2, <1>4
  <2>2. Custodian!Confiscate
    BY <1>2, <2>1 DEF Custodian!Confiscate, Custodian!rewardSide
  <2> QED BY <2>2 DEF CustodianStep, Custodian!Next
<1> QED BY <1>3, <1>4

(* A sweep of the penalties and a withdrawal of the authority. *)
LEMMA AuthoritiesConfiscate ==
  ASSUME Booked,
         HandleWithdrawSlashedAmount
           \/ \E amount \in VaultWithdrawals : HandleWithdrawFromFarmVault(amount)
  PROVE  CustodianStep
<1>1. farm \in FarmAccount
  BY DEF Booked, TypeOK
<1>2. CASE HandleWithdrawSlashedAmount
  <2>1. farm.slashed \in Nat
    BY <1>1 DEF FarmAccount
  <2> QED BY <1>2, <2>1, VaultConfiscates DEF HandleWithdrawSlashedAmount
<1>3. ASSUME NEW amount \in VaultWithdrawals, HandleWithdrawFromFarmVault(amount)
      PROVE  CustodianStep
  <2>1. WithdrawnAmount(farm, amount) \in Nat
    <3>1. amount \in Nat /\ farm.active.amount \in Nat /\ farm.pending.amount \in Nat
      BY <1>1, FarmAssumption DEF FarmAccount, Pool
    <3> QED BY <1>1, <3>1, WithdrawFarmBooks
  <2> QED BY <1>3, <2>1, VaultConfiscates DEF HandleWithdrawFromFarmVault
<1> QED BY <1>2, <1>3

(* Whoever adds a reward funds it. *)
LEMMA AddRewardFunds ==
  ASSUME Booked, NEW i \in RewardIndex, NEW amount \in RewardAmounts, HandleAddReward(i, amount)
  PROVE  CustodianStep
<1>1. /\ amount =< RewardsOutside(i)
      /\ reward_vault' = [reward_vault EXCEPT ![i] = @ + amount]
      /\ UNCHANGED <<stakeTokens, treasury_vault>>
  BY DEF HandleAddReward
<1>2. /\ amount \in Nat /\ reward_vault \in [RewardIndex -> Nat]
      /\ treasury_vault \in [RewardIndex -> Nat] /\ REWARD_SUPPLY \in Nat
  BY FarmAssumption DEF Booked, TypeOK
<1>3. /\ BookedFunds = reward_vault /\ BookedFunds' = reward_vault'
      /\ UNCHANGED <<wallets, admin_ata, BookedStake, treasury_vault>>
  BY <1>1 DEF Booked, InSafe, stakeTokens
<1>4. CASE amount = 0
  <2>1. UNCHANGED <<stakeTokens, rewardTokens>>
    BY <1>1, <1>2, <1>4 DEF rewardTokens
  <2> QED BY <2>1, NoTokenMoves
<1>5. CASE amount # 0
  <2>1. Custodian!Outside(i) = RewardsOutside(i)
    BY <1>3 DEF Custodian!Outside, RewardsOutside
  <2>2. amount \in 1 .. Custodian!Outside(i)
    <3>1. RewardsOutside(i) \in Int
      BY <1>2 DEF RewardsOutside
    <3> QED BY <1>1, <1>2, <1>5, <2>1, <3>1
  <2>3. Custodian!Fund(i)
    BY <1>1, <1>3, <2>2 DEF Custodian!Fund, Custodian!stakeSide
  <2> QED BY <2>3 DEF CustodianStep, Custodian!Next
<1> QED BY <1>4, <1>5

(* Rewards leave the vault, part of them for the treasury. *)
LEMMA VaultReleases ==
  ASSUME Booked, NEW i \in RewardIndex, NEW n \in Nat, NEW fee \in Nat, fee =< n,
         n =< reward_vault[i], reward_vault' = [reward_vault EXCEPT ![i] = @ - n],
         treasury_vault' = [treasury_vault EXCEPT ![i] = @ + fee], UNCHANGED stakeTokens
  PROVE  CustodianStep
<1>1. /\ reward_vault \in [RewardIndex -> Nat] /\ treasury_vault \in [RewardIndex -> Nat]
  BY DEF Booked, TypeOK
<1>2. /\ BookedFunds = reward_vault /\ BookedFunds' = reward_vault'
      /\ UNCHANGED <<wallets, admin_ata, BookedStake>>
  BY DEF Booked, InSafe, stakeTokens
<1>3. CASE n = 0
  <2>1. fee = 0
    BY <1>3
  <2>2. UNCHANGED <<stakeTokens, rewardTokens>>
    BY <1>1, <1>3, <2>1 DEF rewardTokens
  <2> QED BY <2>2, NoTokenMoves
<1>4. CASE n # 0
  <2>1. n \in 1 .. BookedFunds[i] /\ fee \in 0 .. n
    BY <1>1, <1>2, <1>4
  <2>2. Custodian!Release(i)
    BY <1>2, <2>1 DEF Custodian!Release, Custodian!stakeSide
  <2> QED BY <2>2 DEF CustodianStep, Custodian!Next
<1> QED BY <1>3, <1>4

(* A harvest, with the treasury's part. *)
LEMMA HarvestReleases ==
  ASSUME Booked, NEW u \in Users, NEW i \in RewardIndex, HandleHarvestReward(u, i)
  PROVE  CustodianStep
<1> DEFINE reward == HarvestedReward(Of(u), i, env)
           fee == TreasuryShare(reward, treasury_fee_bps)
<1>1. /\ HarvestOk(Of(u), i, env) /\ reward =< reward_vault[i]
      /\ reward_vault' = [reward_vault EXCEPT ![i] = @ - reward]
      /\ treasury_vault' = [treasury_vault EXCEPT ![i] = @ + fee]
      /\ UNCHANGED stakeTokens
  BY DEF HandleHarvestReward
<1>2. Of(u) \in Accounts /\ env \in Environment
  BY OfTypes DEF Booked
<1>3. reward \in Nat
  BY <1>1, <1>2, HarvestPromises
<1> HIDE DEF reward
<1>4. fee \in 0 .. reward
  <2>1. /\ treasury_fee_bps \in Nat /\ treasury_fee_bps =< BPS_DIV_FACTOR
        /\ BPS_DIV_FACTOR \in Nat \ {0}
    BY DEF Booked, TypeOK, BPS_DIV_FACTOR
  <2>2. MulDiv(treasury_fee_bps, reward, BPS_DIV_FACTOR) \in 0 .. reward
    BY <1>3, <2>1, MulDivBound
  <2>3. treasury_fee_bps * reward = reward * treasury_fee_bps
    BY <1>3, <2>1
  <2> QED BY <2>2, <2>3 DEF TreasuryShare, MulDiv
<1> HIDE DEF fee
<1>5. fee \in Nat /\ fee =< reward
  BY <1>3, <1>4
<1> QED BY <1>1, <1>3, <1>5, VaultReleases

(* A withdrawal of rewards. *)
LEMMA WithdrawRewardReleases ==
  ASSUME Booked, NEW i \in RewardIndex, NEW amount \in RewardAmounts,
         HandleWithdrawReward(i, amount)
  PROVE  CustodianStep
<1> DEFINE n == WithdrawableReward(farm, i, amount, env)
<1>1. /\ WithdrawRewardOk(farm, i, amount, env) /\ n =< reward_vault[i]
      /\ reward_vault' = [reward_vault EXCEPT ![i] = @ - n]
      /\ UNCHANGED <<stakeTokens, treasury_vault>>
  BY DEF HandleWithdrawReward
<1>2. n \in Nat
  <2>1. farm \in FarmAccount /\ amount \in Nat /\ env \in Environment
    BY FarmAssumption DEF Booked, TypeOK, env, Environment
  <2> QED BY <1>1, <2>1, WithdrawRewardPromises
<1> HIDE DEF n
<1>3. treasury_vault' = [treasury_vault EXCEPT ![i] = @ + 0]
  <2>1. treasury_vault \in [RewardIndex -> Nat]
    BY DEF Booked, TypeOK
  <2> QED BY <1>1, <2>1
<1>4. 0 \in Nat /\ 0 =< n
  BY <1>2
<1> QED BY <1>1, <1>2, <1>3, <1>4, VaultReleases

(* The global admin collects the treasury's part. *)
LEMMA WithdrawTreasuryCollects ==
  ASSUME Booked, NEW i \in RewardIndex, NEW amount \in RewardAmounts,
         HandleWithdrawTreasury(i, amount)
  PROVE  CustodianStep
<1>1. /\ amount > 0 /\ amount =< treasury_vault[i]
      /\ treasury_vault' = [treasury_vault EXCEPT ![i] = @ - amount]
      /\ UNCHANGED <<stakeTokens, reward_vault>>
  BY DEF HandleWithdrawTreasury
<1>2. amount \in 1 .. treasury_vault[i]
  BY <1>1, FarmAssumption DEF Booked, TypeOK
<1>3. UNCHANGED <<wallets, admin_ata, BookedStake, BookedFunds>>
  BY <1>1 DEF Booked, InSafe, stakeTokens
<1>4. Custodian!Collect(i)
  BY <1>1, <1>2, <1>3 DEF Custodian!Collect, Custodian!stakeSide
<1> QED BY <1>4 DEF CustodianStep, Custodian!Next

(* Every step of the farm is one of the custodian's or none. *)
LEMMA NextFollowsTokens == Booked /\ [Next]_vars => CustodianStep
<1> SUFFICES ASSUME Booked, [Next]_vars PROVE CustodianStep
  OBVIOUS
<1>1. ASSUME NEW u \in Users, UserInstruction(u) PROVE CustodianStep
  <2>1. CASE \E amount \in StakeAmounts : HandleStake(u, amount)
    BY <2>1, StakePutsIn
  <2>2. CASE HandleWithdrawUnstakedDeposits(u)
    BY <2>2, WithdrawUnstakedPaysOut
  <2>3. CASE \/ HandleInitializeUser(u) \/ HandleRefreshUserState(u)
             \/ \E shares \in UnstakeShares : HandleUnstake(u, shares)
             \/ \E new \in Users : HandleTransferOwnership(u, new)
             \/ \E stake \in DelegatedStakes : HandleSetStakeDelegated(u, stake)
    <3>1. UNCHANGED <<stakeTokens, rewardTokens>>
      BY <2>3 DEF HandleInitializeUser, HandleRefreshUserState, HandleUnstake,
                  HandleTransferOwnership, HandleSetStakeDelegated
    <3> QED BY <3>1, NoTokenMoves
  <2> QED BY <1>1, <2>1, <2>2, <2>3 DEF UserInstruction
<1>2. CASE FarmInstruction
  <2>1. CASE \E amount \in VaultDeposits : HandleDepositToFarmVault(amount)
    BY <2>1, DepositSupplements
  <2>2. CASE \/ HandleWithdrawSlashedAmount
             \/ \E amount \in VaultWithdrawals : HandleWithdrawFromFarmVault(amount)
    BY <2>2, AuthoritiesConfiscate
  <2>3. CASE \/ HandleRefreshFarm \/ HandleInitializeReward
             \/ \E config \in FarmConfigs : HandleUpdateFarmConfig(config)
    <3>1. UNCHANGED <<stakeTokens, rewardTokens>>
      BY <2>3 DEF HandleRefreshFarm, HandleInitializeReward, HandleUpdateFarmConfig
    <3> QED BY <3>1, NoTokenMoves
  <2> QED BY <1>2, <2>1, <2>2, <2>3 DEF FarmInstruction
<1>3. ASSUME NEW i \in RewardIndex, RewardInstruction(i) PROVE CustodianStep
  <2>1. CASE \E u \in Users : HandleHarvestReward(u, i)
    BY <2>1, HarvestReleases
  <2>2. CASE \E amount \in RewardAmounts : HandleAddReward(i, amount)
    BY <2>2, AddRewardFunds
  <2>3. CASE \E amount \in RewardAmounts : HandleWithdrawReward(i, amount)
    BY <2>3, WithdrawRewardReleases
  <2>4. CASE \E amount \in RewardAmounts : HandleWithdrawTreasury(i, amount)
    BY <2>4, WithdrawTreasuryCollects
  <2>5. CASE \/ \E config \in RewardConfigs : HandleUpdateRewardConfig(i, config)
             \/ \E u \in Users, amount \in CreditAmounts : HandleRewardUserOnce(u, i, amount)
    <3>1. UNCHANGED <<stakeTokens, rewardTokens>>
      BY <2>5 DEF HandleUpdateRewardConfig, HandleRewardUserOnce
    <3> QED BY <3>1, NoTokenMoves
  <2> QED BY <1>3, <2>1, <2>2, <2>3, <2>4, <2>5 DEF RewardInstruction
<1>4. CASE GlobalInstruction \/ Tick \/ UpdatePrice \/ UNCHANGED vars
  <2>1. UNCHANGED <<stakeTokens, rewardTokens>>
    BY <1>4 DEF GlobalInstruction, HandleUpdateGlobalConfig, Tick, UpdatePrice, vars
  <2> QED BY <2>1, NoTokenMoves
<1> QED BY <1>1, <1>2, <1>3, <1>4 DEF Next

(* A new farm is a custodian with nothing in keeping. *)
LEMMA InitFollowsTokens == Init => Custodian!Init
<1> SUFFICES ASSUME Init PROVE Custodian!Init
  OBVIOUS
<1>1. Custody
  BY InitCustody
<1>2. BookedFunds = reward_vault /\ BookedStake = InSafe
  BY <1>1, BooksAreTokens
<1>3. wallets \in [Users -> Nat] /\ admin_ata \in Nat
  BY <1>1 DEF Custody, TypeOK
<1> QED BY <1>2, <1>3 DEF Init, InSafe, Custodian!Init

(* The farm implements the custodian: in every instruction the books change  *)
(* by the tokens that change hands, whatever the instruction does to shares, *)
(* pools, deadlines, schedules and tallies.                                  *)
THEOREM FarmImplementsCustodian == Spec => BooksFollowTokens
<1>1. Custody /\ Custody' => Booked
  BY BooksAreTokens, BooksAreTokensPrimed DEF Booked, Custody
<1>2. Custody /\ Custody' /\ [Next]_vars => [Custodian!Next]_(Custodian!vars)
  BY <1>1, NextFollowsTokens DEF CustodianStep
<1> QED BY <1>2, InitFollowsTokens, AlwaysCustody, PTL
        DEF Spec, BooksFollowTokens, Custodian!Spec

-----------------------------------------------------------------------------
(* What leaving a pool costs and what it leaves behind, for every lock, rate *)
(* and scale: waiting never raises the penalty of leaving early, which never *)
(* takes all of an amount; rounding leaves no shares without tokens; and the *)
(* pools of a delegated farm stay what set_stake asserts.                    *)

(* A quotient grows with its dividend. *)
LEMMA QuotientMonotone ==
  ASSUME NEW a \in Nat, NEW b \in Nat, NEW d \in Nat \ {0}, a =< b
  PROVE  a \div d =< b \div d
<1> DEFINE q == a \div d
           r == b \div d
<1>1. q \in Nat /\ q * d =< a /\ r \in Nat /\ b < (r + 1) * d
  OBVIOUS
<1> HIDE DEF q, r
<1>2. ASSUME q >= r + 1 PROVE FALSE
  <2>1. q * d >= (r + 1) * d
    BY <1>1, <1>2
  <2>2. q * d \in Nat /\ (r + 1) * d \in Nat
    BY <1>1
  <2> QED BY <1>1, <2>1, <2>2
<1>3. q =< r
  BY <1>1, <1>2
<1> QED BY <1>3 DEF q, r

(* A quotient is less than b when the dividend is less than b times the      *)
(* divisor.                                                                  *)
LEMMA QuotientLess ==
  ASSUME NEW a \in Nat, NEW b \in Nat, NEW d \in Nat \ {0}, a < b * d
  PROVE  a \div d < b
<1> DEFINE q == a \div d
<1>1. q \in Nat /\ q * d =< a
  OBVIOUS
<1> HIDE DEF q
<1>2. ASSUME q >= b PROVE FALSE
  <2>1. q * d >= b * d /\ q * d \in Nat /\ b * d \in Nat
    BY <1>1, <1>2
  <2> QED BY <1>1, <2>1
<1>3. q < b
  BY <1>1, <1>2
<1> QED BY <1>3 DEF q

(* The penalty rate of a lock falls with time, to zero when the lock ends. *)
LEMMA PenaltyBpsFalls ==
  ASSUME NEW begin \in Nat, NEW duration \in Nat, NEW ts \in Nat, NEW later \in Nat,
         NEW bps \in Nat,
         ts =< later, Locked(begin, duration, ts)
  PROVE  WithdrawalPenaltyBps(begin, duration, later, bps)
           =< WithdrawalPenaltyBps(begin, duration, ts, bps)
<1>1. WithdrawalPenaltyBps(begin, duration, ts, bps) \in Nat
  <2> DEFINE rate == WithdrawalPenaltyBps(begin, duration, ts, bps)
  <2>1. rate \in 0 .. bps
    BY PenaltyBpsBound
  <2> HIDE DEF rate
  <2>2. rate \in Nat
    BY <2>1
  <2> QED BY <2>2 DEF rate
<1>2. CASE ~Locked(begin, duration, later)
  BY <1>1, <1>2 DEF WithdrawalPenaltyBps
<1>3. CASE Locked(begin, duration, later)
  <2> DEFINE x == begin + duration - later
             y == begin + duration - ts
  <2>1. duration \in Nat \ {0} /\ x \in Nat /\ y \in Nat /\ x =< y
    BY <1>3 DEF Locked
  <2>2. /\ WithdrawalPenaltyBps(begin, duration, later, bps) = (bps * x) \div duration
        /\ WithdrawalPenaltyBps(begin, duration, ts, bps) = (bps * y) \div duration
    BY <1>3 DEF WithdrawalPenaltyBps
  <2> HIDE DEF x, y
  <2>3. bps * x \in Nat /\ bps * y \in Nat /\ bps * x =< bps * y
    BY <2>1
  <2> QED BY <2>1, <2>2, <2>3, QuotientMonotone
<1> QED BY <1>2, <1>3

(* So does the penalty of an amount. *)
LEMMA PenaltyFalls ==
  ASSUME NEW begin \in Nat, NEW duration \in Nat, NEW ts \in Nat, NEW later \in Nat,
         NEW bps \in Nat,
         NEW amount \in Nat, ts =< later, Locked(begin, duration, ts)
  PROVE  EarlyWithdrawalPenalty(begin, duration, later, bps, amount)
           =< EarlyWithdrawalPenalty(begin, duration, ts, bps, amount)
<1> DEFINE x == WithdrawalPenaltyBps(begin, duration, later, bps)
           y == WithdrawalPenaltyBps(begin, duration, ts, bps)
<1>1. x \in 0 .. bps
  BY PenaltyBpsBound
<1>2. y \in 0 .. bps
  BY PenaltyBpsBound
<1>3. x =< y
  BY PenaltyBpsFalls
<1> HIDE DEF x, y
<1>4. amount * x \in Nat /\ amount * y \in Nat /\ amount * x =< amount * y
  BY <1>1, <1>2, <1>3
<1>5. MulDiv(amount, x, BPS_DIV_FACTOR) =< MulDiv(amount, y, BPS_DIV_FACTOR)
  BY <1>4, QuotientMonotone DEF MulDiv, BPS_DIV_FACTOR
<1> QED BY <1>5 DEF EarlyWithdrawalPenalty, x, y

(* A penalty that is allowed is less than what it is taken from. *)
LEMMA PenaltyLeavesSomething ==
  ASSUME NEW begin \in Nat, NEW duration \in Nat, NEW ts \in Nat, NEW bps \in Nat,
         NEW amount \in Nat \ {0},
         PenaltyOk(begin, duration, ts, bps), Locked(begin, duration, ts)
  PROVE  EarlyWithdrawalPenalty(begin, duration, ts, bps, amount) < amount
<1> DEFINE rate == WithdrawalPenaltyBps(begin, duration, ts, bps)
<1>1. rate \in 0 .. bps
  BY PenaltyBpsBound
<1>2. bps \in 1 .. BPS_DIV_FACTOR - 1
  BY DEF PenaltyOk
<1> HIDE DEF rate
<1>3. amount * rate \in Nat /\ amount * rate < amount * BPS_DIV_FACTOR
  BY <1>1, <1>2 DEF BPS_DIV_FACTOR
<1>4. MulDiv(amount, rate, BPS_DIV_FACTOR) < amount
  BY <1>3, QuotientLess DEF MulDiv, BPS_DIV_FACTOR
<1> QED BY <1>4 DEF EarlyWithdrawalPenalty, rate

-----------------------------------------------------------------------------
(* The types of the accounts are all that the penalty depends on. *)
LEMMA PenaltyOnlyShrinksIfTyped == ASSUME TypeOK PROVE PenaltyOnlyShrinks
<1> SUFFICES ASSUME NEW u \in Users, NEW shares \in UnstakeShares, NEW later \in now .. MAX_TIME,
                    farm.config.locking_mode # "None",
                    Locked(LockBegin(Of(u)), farm.config.locking_duration, now),
                    MoveToPendingWithdrawalOk(Of(u), Least(shares, users[u].active_stake), now)
             PROVE  LET part == Least(shares, users[u].active_stake)
                    IN  /\ UnstakePenalty(Of(u), part, later) =< UnstakePenalty(Of(u), part, now)
                        /\ AmountFor(part, farm.active) > 0 =>
                             UnstakePenalty(Of(u), part, now) < AmountFor(part, farm.active)
  BY DEF PenaltyOnlyShrinks, Of
<1> DEFINE part == Least(shares, users[u].active_stake)
           amount == AmountFor(part, farm.active)
           begin == LockBegin(Of(u))
           duration == farm.config.locking_duration
           bps == farm.config.locking_early_withdrawal_penalty_bps
<1>1. /\ duration \in Nat /\ bps \in Nat
      /\ farm.config.locking_start_timestamp \in Nat /\ users[u].last_stake_ts \in Nat
      /\ users[u].active_stake \in Nat /\ farm.active \in Pool
  BY DEF TypeOK, FarmAccount, FarmConfig, UserAccount
<1>2. now \in Nat /\ later \in Nat /\ now =< later
  BY FarmAssumption DEF TypeOK
<1>3. begin \in Nat
  BY <1>1 DEF LockBegin, Of
<1>4. part \in Nat
  BY <1>1, FarmAssumption, LeastNat
<1>5. amount \in Nat
  BY <1>1, <1>4, AmountForNat
<1>6. PenaltyOk(begin, duration, now, bps)
  BY DEF MoveToPendingWithdrawalOk, Of
<1>7. \A ts : UnstakePenalty(Of(u), part, ts)
                = EarlyWithdrawalPenalty(begin, duration, ts, bps, amount)
  BY DEF UnstakePenalty, Of
<1>8. Locked(begin, duration, now)
  OBVIOUS
<1> HIDE DEF part, amount, begin, duration, bps
<1>9. EarlyWithdrawalPenalty(begin, duration, later, bps, amount)
        =< EarlyWithdrawalPenalty(begin, duration, now, bps, amount)
  BY <1>1, <1>2, <1>3, <1>5, <1>8, PenaltyFalls
<1>10. amount > 0 => EarlyWithdrawalPenalty(begin, duration, now, bps, amount) < amount
  <2> SUFFICES ASSUME amount > 0
               PROVE  EarlyWithdrawalPenalty(begin, duration, now, bps, amount) < amount
    OBVIOUS
  <2>1. amount \in Nat \ {0}
    BY <1>5
  <2> QED BY <1>1, <1>2, <1>3, <1>6, <1>8, <2>1, PenaltyLeavesSomething
<1>11. /\ UnstakePenalty(Of(u), part, later) =< UnstakePenalty(Of(u), part, now)
       /\ amount > 0 => UnstakePenalty(Of(u), part, now) < amount
  BY <1>7, <1>9, <1>10
<1> QED BY <1>11 DEF part, amount

(* In every reachable state, whatever the locking mode and the changes of    *)
(* the configuration, the penalty of unstaking any part of a locked stake    *)
(* does not grow while one waits, and is less than the amount.               *)
THEOREM WaitingNeverCosts == Spec => []PenaltyOnlyShrinks
<1>1. Custody => PenaltyOnlyShrinks
  BY PenaltyOnlyShrinksIfTyped DEF Custody
<1> QED BY <1>1, AlwaysCustody, PTL

-----------------------------------------------------------------------------
(* Shares without tokens *)

(* A pool with shares has tokens, but in a farm that was emptied. *)
Backed(pool, frozen) == pool.amount = 0 /\ pool.stake > 0 => frozen

OrphanFree(f) == Backed(f.active, f.frozen) /\ Backed(f.pending, f.frozen)

(* The operation from f to g orphans no shares. *)
OrphansNone(f, g) == OrphanFree(f) => OrphanFree(g)

(* A pool has at most WAD shares per token. *)
AtPar(pool) == pool.stake =< WAD * pool.amount

PoolsAtPar(f) == AtPar(f.active) /\ AtPar(f.pending)

(* It does not touch the pools nor what set_stake asserts of them. *)
LeavesPools(f, g) ==
  /\ g.active = f.active /\ g.pending = f.pending
  /\ g.frozen = f.frozen /\ g.config = f.config

(* What becomes of one pool: its shares are neither orphaned nor cheapened. *)
KeepsPool(p, q) ==
  /\ q.amount = 0 /\ q.stake > 0 => p.amount = 0 /\ p.stake > 0
  /\ AtPar(p) => AtPar(q)

(* What becomes of a farm when its configuration is left alone. *)
KeepsPools(f, g) ==
  /\ g.config = f.config
  /\ OrphansNone(f, g)
  /\ PoolsAtPar(f) => PoolsAtPar(g)

(* No instant but ts becomes that of an issuance. *)
IssuesAt(f, g, ts) ==
  \A i \in RewardIndex :
    g.rewards[i].last_issuance_ts \in {f.rewards[i].last_issuance_ts, ts}

(* What an operation at instant ts keeps of the accounts it is given. *)
Orderly(s, t, ts) ==
  /\ KeepsPools(s.farm, t.farm)
  /\ IssuesAt(s.farm, t.farm, ts)
  /\ t.user.last_stake_ts \in {s.user.last_stake_ts, ts}

(* A pool that takes in an amount is backed by it, and asks at least a       *)
(* token for WAD shares.                                                     *)
LEMMA AddAmountKeepsPool ==
  ASSUME NEW pool \in Pool, NEW amount \in Nat
  PROVE  KeepsPool(pool, AddAmount(pool, amount))
<1> DEFINE shares == SharesFor(amount, pool)
<1>1. pool.stake \in Nat /\ pool.amount \in Nat /\ WAD \in Nat \ {0}
  BY MathAssumption DEF Pool
<1>2. /\ AddAmount(pool, amount).stake = pool.stake + shares
      /\ AddAmount(pool, amount).amount = pool.amount + amount
  BY DEF AddAmount
<1>3. ASSUME AtPar(pool) PROVE shares \in Nat /\ shares =< WAD * amount
  <2>1. CASE amount = 0
    BY <1>1, <2>1 DEF SharesFor
  <2>2. CASE amount # 0 /\ (pool.stake = 0 \/ pool.amount = 0)
    BY <1>1, <2>2 DEF SharesFor
  <2>3. CASE amount # 0 /\ pool.stake # 0 /\ pool.amount # 0
    <3>1. pool.stake * amount \in Nat /\ WAD * amount \in Nat /\ pool.amount \in Nat \ {0}
      BY <1>1, <2>3
    <3>2. pool.stake * amount =< (WAD * pool.amount) * amount
      <4>1. WAD * pool.amount \in Nat /\ pool.stake =< WAD * pool.amount
        BY <1>1, <1>3 DEF AtPar
      <4> QED BY <1>1, <4>1
    <3>3. (WAD * pool.amount) * amount = (WAD * amount) * pool.amount
      BY <1>1
    <3>4. (pool.stake * amount) \div pool.amount \in 0 .. WAD * amount
      BY <3>1, <3>2, <3>3, QuotientBound
    <3>5. shares = (pool.stake * amount) \div pool.amount
      BY <2>3 DEF SharesFor, MulDiv
    <3> QED BY <3>1, <3>4, <3>5
  <2> QED BY <2>1, <2>2, <2>3
<1>4. AtPar(pool) => AtPar(AddAmount(pool, amount))
  <2> SUFFICES ASSUME AtPar(pool) PROVE AtPar(AddAmount(pool, amount))
    OBVIOUS
  <2>1. shares \in Nat /\ shares =< WAD * amount
    BY <1>3
  <2> HIDE DEF shares
  <2>2. WAD * (pool.amount + amount) = WAD * pool.amount + WAD * amount
    BY <1>1
  <2>3. WAD * pool.amount \in Nat /\ WAD * amount \in Nat
    BY <1>1
  <2> QED BY <1>1, <1>2, <2>1, <2>2, <2>3 DEF AtPar
<1>5. CASE amount = 0
  BY <1>1, <1>2, <1>4, <1>5 DEF SharesFor, KeepsPool
<1>6. CASE amount # 0
  BY <1>1, <1>2, <1>4, <1>6 DEF KeepsPool
<1> QED BY <1>5, <1>6

(* Rounding an amount down leaves the pool at par. *)
LEMMA AmountLeavesPar ==
  ASSUME NEW stake \in Nat \ {0}, NEW amount \in Nat, NEW shares \in Nat, shares =< stake,
         NEW w \in Nat, stake =< w * amount, NEW q \in Nat, q =< amount,
         q * stake =< shares * amount
  PROVE  stake - shares =< w * (amount - q)
<1> DEFINE left == stake - shares
           kept == amount - q
<1>1. left \in Nat /\ kept \in Nat /\ w * kept \in Nat /\ w * amount \in Nat
  BY SMT
<1>2. left * amount =< stake * kept
  <2>1. left * amount = stake * amount - shares * amount
    BY SMT
  <2>2. stake * kept = stake * amount - q * stake
    BY SMT
  <2>3. stake * amount \in Nat /\ shares * amount \in Nat /\ q * stake \in Nat
    BY SMT
  <2> HIDE DEF left, kept
  <2> QED BY <2>1, <2>2, <2>3
<1> HIDE DEF left, kept
<1>3. left * stake =< left * (w * amount)
  BY <1>1
<1>4. left * (w * amount) = w * (left * amount)
  BY <1>1
<1>5. w * (left * amount) =< w * (stake * kept)
  <2>1. left * amount \in Nat /\ stake * kept \in Nat
    BY <1>1
  <2> QED BY <1>2, <2>1
<1>6. w * (stake * kept) = (w * kept) * stake
  BY <1>1
<1>7. left * stake =< (w * kept) * stake
  <2>1. /\ left * stake \in Nat /\ left * (w * amount) \in Nat
        /\ w * (left * amount) \in Nat /\ w * (stake * kept) \in Nat
    BY <1>1
  <2> QED BY <1>3, <1>4, <1>5, <1>6, <2>1
<1>8. left =< w * kept
  <2> DEFINE k == w * kept
  <2>1. k \in Nat /\ left * stake =< k * stake
    BY <1>1, <1>7
  <2> HIDE DEF k
  <2>2. left =< k
    BY <1>1, <2>1
  <2> QED BY <2>2 DEF k
<1> QED BY <1>8 DEF left, kept

(* A pool that gives up part of its shares keeps enough of its tokens. *)
LEMMA RemoveSharesKeepsPool ==
  ASSUME NEW pool \in Pool, NEW shares \in Nat, RemoveSharesOk(pool, shares)
  PROVE  KeepsPool(pool, RemoveShares(pool, shares))
<1> DEFINE q == AmountFor(shares, pool)
<1>1. pool.stake \in Nat /\ pool.amount \in Nat /\ shares =< pool.stake /\ WAD \in Nat \ {0}
  BY MathAssumption DEF Pool, RemoveSharesOk
<1>2. /\ RemoveShares(pool, shares).stake = pool.stake - shares
      /\ RemoveShares(pool, shares).amount = pool.amount - q
  BY DEF RemoveShares
<1>3. q \in 0 .. pool.amount
  BY AmountForBound
<1>4. CASE shares = 0
  BY <1>1, <1>2, <1>4 DEF AmountFor, KeepsPool, AtPar
<1>5. CASE shares # 0
  <2>1. pool.stake \in Nat \ {0} /\ shares * pool.amount \in Nat
    BY <1>1, <1>5
  <2>2. q = (shares * pool.amount) \div pool.stake
    BY <1>5, <2>1 DEF AmountFor, MulDiv
  <2>3. q * pool.stake =< shares * pool.amount
    <3> HIDE DEF q
    <3> DEFINE product == shares * pool.amount
    <3>1. product \in Nat /\ q = product \div pool.stake
      BY <2>1, <2>2
    <3> HIDE DEF product
    <3>2. q * pool.stake =< product
      BY <2>1, <3>1
    <3> QED BY <3>2 DEF product
  <2>4. pool.amount # 0 /\ shares # pool.stake => q < pool.amount
    <3> HIDE DEF q
    <3> SUFFICES ASSUME pool.amount # 0, shares # pool.stake PROVE q < pool.amount
      OBVIOUS
    <3>1. shares * pool.amount < pool.amount * pool.stake
      BY <1>1
    <3> QED BY <1>1, <2>1, <2>2, <3>1, QuotientLess
  <2> HIDE DEF q
  <2>5. AtPar(pool) => pool.stake - shares =< WAD * (pool.amount - q)
    BY <1>1, <1>3, <2>1, <2>3, AmountLeavesPar DEF AtPar
  <2> QED BY <1>1, <1>2, <1>3, <2>4, <2>5 DEF KeepsPool, AtPar
<1> QED BY <1>4, <1>5

(* Taking a fraction out of both pools leaves tokens in those that had some. *)
LEMMA WithdrawFarmBacked ==
  ASSUME NEW f \in FarmAccount, NEW amount \in Nat
  PROVE  OrphansNone(f, WithdrawFarm(f, amount))
<1> DEFINE g == WithdrawFarm(f, amount)
           total == f.active.amount + f.pending.amount
<1>1. /\ f.active \in Pool /\ f.pending \in Pool
      /\ f.active.amount \in Nat /\ f.pending.amount \in Nat
  BY FarmFields
<1>2. /\ g.active.stake = f.active.stake /\ g.pending.stake = f.pending.stake
      /\ g.active.amount = f.active.amount - FractionOf(f, amount, f.active.amount)
      /\ g.pending.amount = f.pending.amount - FractionOf(f, amount, f.pending.amount)
      /\ g.frozen <=> f.frozen \/ WithdrawsAll(f, amount)
  BY <1>1 DEF WithdrawFarm, FarmAccount, Pool
<1>3. CASE WithdrawsAll(f, amount)
  BY <1>2, <1>3 DEF OrphansNone, OrphanFree, Backed
<1>4. CASE ~WithdrawsAll(f, amount)
  <2>1. amount < total /\ total \in Nat \ {0}
    BY <1>1, <1>4 DEF WithdrawsAll
  <2>2. ASSUME NEW part \in Nat \ {0} PROVE FractionOf(f, amount, part) < part
    <3>1. part * amount \in Nat /\ part * amount < part * total
      BY <2>1
    <3> HIDE DEF total
    <3>2. (part * amount) \div total < part
      BY <2>1, <3>1, QuotientLess
    <3> QED BY <1>4, <3>2 DEF FractionOf, MulDiv, total
  <2>3. /\ FractionOf(f, amount, f.active.amount) \in 0 .. f.active.amount
        /\ FractionOf(f, amount, f.pending.amount) \in 0 .. f.pending.amount
    BY <1>1, FractionOfBound
  <2> HIDE DEF g, total
  <2>4. /\ g.active.amount = 0 => f.active.amount = 0
        /\ g.pending.amount = 0 => f.pending.amount = 0
    BY <1>1, <1>2, <2>2, <2>3
  <2>5. OrphansNone(f, g)
    BY <1>2, <2>4 DEF OrphansNone, OrphanFree, Backed
  <2> QED BY <2>5 DEF g
<1> QED BY <1>3, <1>4

(* Pools left alone are as backed and as dear as they were. *)
LEMMA LeftAloneKept ==
  ASSUME NEW f, NEW g, LeavesPools(f, g)
  PROVE  KeepsPools(f, g) /\ (DelegatedBooksBalance(f) => DelegatedBooksBalance(g))
BY DEF LeavesPools, KeepsPools, OrphansNone, OrphanFree, Backed, PoolsAtPar, DelegatedBooksBalance

(* A farm is kept when both of its pools are. *)
LEMMA PoolwiseKept ==
  ASSUME NEW f \in FarmAccount, NEW g, g.config = f.config, g.frozen = f.frozen,
         KeepsPool(f.active, g.active), KeepsPool(f.pending, g.pending)
  PROVE  KeepsPools(f, g)
BY DEF KeepsPool, KeepsPools, OrphansNone, OrphanFree, Backed, PoolsAtPar

(* A pool that is left alone is kept. *)
LEMMA SamePoolKept ==
  ASSUME NEW pool
  PROVE  KeepsPool(pool, pool)
BY DEF KeepsPool

(* Order is kept by operations one after the other. *)
LEMMA OrderlyTransitive ==
  ASSUME NEW s, NEW t, NEW v, NEW ts, Orderly(s, t, ts), Orderly(t, v, ts)
  PROVE  Orderly(s, v, ts)
BY DEF Orderly, KeepsPools, OrphansNone, IssuesAt

(* An operation that writes no instant keeps order if it keeps the pools. *)
LEMMA TimelessOrderly ==
  ASSUME NEW s, NEW t, NEW ts, KeepsPools(s.farm, t.farm), t.farm.rewards = s.farm.rewards,
         t.user.last_stake_ts = s.user.last_stake_ts
  PROVE  Orderly(s, t, ts)
BY DEF Orderly, IssuesAt

-----------------------------------------------------------------------------
(* The operations on the pools *)

(* The steps of stake_operations.rs keep order. *)
LEMMA AddPendingDepositStakeOrderly ==
  ASSUME NEW s \in Accounts, NEW amount \in Nat, NEW ts
  PROVE  Orderly(s, AddPendingDepositStake(s, amount), ts)
<1> DEFINE t == AddPendingDepositStake(s, amount)
<1>1. s.farm \in FarmAccount /\ s.user \in UserAccount /\ s.farm.pending \in Pool
  BY FarmFields DEF Accounts
<1>2. /\ t.farm.active = s.farm.active /\ t.farm.frozen = s.farm.frozen
      /\ t.farm.config = s.farm.config /\ t.farm.rewards = s.farm.rewards
      /\ t.farm.pending = AddAmount(s.farm.pending, amount)
      /\ t.user.last_stake_ts = s.user.last_stake_ts
  BY <1>1 DEF AddPendingDepositStake, FarmAccount, UserAccount
<1> HIDE DEF t
<1>3. KeepsPools(s.farm, t.farm)
  BY <1>1, <1>2, AddAmountKeepsPool, SamePoolKept, PoolwiseKept
<1>4. Orderly(s, t, ts)
  BY <1>2, <1>3, TimelessOrderly
<1> QED BY <1>4 DEF t

(* An amount that becomes active backs its shares. *)
LEMMA AddActiveStakeOrderly ==
  ASSUME NEW s \in Accounts, NEW amount \in Nat, NEW ts
  PROVE  Orderly(s, AddActiveStake(s, amount), ts)
<1> DEFINE t == AddActiveStake(s, amount)
<1>1. s.farm \in FarmAccount /\ s.user \in UserAccount /\ s.farm.active \in Pool
  BY FarmFields DEF Accounts
<1>2. /\ t.farm.pending = s.farm.pending /\ t.farm.frozen = s.farm.frozen
      /\ t.farm.config = s.farm.config /\ t.farm.rewards = s.farm.rewards
      /\ t.farm.active = AddAmount(s.farm.active, amount)
      /\ t.user.last_stake_ts = s.user.last_stake_ts
  BY <1>1 DEF AddActiveStake, FarmAccount, UserAccount
<1> HIDE DEF t
<1>3. KeepsPools(s.farm, t.farm)
  BY <1>1, <1>2, AddAmountKeepsPool, SamePoolKept, PoolwiseKept
<1>4. Orderly(s, t, ts)
  BY <1>2, <1>3, TimelessOrderly
<1> QED BY <1>4 DEF t

(* An activated deposit leaves tokens for those that still wait. *)
LEMMA ActivatePendingStakeOrderly ==
  ASSUME NEW s \in Accounts, NEW ts, ActivatePendingStakeOk(s)
  PROVE  Orderly(s, ActivatePendingStake(s), ts)
<1> DEFINE t == RemovePendingDepositStake(s)
<1>1. /\ s.farm \in FarmAccount /\ s.user \in UserAccount /\ s.farm.pending \in Pool
      /\ s.user.pending_deposit_stake \in Nat
  BY FarmFields DEF Accounts, UserAccount
<1>2. t \in Accounts /\ ActivatedAmount(s) \in Nat
  BY RemovePendingDepositStakeBooks DEF ActivatePendingStakeOk
<1>3. /\ t.farm.active = s.farm.active /\ t.farm.frozen = s.farm.frozen
      /\ t.farm.config = s.farm.config /\ t.farm.rewards = s.farm.rewards
      /\ t.farm.pending = RemoveShares(s.farm.pending, s.user.pending_deposit_stake)
      /\ t.user.last_stake_ts = s.user.last_stake_ts
  BY <1>1 DEF RemovePendingDepositStake, FarmAccount, UserAccount
<1>4. ActivatePendingStake(s) = AddActiveStake(t, ActivatedAmount(s))
  BY DEF ActivatePendingStake
<1> HIDE DEF t
<1>5. KeepsPools(s.farm, t.farm)
  BY <1>1, <1>3, RemoveSharesKeepsPool, SamePoolKept, PoolwiseKept DEF ActivatePendingStakeOk
<1>6. Orderly(s, t, ts)
  BY <1>3, <1>5, TimelessOrderly
<1> QED BY <1>2, <1>4, <1>6, AddActiveStakeOrderly, OrderlyTransitive

(* Shares that leave the active pool leave tokens for those that stay. *)
LEMMA MoveToPendingWithdrawalOrderly ==
  ASSUME NEW s \in Accounts, NEW shares \in Nat, NEW ts \in Nat,
         MoveToPendingWithdrawalOk(s, shares, ts)
  PROVE  Orderly(s, MoveToPendingWithdrawal(s, shares, ts), ts)
<1> DEFINE amount == UnstakedAmount(s, shares, ts)
           t == MoveToPendingWithdrawal(s, shares, ts)
<1>1. /\ s.farm \in FarmAccount /\ s.user \in UserAccount
      /\ s.farm.active \in Pool /\ s.farm.pending \in Pool
  BY FarmFields DEF Accounts
<1>2. amount \in Nat
  BY UnstakePenaltyBound DEF UnstakedAmount
<1>3. /\ t.farm.frozen = s.farm.frozen
      /\ t.farm.config = s.farm.config /\ t.farm.rewards = s.farm.rewards
      /\ t.farm.active = RemoveShares(s.farm.active, shares)
      /\ t.farm.pending = AddAmount(s.farm.pending, amount)
      /\ t.user.last_stake_ts = s.user.last_stake_ts
  BY <1>1 DEF MoveToPendingWithdrawal, AddPendingWithdrawalStake, RemoveActiveStake,
              FarmAccount, UserAccount
<1> HIDE DEF t, amount
<1>4. KeepsPools(s.farm, t.farm)
  BY <1>1, <1>2, <1>3, AddAmountKeepsPool, RemoveSharesKeepsPool, PoolwiseKept
  DEF MoveToPendingWithdrawalOk
<1>5. Orderly(s, t, ts)
  BY <1>3, <1>4, TimelessOrderly
<1> QED BY <1>5 DEF t

(* A withdrawal leaves tokens for those that still wait. *)
LEMMA WithdrawUnstakedDepositsOrderly ==
  ASSUME NEW s \in Accounts, NEW ts \in Nat, WithdrawUnstakedDepositsOk(s, ts)
  PROVE  Orderly(s, WithdrawUnstakedDeposits(s), ts)
<1> DEFINE t == WithdrawUnstakedDeposits(s)
<1>1. /\ s.farm \in FarmAccount /\ s.user \in UserAccount /\ s.farm.pending \in Pool
      /\ s.user.pending_withdrawal_unstake \in Nat
  BY FarmFields DEF Accounts, UserAccount
<1>2. /\ t.farm.active = s.farm.active /\ t.farm.frozen = s.farm.frozen
      /\ t.farm.config = s.farm.config /\ t.farm.rewards = s.farm.rewards
      /\ t.farm.pending = RemoveShares(s.farm.pending, s.user.pending_withdrawal_unstake)
      /\ t.user.last_stake_ts = s.user.last_stake_ts
  BY <1>1 DEF WithdrawUnstakedDeposits, RemovePendingWithdrawalStake, FarmAccount, UserAccount
<1> HIDE DEF t
<1>3. KeepsPools(s.farm, t.farm)
  BY <1>1, <1>2, RemoveSharesKeepsPool, SamePoolKept, PoolwiseKept DEF WithdrawUnstakedDepositsOk
<1>4. Orderly(s, t, ts)
  BY <1>2, <1>3, TimelessOrderly
<1> QED BY <1>4 DEF t

(* initialize_reward_ts_if_needed *)
LEMMA InitializeRewardTsOrderly ==
  ASSUME NEW f \in FarmAccount, NEW ts \in Nat
  PROVE  LET g == InitializeRewardTsIfNeeded(f, ts)
         IN  LeavesPools(f, g) /\ KeepsPools(f, g) /\ IssuesAt(f, g, ts)
<1> DEFINE g == InitializeRewardTsIfNeeded(f, ts)
<1>1. LeavesPools(f, g) /\ KeepsPools(f, g)
  <2>1. OnlyIssues(f, g)
    BY InitializeRewardTsIssues
  <2> HIDE DEF g
  <2> QED BY <2>1, LeftAloneKept DEF OnlyIssues, LeavesPools
<1>2. IssuesAt(f, g, ts)
  <2>1. CASE f.active.amount # 0
    BY <2>1 DEF InitializeRewardTsIfNeeded, IssuesAt
  <2>2. CASE ~(f.active.amount # 0)
    <3> DEFINE rewards == [i \in RewardIndex |-> IF i \in InitialisedRewards(f)
                             THEN [f.rewards[i] EXCEPT !.last_issuance_ts = ts] ELSE f.rewards[i]]
    <3>1. g.rewards = rewards
      BY <2>2 DEF InitializeRewardTsIfNeeded, FarmAccount
    <3>2. ASSUME NEW i \in RewardIndex
          PROVE  rewards[i].last_issuance_ts \in {f.rewards[i].last_issuance_ts, ts}
      BY RewardFields DEF RewardInfo
    <3> HIDE DEF g, rewards
    <3> QED BY <3>1, <3>2 DEF IssuesAt
  <2> QED BY <2>1, <2>2
<1> QED BY <1>1, <1>2

(* The tally is no business of the pools. *)
LEMMA IncreaseTallyOrderly ==
  ASSUME NEW s \in Accounts, NEW shares \in Nat, NEW ts
  PROVE  Orderly(s, IncreaseTally(s, shares), ts)
<1>1. /\ IncreaseTally(s, shares).farm = s.farm
      /\ IncreaseTally(s, shares).user.last_stake_ts = s.user.last_stake_ts
  BY DEF IncreaseTally, Accounts, UserAccount
<1> QED BY <1>1 DEF Orderly, KeepsPools, OrphansNone, IssuesAt

(* Nor is what is taken off it. *)
LEMMA ReduceTallyOrderly ==
  ASSUME NEW s \in Accounts, NEW shares \in Nat, NEW ts
  PROVE  Orderly(s, ReduceTally(s, shares), ts)
<1>1. /\ ReduceTally(s, shares).farm = s.farm
      /\ ReduceTally(s, shares).user.last_stake_ts = s.user.last_stake_ts
  BY DEF ReduceTally, Accounts, UserAccount
<1> QED BY <1>1 DEF Orderly, KeepsPools, OrphansNone, IssuesAt

(* A refresh of the stake keeps order. *)
LEMMA UserRefreshStakeOrderly ==
  ASSUME NEW s \in Accounts, NEW e \in Environment, UserRefreshStakeOk(s, e)
  PROVE  Orderly(s, UserRefreshStake(s, e), e.ts)
<1> DEFINE f == InitializeRewardTsIfNeeded(s.farm, e.ts)
           t == [s EXCEPT !.farm = f]
<1>1. /\ f \in FarmAccount /\ LeavesPools(s.farm, f)
      /\ KeepsPools(s.farm, f) /\ IssuesAt(s.farm, f, e.ts)
  BY InitializeRewardTsIssues, InitializeRewardTsOrderly DEF Accounts, Environment
<1> HIDE DEF f
<1>2. t \in Accounts /\ t.farm = f /\ t.user = s.user
  BY <1>1 DEF Accounts
<1>3. Orderly(s, t, e.ts)
  BY <1>1, <1>2 DEF Orderly
<1>4. CASE DepositMatured(s.user, e.ts)
  <2>1. ActivatePendingStakeOk(t)
    BY <1>1, <1>2, <1>4
    DEF UserRefreshStakeOk, ActivatePendingStakeOk, ActivatedAmount, LeavesPools
  <2>2. /\ ActivatePendingStake(t) \in Accounts
        /\ Orderly(t, ActivatePendingStake(t), e.ts)
    BY <1>2, <2>1, ActivatePendingStakeBooks, ActivatePendingStakeOrderly
  <2>3. ActivatedShares(t) \in Nat
    BY <1>2, SharesForNat, AmountForNat, FarmFields
    DEF ActivatedShares, ActivatedAmount, Accounts, UserAccount
  <2>4. UserRefreshStake(s, e) = IncreaseTally(ActivatePendingStake(t), ActivatedShares(t))
    BY <1>4 DEF UserRefreshStake, f
  <2> HIDE DEF t
  <2>5. Orderly(ActivatePendingStake(t), UserRefreshStake(s, e), e.ts)
    BY <2>2, <2>3, <2>4, IncreaseTallyOrderly
  <2> QED BY <1>3, <2>2, <2>5, OrderlyTransitive
<1>5. CASE ~DepositMatured(s.user, e.ts)
  <2>1. UserRefreshStake(s, e) = t
    BY <1>5 DEF UserRefreshStake, f
  <2> QED BY <1>3, <2>1
<1> QED BY <1>4, <1>5

(* refresh_global_rewards issues nothing but at its instant. *)
LEMMA RefreshGlobalRewardsOrderly ==
  ASSUME NEW f \in FarmAccount, NEW e \in Environment, RefreshGlobalRewardsOk(f, e)
  PROVE  LET g == RefreshGlobalRewards(f, e)
         IN  LeavesPools(f, g) /\ KeepsPools(f, g) /\ IssuesAt(f, g, e.ts)
<1> DEFINE g == RefreshGlobalRewards(f, e)
           rewards == [i \in RewardIndex |-> IF i \in InitialisedRewards(f)
                         THEN RefreshGlobalReward(f, f.rewards[i], e) ELSE f.rewards[i]]
<1>1. LeavesPools(f, g) /\ KeepsPools(f, g)
  <2>1. OnlyIssues(f, g)
    BY RefreshGlobalRewardsIssues
  <2> HIDE DEF g
  <2> QED BY <2>1, LeftAloneKept DEF OnlyIssues, LeavesPools
<1>2. g.rewards = rewards
  BY DEF RefreshGlobalRewards, FarmAccount
<1>3. ASSUME NEW i \in RewardIndex
      PROVE  RefreshGlobalReward(f, f.rewards[i], e).last_issuance_ts
               \in {f.rewards[i].last_issuance_ts, e.ts}
  BY RewardFields DEF RefreshGlobalReward, RewardInfo
<1>4. ASSUME NEW i \in RewardIndex
      PROVE  rewards[i].last_issuance_ts \in {f.rewards[i].last_issuance_ts, e.ts}
  BY <1>3
<1> HIDE DEF g, rewards
<1>5. IssuesAt(f, g, e.ts)
  BY <1>2, <1>4 DEF IssuesAt
<1> QED BY <1>1, <1>5 DEF g

(* So do the refreshes of one user's rewards. *)
LEMMA CountingOrderly ==
  ASSUME NEW s \in Accounts, NEW e \in Environment, NEW indices \in SUBSET RewardIndex,
         RefreshGlobalRewardsOk(s.farm, e), UserRefreshRewardOk(Issued(s, e), indices)
  PROVE  LET t == UserRefreshReward(Issued(s, e), indices)
         IN  LeavesPools(s.farm, t.farm) /\ Orderly(s, t, e.ts)
<1> DEFINE v == Issued(s, e)
           t == UserRefreshReward(v, indices)
           g == RefreshGlobalRewards(s.farm, e)
<1>1. s.farm \in FarmAccount /\ s.user \in UserAccount
  BY DEF Accounts
<1>2. /\ g \in FarmAccount /\ LeavesPools(s.farm, g)
      /\ KeepsPools(s.farm, g) /\ IssuesAt(s.farm, g, e.ts)
  BY <1>1, RefreshGlobalRewardsIssues, RefreshGlobalRewardsOrderly
<1>3. v = [farm |-> g, user |-> s.user]
  BY DEF Issued, Accounts
<1> HIDE DEF g
<1>4. v \in Accounts /\ v.farm = g /\ v.user = s.user
  BY <1>1, <1>2, <1>3 DEF Accounts
<1>5. t.farm = g
  BY <1>4, UserRefreshRewardTypes
<1>6. t.user.last_stake_ts = s.user.last_stake_ts
  <2> DEFINE tally == [i \in RewardIndex |-> IF i \in indices
                         THEN v.user.rewards_tally[i] + RewardDue(v, i) * WAD
                         ELSE v.user.rewards_tally[i]]
             unclaimed == [i \in RewardIndex |-> IF i \in indices
                             THEN v.user.rewards_issued_unclaimed[i] + RewardDue(v, i)
                             ELSE v.user.rewards_issued_unclaimed[i]]
  <2>1. t = [v EXCEPT !.user.rewards_tally = tally, !.user.rewards_issued_unclaimed = unclaimed]
    BY DEF UserRefreshReward
  <2> HIDE DEF t, v, tally, unclaimed
  <2>2. v.user.last_stake_ts = s.user.last_stake_ts /\ v.user \in UserAccount
    BY <1>1, <1>4
  <2> QED BY <1>4, <2>1, <2>2 DEF Accounts, UserAccount
<1> HIDE DEF t, v
<1>7. LeavesPools(s.farm, t.farm) /\ Orderly(s, t, e.ts)
  BY <1>2, <1>5, <1>6 DEF Orderly
<1> QED BY <1>7 DEF t, v

(* Refreshing the rewards leaves the pools alone. *)
LEMMA RefreshRewardsOrderly ==
  ASSUME NEW s \in Accounts, NEW e \in Environment, RefreshRewardsOk(s, e)
  PROVE  /\ RefreshRewards(s, e) \in Accounts
         /\ LeavesPools(s.farm, RefreshRewards(s, e).farm)
         /\ Orderly(s, RefreshRewards(s, e), e.ts)
<1>1. RefreshedIndices(s) \in SUBSET RewardIndex
  BY DEF RefreshedIndices, InitialisedRewards
<1>2. /\ RefreshGlobalRewardsOk(s.farm, e)
      /\ UserRefreshRewardOk(Issued(s, e), RefreshedIndices(s))
  BY DEF RefreshRewardsOk
<1>3. RefreshRewards(s, e) = UserRefreshReward(Issued(s, e), RefreshedIndices(s))
  BY DEF RefreshRewards
<1> QED BY <1>1, <1>2, <1>3, RefreshRewardsIssues, CountingOrderly

(* A deposit keeps order. *)
LEMMA DepositOrderly ==
  ASSUME NEW s \in Accounts, NEW amount \in Nat, NEW ts \in Nat
  PROVE  Orderly(s, Deposit(s, amount, ts), ts)
<1> DEFINE warmup == s.farm.config.deposit_warmup_period
           pending == AddPendingDepositStake(s, amount)
           waits == [pending EXCEPT !.user.pending_deposit_stake_ts = ts + warmup]
           added == AddActiveStake(s, amount)
           shares == SharesFor(amount, s.farm.active)
           starts == IncreaseTally(added, shares)
           v == Deposit(s, amount, ts)
<1>1. s.farm \in FarmAccount /\ s.user \in UserAccount /\ s.farm.active \in Pool
  BY FarmFields DEF Accounts
<1>2. ASSUME NEW t \in Accounts, Orderly(s, t, ts)
      PROVE  Orderly(s, [t EXCEPT !.user.last_stake_ts = ts], ts)
  <2>1. /\ [t EXCEPT !.user.last_stake_ts = ts].farm = t.farm
        /\ [t EXCEPT !.user.last_stake_ts = ts].user.last_stake_ts = ts
    BY DEF Accounts, UserAccount
  <2> QED BY <1>2, <2>1 DEF Orderly
<1>3. CASE warmup > 0
  <2>1. v = [waits EXCEPT !.user.last_stake_ts = ts]
    BY <1>3 DEF Deposit
  <2>2. pending \in Accounts /\ Orderly(s, pending, ts) /\ ts + warmup \in Nat
    <3>1. pending \in Accounts /\ Orderly(s, pending, ts)
      BY AddPendingDepositStakeBooks, AddPendingDepositStakeOrderly
    <3>2. ts + warmup \in Nat
      BY <1>1, FarmFields DEF FarmConfig
    <3> QED BY <3>1, <3>2
  <2> HIDE DEF pending, warmup
  <2>3. /\ waits \in Accounts /\ waits.farm = pending.farm
        /\ waits.user.last_stake_ts = pending.user.last_stake_ts
    BY <2>2 DEF Accounts, UserAccount
  <2> HIDE DEF waits, v
  <2>4. Orderly(s, waits, ts)
    BY <2>2, <2>3 DEF Orderly
  <2>5. Orderly(s, v, ts)
    BY <1>2, <2>1, <2>3, <2>4
  <2> QED BY <2>5 DEF v
<1>4. CASE ~(warmup > 0)
  <2>1. v = [starts EXCEPT !.user.last_stake_ts = ts]
    BY <1>4 DEF Deposit
  <2>2. added \in Accounts /\ shares \in Nat /\ Orderly(s, added, ts)
    BY <1>1, AddActiveStakeBooks, SharesForNat, AddActiveStakeOrderly
  <2> HIDE DEF added, shares
  <2>3. starts \in Accounts /\ Orderly(added, starts, ts)
    BY <2>2, IncreaseTallyTypes, IncreaseTallyOrderly
  <2> HIDE DEF starts, v
  <2>4. Orderly(s, starts, ts)
    BY <2>2, <2>3, OrderlyTransitive
  <2>5. Orderly(s, v, ts)
    BY <1>2, <2>1, <2>3, <2>4
  <2> QED BY <2>5 DEF v
<1> QED BY <1>3, <1>4

(* stake keeps order. *)
LEMMA StakeOrderly ==
  ASSUME NEW s \in Accounts, NEW amount \in Nat, NEW e \in Environment, StakeOk(s, amount, e)
  PROVE  Orderly(s, Stake(s, amount, e), e.ts)
<1> DEFINE t == RefreshRewards(s, e)
           r == UserRefreshStake(t, e)
<1>1. t \in Accounts /\ Orderly(s, t, e.ts)
  BY RefreshRewardsOrderly DEF StakeOk
<1>2. r \in Accounts /\ Orderly(t, r, e.ts)
  BY <1>1, UserRefreshStakeBooks, UserRefreshStakeOrderly DEF StakeOk
<1>3. Stake(s, amount, e) = Deposit(r, amount, e.ts) /\ e.ts \in Nat
  BY DEF Stake, Environment
<1> HIDE DEF t, r
<1>4. Orderly(r, Deposit(r, amount, e.ts), e.ts)
  BY <1>2, <1>3, DepositOrderly
<1>5. Orderly(s, r, e.ts)
  BY <1>1, <1>2, OrderlyTransitive
<1> QED BY <1>3, <1>4, <1>5, OrderlyTransitive

(* unstake keeps order. *)
LEMMA UnstakeOrderly ==
  ASSUME NEW s \in Accounts, NEW requested \in Nat, NEW e \in Environment,
         UnstakeOk(s, requested, e)
  PROVE  Orderly(s, Unstake(s, requested, e), e.ts)
<1> DEFINE r == RefreshRewards(s, e)
           shares == SharesToUnstake(r, requested)
           ts == e.ts
           penalty == UnstakePenalty(r, shares, ts)
           deadline == ts + r.farm.config.withdrawal_cooldown_period
           t == [r EXCEPT !.user.pending_withdrawal_unstake_ts = deadline]
           moved == MoveToPendingWithdrawal(t, shares, ts)
           booked == BookedPenalty(moved, penalty)
<1>1. r \in Accounts /\ Orderly(s, r, ts)
  BY RefreshRewardsOrderly DEF UnstakeOk
<1>2. Unstake(s, requested, e) = MoveOut(r, shares, ts) /\ MoveOutOk(r, shares, ts)
  BY DEF Unstake, UnstakeOk
<1> HIDE DEF r
<1>3. shares \in Nat /\ ts \in Nat
  BY <1>1 DEF SharesToUnstake, Least, Accounts, UserAccount, Environment
<1> HIDE DEF shares, ts
<1>4. deadline \in Nat
  BY <1>1, <1>3, FarmFields DEF Accounts, FarmConfig
<1> HIDE DEF deadline
<1>5. /\ t \in Accounts /\ t.farm = r.farm
      /\ t.user.last_stake_ts = r.user.last_stake_ts /\ t.user.active_stake = r.user.active_stake
  BY <1>1, <1>4 DEF Accounts, UserAccount
<1>6. UnstakePenalty(t, shares, ts) = penalty
  BY <1>5 DEF UnstakePenalty, LockBegin
<1>7. MoveToPendingWithdrawalOk(t, shares, ts)
  BY <1>2, <1>5, <1>6 DEF MoveOutOk, MoveToPendingWithdrawalOk, UnstakedAmount, LockBegin
<1> HIDE DEF t
<1>8. moved \in Accounts /\ Orderly(t, moved, ts)
  BY <1>3, <1>5, <1>7, MoveToPendingWithdrawalBooks, MoveToPendingWithdrawalOrderly
<1>9. penalty \in Nat
  BY <1>3, <1>5, <1>6, <1>7, UnstakePenaltyBound
<1> HIDE DEF moved, penalty
<1>10. /\ booked \in Accounts /\ LeavesPools(moved.farm, booked.farm)
       /\ booked.farm.rewards = moved.farm.rewards /\ booked.user = moved.user
  BY <1>8, <1>9, PenaltyBooked DEF LeavesPools
<1>11. MoveOut(r, shares, ts) = ReduceTally(booked, shares)
  BY DEF MoveOut, booked, BookedPenalty, moved, t, penalty, deadline
<1> HIDE DEF booked
<1>12. Orderly(booked, ReduceTally(booked, shares), ts)
  BY <1>3, <1>10, ReduceTallyOrderly
<1>13. Orderly(moved, booked, ts)
  BY <1>10, LeftAloneKept, TimelessOrderly
<1>14. Orderly(r, moved, ts)
  BY <1>5, <1>8 DEF Orderly
<1>15. Orderly(s, moved, ts) /\ Orderly(moved, ReduceTally(booked, shares), ts)
  BY <1>1, <1>12, <1>13, <1>14, OrderlyTransitive
<1>16. Orderly(s, ReduceTally(booked, shares), ts)
  BY <1>15, OrderlyTransitive
<1> QED BY <1>2, <1>11, <1>16 DEF ts

(* A refresh of a user keeps order, and leaves the pools of a delegated farm *)
(* alone.                                                                    *)
LEMMA UserRefreshStateOrderly ==
  ASSUME NEW s \in Accounts, NEW e \in Environment, UserRefreshStateOk(s, e)
  PROVE  /\ Orderly(s, UserRefreshState(s, e), e.ts)
         /\ Delegated => LeavesPools(s.farm, UserRefreshState(s, e).farm)
<1> DEFINE t == RefreshRewards(s, e)
<1>1. t \in Accounts /\ LeavesPools(s.farm, t.farm) /\ Orderly(s, t, e.ts)
  BY RefreshRewardsOrderly DEF UserRefreshStateOk
<1>2. CASE Delegated
  BY <1>1, <1>2 DEF UserRefreshState
<1>3. CASE ~Delegated
  <2>1. UserRefreshStakeOk(t, e) /\ UserRefreshState(s, e) = UserRefreshStake(t, e)
    BY <1>3 DEF UserRefreshStateOk, UserRefreshState
  <2> HIDE DEF t
  <2>2. Orderly(t, UserRefreshStake(t, e), e.ts)
    BY <1>1, <2>1, UserRefreshStakeOrderly
  <2> QED BY <1>1, <1>3, <2>1, <2>2, OrderlyTransitive
<1> QED BY <1>2, <1>3

(* A delegated farm whose books balance has one token per share. *)
LEMMA DelegatedKept ==
  ASSUME NEW f \in FarmAccount, DelegatedBooksBalance(f)
  PROVE  OrphanFree(f) /\ PoolsAtPar(f)
<1>1. f.active.stake \in Nat /\ f.active.amount = f.active.stake /\ f.pending = EmptyPool
  BY FarmFields DEF DelegatedBooksBalance
<1>2. f.active.amount =< WAD * f.active.amount
  BY <1>1, MathAssumption
<1>3. OrphanFree(f)
  BY <1>1 DEF OrphanFree, Backed, EmptyPool
<1> QED BY <1>1, <1>2, <1>3, MathAssumption DEF PoolsAtPar, AtPar, EmptyPool

(* set_stake leaves the farm as it asserts to find it. *)
LEMMA SetStakeBalances ==
  ASSUME NEW s \in Accounts, NEW new_stake \in Nat, NEW e \in Environment,
         SetStakeOk(s, new_stake, e)
  PROVE  /\ DelegatedBooksBalance(SetStake(s, new_stake, e).farm)
         /\ Orderly(s, SetStake(s, new_stake, e), e.ts)
<1> DEFINE t == SetStake(s, new_stake, e)
<1>1. DelegatedBooksBalance(s.farm) /\ s.farm \in FarmAccount /\ s.user \in UserAccount
  BY DEF SetStakeOk, Accounts
<1>2. CASE new_stake = s.user.active_stake
  <2>1. t = s
    BY <1>2 DEF SetStake
  <2> QED BY <1>1, <2>1 DEF Orderly, KeepsPools, OrphansNone, IssuesAt
<1>3. CASE new_stake # s.user.active_stake
  <2> DEFINE r == RefreshRewards(s, WithoutPrice(e))
             f == IF StakeIncreases(s, new_stake)
                  THEN InitializeRewardTsIfNeeded(r.farm, e.ts) ELSE r.farm
             old == s.user.active_stake
             risen == [f EXCEPT !.active.stake = @ + new_stake - old]
             g == [f EXCEPT !.active.stake = @ + new_stake - old,
                            !.active.amount = @ + new_stake - old]
             tally == [i \in RewardIndex |->
                         IF i \in InitialisedRewards(f)
                         THEN f.rewards[i].reward_per_share_scaled * new_stake
                         ELSE r.user.rewards_tally[i]]
  <2>1. e.ts \in Nat /\ WithoutPrice(e) \in Environment /\ WithoutPrice(e).ts = e.ts
    BY DEF Environment, Price, WithoutPrice
  <2>2. RefreshRewardsOk(s, WithoutPrice(e))
    BY <1>3 DEF SetStakeOk
  <2>3. r \in Accounts /\ LeavesPools(s.farm, r.farm) /\ Orderly(s, r, e.ts)
    BY <2>1, <2>2, RefreshRewardsOrderly
  <2>4. t = [farm |-> g,
             user |-> [r.user EXCEPT
                         !.active_stake = new_stake,
                         !.last_stake_ts = IF StakeIncreases(s, new_stake) THEN e.ts ELSE @,
                         !.rewards_tally = tally]]
    BY <1>3 DEF SetStake
  <2> HIDE DEF r, tally
  <2>5. f \in FarmAccount /\ LeavesPools(r.farm, f) /\ IssuesAt(r.farm, f, e.ts)
    BY <2>1, <2>3, InitializeRewardTsIssues, InitializeRewardTsOrderly
    DEF Accounts, LeavesPools, IssuesAt
  <2> HIDE DEF f
  <2>6. DelegatedBooksBalance(f)
    BY <1>1, <2>3, <2>5, LeftAloneKept
  <2>7. f.active \in Pool
    BY <2>5, FarmFields
  <2>8. /\ risen.active.stake = f.active.stake + new_stake - old
        /\ risen.active.amount = f.active.amount
        /\ risen.pending = f.pending /\ risen.config = f.config /\ risen.rewards = f.rewards
    BY <2>5, <2>7 DEF FarmAccount, Pool
  <2>9. /\ g.active.stake = f.active.stake + new_stake - old
        /\ g.active.amount = f.active.amount + new_stake - old
        /\ g.pending = f.pending /\ g.config = f.config /\ g.rewards = f.rewards
    BY <2>5, <2>7, <2>8 DEF FarmAccount, Pool
  <2>10. t.user.last_stake_ts \in {r.user.last_stake_ts, e.ts}
    <3>1. r.user \in UserAccount
      BY <2>3 DEF Accounts
    <3>2. t.user.last_stake_ts
            = IF StakeIncreases(s, new_stake) THEN e.ts ELSE r.user.last_stake_ts
      <4> HIDE DEF t
      <4> QED BY <2>4, <3>1 DEF UserAccount
    <3> HIDE DEF t
    <3> QED BY <3>2
  <2>11. t.farm = g
    BY <2>4
  <2>12. t \in Accounts
    BY SetStakeTypes
  <2> HIDE DEF g, t
  <2>13. DelegatedBooksBalance(t.farm)
    BY <2>6, <2>9, <2>11 DEF DelegatedBooksBalance
  <2>14. OrphanFree(t.farm) /\ PoolsAtPar(t.farm)
    BY <2>12, <2>13, DelegatedKept DEF Accounts
  <2>15. IssuesAt(s.farm, t.farm, e.ts) /\ t.user.last_stake_ts \in {s.user.last_stake_ts, e.ts}
    BY <2>3, <2>5, <2>9, <2>10, <2>11 DEF Orderly, IssuesAt
  <2>16. t.farm.config = s.farm.config
    BY <2>3, <2>5, <2>9, <2>11 DEF LeavesPools
  <2>17. Orderly(s, t, e.ts)
    BY <2>14, <2>15, <2>16 DEF Orderly, KeepsPools, OrphansNone
  <2> QED BY <2>13, <2>17 DEF t
<1> QED BY <1>2, <1>3

-----------------------------------------------------------------------------
(* The operations on the rewards do not touch the pools. *)

(* refresh_global_rewards and what is done with a reward after it. *)
LEMMA RewardOperationsLeavePools ==
  ASSUME NEW f \in FarmAccount, NEW i \in RewardIndex, NEW e \in Environment,
         RefreshGlobalRewardsOk(f, e), NEW amount \in Nat, NEW config
  PROVE  \A g \in {RefreshGlobalRewards(f, e), AddReward(f, i, amount, e),
                    WithdrawReward(f, i, amount, e), UpdateRewardConfig(f, i, config, e)} :
           LeavesPools(f, g) /\ IssuesAt(f, g, e.ts)
<1> DEFINE g == RefreshGlobalRewards(f, e)
           x == WithdrawableReward(f, i, amount, e)
           Fine(h) == LeavesPools(f, h) /\ IssuesAt(f, h, e.ts)
<1>1. g \in FarmAccount /\ Fine(g)
  BY RefreshGlobalRewardsIssues, RefreshGlobalRewardsOrderly
<1>2. /\ AddReward(f, i, amount, e) = [g EXCEPT !.rewards[i].rewards_available = @ + amount]
      /\ WithdrawReward(f, i, amount, e) = [g EXCEPT !.rewards[i].rewards_available = @ - x]
      /\ UpdateRewardConfig(f, i, config, e)
           = [g EXCEPT !.rewards[i].config = config, !.rewards[i].last_issuance_ts = e.ts]
  BY DEF AddReward, WithdrawReward, UpdateRewardConfig
<1> HIDE DEF g, x
<1>3. ASSUME NEW n PROVE Fine([g EXCEPT !.rewards[i].rewards_available = n])
  <2> DEFINE h == [g EXCEPT !.rewards[i].rewards_available = n]
  <2>1. LeavesPools(g, h)
    BY <1>1 DEF FarmAccount, LeavesPools
  <2>2. ASSUME NEW j \in RewardIndex
        PROVE  h.rewards[j].last_issuance_ts = g.rewards[j].last_issuance_ts
    BY <1>1 DEF FarmAccount, RewardInfo
  <2> HIDE DEF h
  <2>3. Fine(h)
    BY <1>1, <2>1, <2>2 DEF LeavesPools, IssuesAt
  <2> QED BY <2>3 DEF h
<1>4. Fine(UpdateRewardConfig(f, i, config, e))
  <2> DEFINE v == [g EXCEPT !.rewards[i].config = config]
             h == [v EXCEPT !.rewards[i].last_issuance_ts = e.ts]
  <2>1. LeavesPools(g, v)
    BY <1>1 DEF FarmAccount, LeavesPools
  <2>2. LeavesPools(v, h)
    BY <1>1 DEF FarmAccount, LeavesPools
  <2>3. ASSUME NEW j \in RewardIndex
        PROVE  h.rewards[j].last_issuance_ts = IF j = i THEN e.ts ELSE g.rewards[j].last_issuance_ts
    BY <1>1 DEF FarmAccount, RewardInfo
  <2>4. UpdateRewardConfig(f, i, config, e) = h
    BY <1>2
  <2> HIDE DEF v, h
  <2> QED BY <1>1, <2>1, <2>2, <2>3, <2>4 DEF LeavesPools, IssuesAt
<1>5. Fine(AddReward(f, i, amount, e)) /\ Fine(WithdrawReward(f, i, amount, e))
  BY <1>2, <1>3
<1> QED BY <1>1, <1>4, <1>5 DEF g

(* initialize_reward fills the next slot. *)
LEMMA InitializeRewardLeavesPools ==
  ASSUME NEW f \in FarmAccount, NEW ts
  PROVE  LeavesPools(f, InitializeReward(f, ts)) /\ IssuesAt(f, InitializeReward(f, ts), ts)
<1> DEFINE n == f.num_reward_tokens
           v == [f EXCEPT !.rewards[n].rewards_available = 0]
           w == [v EXCEPT !.rewards[n].last_issuance_ts = ts]
           g == [w EXCEPT !.num_reward_tokens = @ + 1]
<1>1. LeavesPools(f, v)
  BY DEF FarmAccount, LeavesPools
<1>2. LeavesPools(v, w)
  BY DEF FarmAccount, LeavesPools
<1>3. LeavesPools(w, g)
  BY DEF FarmAccount, LeavesPools
<1>4. ASSUME NEW j \in RewardIndex
      PROVE  g.rewards[j].last_issuance_ts \in {f.rewards[j].last_issuance_ts, ts}
  <2>1. /\ v.rewards[j].last_issuance_ts = f.rewards[j].last_issuance_ts
        /\ DOMAIN v.rewards = RewardIndex /\ g.rewards = w.rewards
        /\ "last_issuance_ts" \in DOMAIN v.rewards[j]
    BY DEF FarmAccount, RewardInfo
  <2>2. w.rewards[j].last_issuance_ts \in {v.rewards[j].last_issuance_ts, ts}
    BY DEF FarmAccount, RewardInfo
  <2> HIDE DEF v, w, g
  <2> QED BY <2>1, <2>2
<1>5. InitializeReward(f, ts) = g
  BY DEF InitializeReward
<1> HIDE DEF v, w, g
<1> QED BY <1>1, <1>2, <1>3, <1>4, <1>5 DEF LeavesPools, IssuesAt

(* harvest *)
LEMMA HarvestLeavesPools ==
  ASSUME NEW s \in Accounts, NEW i \in RewardIndex, NEW e \in Environment, HarvestOk(s, i, e)
  PROVE  LeavesPools(s.farm, Harvest(s, i, e).farm) /\ Orderly(s, Harvest(s, i, e), e.ts)
<1> DEFINE r == RefreshOne(s, i, e)
           reward == HarvestedReward(s, i, e)
           t == Harvest(s, i, e)
           paid == [r EXCEPT !.farm.rewards[i].rewards_issued_unclaimed = @ - reward]
           cleared == [paid EXCEPT !.user.rewards_issued_unclaimed[i] = 0]
           claimed == [cleared EXCEPT !.user.last_claim_ts[i] = e.ts]
<1>1. r \in Accounts /\ LeavesPools(s.farm, r.farm) /\ Orderly(s, r, e.ts)
  <2>1. /\ {i} \in SUBSET RewardIndex /\ RefreshGlobalRewardsOk(s.farm, e)
        /\ UserRefreshRewardOk(Issued(s, e), {i})
        /\ r = UserRefreshReward(Issued(s, e), {i})
    BY DEF HarvestOk, RefreshOne
  <2> QED BY <2>1, RefreshOneIssues, CountingOrderly
<1>2. t = IF reward = 0 THEN r ELSE claimed
  BY DEF Harvest
<1> HIDE DEF r, reward, t
<1>3. r.farm \in FarmAccount /\ r.user \in UserAccount
  BY <1>1 DEF Accounts
<1>4. /\ paid = [farm |-> paid.farm, user |-> r.user]
      /\ paid.farm = [r.farm EXCEPT !.rewards[i].rewards_issued_unclaimed = @ - reward]
  BY <1>1 DEF Accounts
<1> HIDE DEF paid
<1>5. LeavesPools(r.farm, paid.farm)
  BY <1>3, <1>4 DEF FarmAccount, LeavesPools
<1>6. ASSUME NEW j \in RewardIndex
      PROVE  paid.farm.rewards[j].last_issuance_ts = r.farm.rewards[j].last_issuance_ts
  BY <1>3, <1>4 DEF FarmAccount, RewardInfo
<1>7. /\ cleared = [farm |-> paid.farm, user |-> cleared.user]
      /\ cleared.user = [r.user EXCEPT !.rewards_issued_unclaimed[i] = 0]
  BY <1>4
<1> HIDE DEF cleared
<1>8. claimed.farm = paid.farm /\ claimed.user = [cleared.user EXCEPT !.last_claim_ts[i] = e.ts]
  BY <1>7
<1>9. claimed.user.last_stake_ts = r.user.last_stake_ts
  BY <1>3, <1>7, <1>8 DEF UserAccount
<1> HIDE DEF claimed
<1>10. LeavesPools(s.farm, t.farm)
  BY <1>1, <1>2, <1>5, <1>8 DEF LeavesPools
<1>11. Orderly(s, t, e.ts)
  <2>1. KeepsPools(s.farm, t.farm)
    BY <1>10, LeftAloneKept
  <2>2. IssuesAt(s.farm, t.farm, e.ts) /\ t.user.last_stake_ts \in {s.user.last_stake_ts, e.ts}
    BY <1>1, <1>2, <1>6, <1>8, <1>9 DEF Orderly, IssuesAt
  <2> QED BY <2>1, <2>2 DEF Orderly
<1> QED BY <1>10, <1>11 DEF t

(* reward_user_once *)
LEMMA RewardUserOnceLeavesPools ==
  ASSUME NEW s \in Accounts, NEW i \in RewardIndex, NEW amount, NEW ts
  PROVE  /\ LeavesPools(s.farm, RewardUserOnce(s, i, amount).farm)
         /\ Orderly(s, RewardUserOnce(s, i, amount), ts)
<1> DEFINE t == RewardUserOnce(s, i, amount)
           q == CreditedReward(s, i, amount)
<1>1. s.farm \in FarmAccount /\ s.user \in UserAccount
  BY DEF Accounts
<1>2. /\ t.farm = [s.farm EXCEPT !.rewards[i] = q]
      /\ t.user = [s.user EXCEPT !.rewards_issued_unclaimed[i] = @ + amount]
      /\ q.last_issuance_ts = s.farm.rewards[i].last_issuance_ts
  BY RewardUserOnceCredits
<1> HIDE DEF t, q
<1>3. LeavesPools(s.farm, t.farm)
  BY <1>1, <1>2 DEF FarmAccount, LeavesPools
<1>4. ASSUME NEW j \in RewardIndex
      PROVE  t.farm.rewards[j].last_issuance_ts = s.farm.rewards[j].last_issuance_ts
  BY <1>1, <1>2 DEF FarmAccount
<1>5. t.user.last_stake_ts = s.user.last_stake_ts
  BY <1>1, <1>2 DEF UserAccount
<1>6. Orderly(s, t, ts)
  BY <1>3, <1>4, <1>5, LeftAloneKept DEF Orderly, IssuesAt
<1> QED BY <1>3, <1>6 DEF t

-----------------------------------------------------------------------------
(* Each instruction keeps the pools backed and a delegated farm balanced;    *)
(* it sells no share below par, and what it dates it dates with the clock.   *)

Balanced ==
  /\ OrphanFree(farm)
  /\ Delegated => DelegatedBooksBalance(farm) /\ farm_vault = 0

(* What a farm may be configured to. *)
Configurations == {f.config : f \in InitFarms} \cup FarmConfigs

(* The clock is within its bound, and nothing that happened lies ahead of it. *)
Timely ==
  /\ now =< MAX_TIME
  /\ farm.config \in Configurations
  /\ \A i \in RewardIndex : farm.rewards[i].last_issuance_ts =< now
  /\ \A u \in Users : users[u].last_stake_ts =< now

(* Inductive together with the types. *)
PoolInv == TypeOK /\ Balanced /\ Timely

(* Both hold after the step, which sold no share below par. *)
KeepsOrder == Balanced' /\ Timely' /\ (PoolsAtPar(farm) => PoolsAtPar(farm'))

(* A step dates what it dates with the clock. *)
LEMMA StepTimely ==
  ASSUME TypeOK, Timely, UNCHANGED now, IssuesAt(farm, farm', now),
         farm'.config \in Configurations,
         \A u \in Users : users'[u].last_stake_ts \in {users[u].last_stake_ts, now}
  PROVE  Timely'
<1>1. now \in Nat
  BY DEF TypeOK
<1>2. ASSUME NEW i \in RewardIndex PROVE farm'.rewards[i].last_issuance_ts =< now
  BY <1>1 DEF Timely, IssuesAt
<1>3. ASSUME NEW u \in Users PROVE users'[u].last_stake_ts =< now
  BY <1>1 DEF Timely
<1> QED BY <1>2, <1>3 DEF Timely, Configurations

(* A step that orphans no shares and leaves a delegated farm in balance. *)
LEMMA StepBalanced ==
  ASSUME Balanced, OrphansNone(farm, farm'),
         Delegated => DelegatedBooksBalance(farm') /\ farm_vault' = 0
  PROVE  Balanced'
<1>1. OrphanFree(farm')
  BY DEF Balanced, OrphansNone
<1> QED BY <1>1 DEF Balanced, OrphanFree, Backed, DelegatedBooksBalance

(* An operation in order on the farm and on one of its users. *)
LEMMA OwnStepKept ==
  ASSUME PoolInv, NEW u \in Users, NEW t, Becomes(u, t), Orderly(Of(u), t, now),
         UNCHANGED now, Delegated => DelegatedBooksBalance(t.farm) /\ farm_vault' = 0
  PROVE  KeepsOrder
<1>1. /\ TypeOK /\ Balanced /\ Timely
      /\ KeepsPools(farm, farm') /\ IssuesAt(farm, farm', now) /\ farm' = t.farm
      /\ t.user.last_stake_ts \in {users[u].last_stake_ts, now}
  BY DEF PoolInv, Becomes, Orderly, Of
<1>2. Balanced'
  BY <1>1, StepBalanced DEF KeepsPools
<1>3. \A v \in Users : users'[v].last_stake_ts \in {users[v].last_stake_ts, now}
  BY <1>1 DEF Becomes, TypeOK
<1>4. farm'.config \in Configurations
  BY <1>1 DEF KeepsPools, Timely
<1>5. Timely'
  BY <1>1, <1>3, <1>4, StepTimely
<1> QED BY <1>1, <1>2, <1>5 DEF KeepsOrder, KeepsPools

(* One that leaves the users, the pools and the farm tokens alone. *)
LEMMA LeftAloneStepKept ==
  ASSUME PoolInv, LeavesPools(farm, farm'), IssuesAt(farm, farm', now),
         UNCHANGED now, UNCHANGED users, UNCHANGED farm_vault
  PROVE  KeepsOrder
<1>1. /\ TypeOK /\ Balanced /\ Timely /\ KeepsPools(farm, farm')
      /\ Delegated => DelegatedBooksBalance(farm') /\ farm_vault' = 0
  BY LeftAloneKept DEF PoolInv, Balanced
<1>2. Balanced' /\ farm'.config \in Configurations
  BY <1>1, StepBalanced DEF KeepsPools, Timely
<1>3. \A v \in Users : users'[v].last_stake_ts \in {users[v].last_stake_ts, now}
  OBVIOUS
<1>4. Timely'
  BY <1>1, <1>2, <1>3, StepTimely
<1> QED BY <1>1, <1>2, <1>4 DEF KeepsOrder, KeepsPools

(* The instructions of a user on the user's own account. *)
LEMMA UserInstructionKept ==
  ASSUME PoolInv, NEW u \in Users,
         \/ HandleInitializeUser(u)
         \/ HandleRefreshUserState(u)
         \/ \E amount \in StakeAmounts : HandleStake(u, amount)
         \/ \E shares \in UnstakeShares : HandleUnstake(u, shares)
         \/ HandleWithdrawUnstakedDeposits(u)
         \/ \E stake \in DelegatedStakes : HandleSetStakeDelegated(u, stake)
  PROVE  KeepsOrder
<1>1. /\ TypeOK /\ Of(u) \in Accounts /\ Of(u).farm = farm /\ now \in Nat
      /\ env \in Environment /\ env.ts = now
  BY OfTypes DEF PoolInv, TypeOK, env
<1>2. CASE HandleInitializeUser(u)
  <2> DEFINE t == [farm |-> farm, user |-> InitializeUser(users[u], now)]
  <2>1. Becomes(u, t) /\ UNCHANGED now /\ UNCHANGED farm_vault
    BY <1>2 DEF HandleInitializeUser, Becomes, stakeTokens, environment
  <2>2. t.user.last_stake_ts = users[u].last_stake_ts /\ t.farm = farm
    BY <1>1 DEF InitializeUser, TypeOK, UserAccount
  <2>3. LeavesPools(farm, farm)
    BY DEF LeavesPools
  <2>4. Orderly(Of(u), t, now)
    BY <2>2, <2>3, LeftAloneKept, TimelessOrderly DEF Of
  <2>5. Delegated => DelegatedBooksBalance(t.farm) /\ farm_vault' = 0
    BY <2>1, <2>2 DEF PoolInv, Balanced
  <2> HIDE DEF t
  <2> QED BY <2>1, <2>4, <2>5, OwnStepKept
<1>3. CASE HandleRefreshUserState(u)
  <2> DEFINE t == UserRefreshState(Of(u), env)
  <2>1. /\ UserRefreshStateOk(Of(u), env) /\ Becomes(u, t)
        /\ UNCHANGED now /\ UNCHANGED farm_vault
    BY <1>3 DEF HandleRefreshUserState, stakeTokens, environment
  <2>2. Orderly(Of(u), t, now) /\ (Delegated => LeavesPools(farm, t.farm))
    BY <1>1, <2>1, UserRefreshStateOrderly
  <2>3. Delegated => DelegatedBooksBalance(t.farm) /\ farm_vault' = 0
    BY <2>1, <2>2, LeftAloneKept DEF PoolInv, Balanced
  <2> HIDE DEF t
  <2> QED BY <2>1, <2>2, <2>3, OwnStepKept
<1>4. ASSUME NEW amount \in StakeAmounts, HandleStake(u, amount) PROVE KeepsOrder
  <2> DEFINE tokens == StakedTokens(u, amount)
             t == Stake(Of(u), tokens, env)
  <2>1. ~Delegated /\ StakeOk(Of(u), tokens, env) /\ Becomes(u, t) /\ UNCHANGED now
    BY <1>4 DEF HandleStake, environment
  <2>2. tokens \in Nat
    BY <1>1, StakedTokensNat
  <2> HIDE DEF tokens
  <2>3. Orderly(Of(u), t, now)
    BY <1>1, <2>1, <2>2, StakeOrderly
  <2> HIDE DEF t
  <2> QED BY <2>1, <2>3, OwnStepKept
<1>5. ASSUME NEW shares \in UnstakeShares, HandleUnstake(u, shares) PROVE KeepsOrder
  <2> DEFINE t == Unstake(Of(u), shares, env)
  <2>1. ~Delegated /\ UnstakeOk(Of(u), shares, env) /\ Becomes(u, t) /\ UNCHANGED now
    BY <1>5 DEF HandleUnstake, environment
  <2>2. shares \in Nat
    BY FarmAssumption
  <2>3. Orderly(Of(u), t, now)
    BY <1>1, <2>1, <2>2, UnstakeOrderly
  <2> HIDE DEF t
  <2> QED BY <2>1, <2>3, OwnStepKept
<1>6. CASE HandleWithdrawUnstakedDeposits(u)
  <2> DEFINE t == WithdrawUnstakedDeposits(Of(u))
  <2>1. /\ ~Delegated /\ WithdrawUnstakedDepositsOk(Of(u), now)
        /\ Becomes(u, t) /\ UNCHANGED now
    BY <1>6 DEF HandleWithdrawUnstakedDeposits, environment
  <2>2. Orderly(Of(u), t, now)
    BY <1>1, <2>1, WithdrawUnstakedDepositsOrderly
  <2> HIDE DEF t
  <2> QED BY <2>1, <2>2, OwnStepKept
<1>7. ASSUME NEW stake \in DelegatedStakes, HandleSetStakeDelegated(u, stake) PROVE KeepsOrder
  <2> DEFINE t == SetStake(Of(u), stake, env)
  <2>1. /\ Delegated /\ SetStakeOk(Of(u), stake, env) /\ Becomes(u, t)
        /\ UNCHANGED now /\ UNCHANGED farm_vault
    BY <1>7 DEF HandleSetStakeDelegated, stakeTokens, environment
  <2>2. stake \in Nat
    BY FarmAssumption
  <2>3. DelegatedBooksBalance(t.farm) /\ Orderly(Of(u), t, now)
    BY <1>1, <2>1, <2>2, SetStakeBalances
  <2>4. farm_vault' = 0
    BY <2>1 DEF PoolInv, Balanced
  <2> HIDE DEF t
  <2> QED BY <2>1, <2>3, <2>4, OwnStepKept
<1> QED BY <1>2, <1>3, <1>4, <1>5, <1>6, <1>7

(* transfer_ownership: an unstake, a withdrawal and a stake. *)
LEMMA TransferOwnershipKept ==
  ASSUME PoolInv, NEW old \in Users, NEW new \in Users, HandleTransferOwnership(old, new)
  PROVE  KeepsOrder
<1> DEFINE s == Of(old)
           shares == users[old].active_stake
           out == TransferUnstaked(old)
           paid == TransferWithdrawn(old)
           amount == TransferredAmount(old)
           heir == [farm |-> paid.farm, user |-> Heir(new)]
           moved == Stake(heir, amount, env)
<1>1. /\ TypeOK /\ Balanced /\ Timely /\ now \in Nat
      /\ farm \in FarmAccount /\ users \in [Users -> UserAccount]
  BY DEF PoolInv, TypeOK
<1>2. /\ s \in Accounts /\ s.farm = farm /\ s.user = users[old]
      /\ env \in Environment /\ env.ts = now
  BY <1>1, OfTypes DEF Of, env
<1>3. /\ ~Delegated /\ UNCHANGED now
      /\ UnstakeOk(s, shares, env)
      /\ WithdrawUnstakedDepositsOk(out, now)
      /\ StakeOk(heir, amount, env)
      /\ farm' = moved.farm
      /\ users' = [users EXCEPT ![old] = paid.user, ![new] = moved.user]
  BY DEF HandleTransferOwnership, environment
<1>4. /\ out = Unstake(s, shares, env)
      /\ paid = WithdrawUnstakedDeposits(out) /\ amount = AmountToWithdraw(out)
  BY DEF TransferUnstaked, TransferWithdrawn, TransferredAmount
<1>5. shares \in Nat
  BY <1>1 DEF UserAccount
<1> HIDE DEF s, shares, out, paid, amount
<1>6. out \in Accounts /\ Orderly(s, out, now)
  BY <1>2, <1>3, <1>4, <1>5, UnstakeBooks, UnstakeOrderly
<1>7. paid \in Accounts /\ amount \in Nat /\ Orderly(out, paid, now)
  BY <1>1, <1>3, <1>4, <1>6, WithdrawUnstakedDepositsBooks, WithdrawUnstakedDepositsOrderly
<1>8. Heir(new) \in UserAccount /\ Heir(new).last_stake_ts = users[new].last_stake_ts
  BY <1>1 DEF Heir, InitializeUser, UserAccount
<1>9. heir \in Accounts /\ heir.farm = paid.farm /\ heir.user = Heir(new)
  BY <1>7, <1>8 DEF Accounts
<1> HIDE DEF heir
<1>10. Orderly(heir, moved, now)
  BY <1>2, <1>3, <1>7, <1>9, StakeOrderly
<1> HIDE DEF moved
<1>11. /\ KeepsPools(s.farm, paid.farm) /\ IssuesAt(s.farm, paid.farm, now)
       /\ paid.user.last_stake_ts \in {users[old].last_stake_ts, now}
  <2>1. Orderly(s, paid, now)
    BY <1>6, <1>7, OrderlyTransitive
  <2> QED BY <1>2, <2>1 DEF Orderly
<1>12. /\ KeepsPools(farm, farm') /\ IssuesAt(farm, farm', now)
       /\ moved.user.last_stake_ts \in {users[new].last_stake_ts, now}
  BY <1>2, <1>3, <1>8, <1>9, <1>10, <1>11 DEF Orderly, KeepsPools, OrphansNone, IssuesAt
<1>13. \A v \in Users : users'[v].last_stake_ts \in {users[v].last_stake_ts, now}
  BY <1>1, <1>3, <1>11, <1>12
<1>14. Balanced' /\ farm'.config \in Configurations
  BY <1>1, <1>3, <1>12, StepBalanced DEF KeepsPools, Timely
<1>15. Timely'
  BY <1>1, <1>3, <1>12, <1>13, <1>14, StepTimely
<1> QED BY <1>12, <1>14, <1>15 DEF KeepsOrder, KeepsPools

(* withdraw_from_farm_vault, which alone takes tokens out from under the     *)
(* shares.                                                                   *)
LEMMA VaultWithdrawalKept ==
  ASSUME PoolInv, VaultWithdrawal
  PROVE  Balanced' /\ Timely'
<1>1. PICK amount \in VaultWithdrawals : HandleWithdrawFromFarmVault(amount)
  BY DEF VaultWithdrawal
<1>2. /\ TypeOK /\ Balanced /\ Timely /\ farm \in FarmAccount /\ amount \in Nat
      /\ now \in Nat
  BY FarmAssumption DEF PoolInv, TypeOK
<1>3. ~Delegated /\ farm' = WithdrawFarm(farm, amount) /\ UNCHANGED now /\ UNCHANGED users
  BY <1>1 DEF HandleWithdrawFromFarmVault, environment
<1>4. OrphansNone(farm, farm')
  BY <1>2, <1>3, WithdrawFarmBacked
<1>5. farm'.config = farm.config /\ farm'.rewards = farm.rewards
  BY <1>2, <1>3 DEF WithdrawFarm, FarmAccount
<1>6. Balanced'
  BY <1>2, <1>3, <1>4, StepBalanced
<1>7. /\ IssuesAt(farm, farm', now) /\ farm'.config \in Configurations
      /\ \A v \in Users : users'[v].last_stake_ts \in {users[v].last_stake_ts, now}
  BY <1>2, <1>3, <1>5 DEF IssuesAt, Timely
<1>8. Timely'
  BY <1>2, <1>3, <1>7, StepTimely
<1> QED BY <1>6, <1>8

(* The other instructions on the farm alone. *)
LEMMA FarmInstructionKept ==
  ASSUME PoolInv, FarmInstruction
  PROVE  VaultWithdrawal \/ KeepsOrder
<1>1. /\ TypeOK /\ Balanced /\ Timely /\ now \in Nat
      /\ farm \in FarmAccount /\ env \in Environment /\ env.ts = now
      /\ farm.active \in Pool /\ farm.pending \in Pool
  BY FarmFields DEF PoolInv, TypeOK, env, Environment
<1>2. CASE HandleRefreshFarm
  <2> DEFINE g == RefreshGlobalRewards(farm, env)
  <2>1. /\ farm' = g /\ RefreshGlobalRewardsOk(farm, env)
        /\ UNCHANGED now /\ UNCHANGED users /\ UNCHANGED farm_vault
    BY <1>2 DEF HandleRefreshFarm, stakeTokens, environment
  <2>2. LeavesPools(farm, g) /\ IssuesAt(farm, g, now)
    BY <1>1, <2>1, RefreshGlobalRewardsOrderly
  <2> HIDE DEF g
  <2> QED BY <2>1, <2>2, LeftAloneStepKept
<1>3. CASE HandleInitializeReward
  <2>1. /\ LeavesPools(farm, farm') /\ IssuesAt(farm, farm', now)
        /\ UNCHANGED now /\ UNCHANGED users /\ UNCHANGED farm_vault
    BY <1>1, <1>3, InitializeRewardLeavesPools
    DEF HandleInitializeReward, stakeTokens, environment
  <2> QED BY <2>1, LeftAloneStepKept
<1>4. CASE HandleWithdrawSlashedAmount
  <2>1. /\ ~Delegated /\ LeavesPools(farm, farm') /\ farm'.rewards = farm.rewards
        /\ UNCHANGED now /\ UNCHANGED users
    BY <1>1, <1>4 DEF HandleWithdrawSlashedAmount, LeavesPools, FarmAccount, environment
  <2>2. KeepsPools(farm, farm') /\ IssuesAt(farm, farm', now) /\ farm'.config \in Configurations
    BY <1>1, <2>1, LeftAloneKept DEF IssuesAt, LeavesPools, Timely
  <2>3. Balanced'
    BY <1>1, <2>1, <2>2, StepBalanced DEF KeepsPools
  <2>4. Timely'
    BY <1>1, <2>1, <2>2, StepTimely
  <2> QED BY <2>2, <2>3, <2>4 DEF KeepsOrder, KeepsPools
<1>5. ASSUME NEW config \in FarmConfigs, HandleUpdateFarmConfig(config) PROVE KeepsOrder
  <2>1. /\ farm' = [farm EXCEPT !.config = config]
        /\ UNCHANGED now /\ UNCHANGED users /\ UNCHANGED farm_vault
    BY <1>5 DEF HandleUpdateFarmConfig, stakeTokens, environment
  <2>2. Delegated =>
          /\ config.deposit_warmup_period = farm.config.deposit_warmup_period
          /\ config.withdrawal_cooldown_period = farm.config.withdrawal_cooldown_period
    BY <1>5 DEF HandleUpdateFarmConfig, UpdateFarmConfigOk
  <2>3. /\ farm'.active = farm.active /\ farm'.pending = farm.pending
        /\ farm'.frozen = farm.frozen /\ farm'.config = config /\ farm'.rewards = farm.rewards
    BY <1>1, <2>1 DEF FarmAccount
  <2>4. /\ OrphansNone(farm, farm') /\ (PoolsAtPar(farm) => PoolsAtPar(farm'))
        /\ Delegated => DelegatedBooksBalance(farm') /\ farm_vault' = 0
    BY <1>1, <2>1, <2>2, <2>3
    DEF Balanced, OrphansNone, OrphanFree, Backed, DelegatedBooksBalance, PoolsAtPar
  <2>5. IssuesAt(farm, farm', now) /\ farm'.config \in Configurations
    BY <2>3 DEF IssuesAt, Configurations
  <2>6. Balanced'
    BY <1>1, <2>4, StepBalanced
  <2>7. Timely'
    BY <1>1, <2>1, <2>5, StepTimely
  <2> QED BY <2>4, <2>6, <2>7 DEF KeepsOrder
<1>6. ASSUME NEW amount \in VaultDeposits, HandleDepositToFarmVault(amount) PROVE KeepsOrder
  <2>1. /\ ~Delegated /\ farm' = IncreaseTotalAmount(farm, amount) /\ amount \in Nat
        /\ UNCHANGED now /\ UNCHANGED users
    BY <1>6, FarmAssumption DEF HandleDepositToFarmVault, environment
  <2>2. /\ farm'.active.stake = farm.active.stake
        /\ farm'.active.amount = farm.active.amount + amount
        /\ farm'.pending = farm.pending /\ farm'.frozen = farm.frozen
        /\ farm'.config = farm.config /\ farm'.rewards = farm.rewards
    BY <1>1, <2>1 DEF IncreaseTotalAmount, FarmAccount, Pool
  <2>3. farm.active.amount \in Nat /\ farm.active.stake \in Nat /\ WAD \in Nat
    BY <1>1, MathAssumption DEF Pool
  <2>4. AtPar(farm.active) => AtPar(farm'.active)
    <3>1. WAD * (farm.active.amount + amount) = WAD * farm.active.amount + WAD * amount
      BY <2>1, <2>3
    <3>2. WAD * farm.active.amount \in Nat /\ WAD * amount \in Nat
      BY <2>1, <2>3
    <3> QED BY <2>2, <2>3, <3>1, <3>2 DEF AtPar
  <2>5. KeepsPools(farm, farm') /\ IssuesAt(farm, farm', now) /\ farm'.config \in Configurations
    BY <1>1, <2>1, <2>2, <2>3, <2>4
    DEF KeepsPools, OrphansNone, OrphanFree, Backed, PoolsAtPar, IssuesAt, Timely
  <2>6. Balanced'
    BY <1>1, <2>1, <2>5, StepBalanced DEF KeepsPools
  <2>7. Timely'
    BY <1>1, <2>1, <2>5, StepTimely
  <2> QED BY <2>5, <2>6, <2>7 DEF KeepsOrder, KeepsPools
<1> QED BY <1>2, <1>3, <1>4, <1>5, <1>6 DEF FarmInstruction, VaultWithdrawal

(* The instructions on one reward. *)
LEMMA RewardInstructionKept ==
  ASSUME PoolInv, NEW i \in RewardIndex, RewardInstruction(i)
  PROVE  KeepsOrder
<1>1. TypeOK /\ farm \in FarmAccount /\ env \in Environment /\ env.ts = now
  BY DEF PoolInv, TypeOK, env, Environment
<1>2. ASSUME NEW u \in Users, NEW t, Becomes(u, t), LeavesPools(Of(u).farm, t.farm),
             Orderly(Of(u), t, now), UNCHANGED <<environment, stakeTokens>>
      PROVE  KeepsOrder
  <2>1. UNCHANGED now /\ UNCHANGED farm_vault /\ LeavesPools(farm, t.farm)
    BY <1>2 DEF environment, stakeTokens, Of
  <2>2. Delegated => DelegatedBooksBalance(t.farm) /\ farm_vault' = 0
    BY <2>1, LeftAloneKept DEF PoolInv, Balanced
  <2> QED BY <1>2, <2>1, <2>2, OwnStepKept
<1>3. ASSUME NEW u \in Users, HandleHarvestReward(u, i)
      PROVE  KeepsOrder
  <2>1. Of(u) \in Accounts
    BY <1>1, OfTypes
  <2>2. /\ HarvestOk(Of(u), i, env) /\ Becomes(u, Harvest(Of(u), i, env))
        /\ UNCHANGED <<environment, stakeTokens>>
    BY <1>3 DEF HandleHarvestReward
  <2>3. /\ LeavesPools(Of(u).farm, Harvest(Of(u), i, env).farm)
        /\ Orderly(Of(u), Harvest(Of(u), i, env), now)
    BY <1>1, <2>1, <2>2, HarvestLeavesPools
  <2> QED BY <1>2, <2>2, <2>3
<1>4. ASSUME NEW u \in Users, NEW amount \in CreditAmounts, HandleRewardUserOnce(u, i, amount)
      PROVE  KeepsOrder
  <2>1. Of(u) \in Accounts
    BY <1>1, OfTypes
  <2>2. /\ Becomes(u, RewardUserOnce(Of(u), i, amount))
        /\ UNCHANGED <<environment, stakeTokens>>
    BY <1>4 DEF HandleRewardUserOnce
  <2>3. /\ LeavesPools(Of(u).farm, RewardUserOnce(Of(u), i, amount).farm)
        /\ Orderly(Of(u), RewardUserOnce(Of(u), i, amount), now)
    BY <2>1, RewardUserOnceLeavesPools
  <2> QED BY <1>2, <2>2, <2>3
<1>5. ASSUME NEW amount \in RewardAmounts, HandleAddReward(i, amount)
      PROVE  KeepsOrder
  <2>1. /\ RefreshGlobalRewardsOk(farm, env) /\ amount \in Nat
        /\ farm' = AddReward(farm, i, amount, env)
        /\ UNCHANGED now /\ UNCHANGED users /\ UNCHANGED farm_vault
    BY <1>5, FarmAssumption DEF HandleAddReward, AddRewardOk, stakeTokens, environment
  <2> QED BY <1>1, <2>1, RewardOperationsLeavePools, LeftAloneStepKept
<1>6. ASSUME NEW amount \in RewardAmounts, HandleWithdrawReward(i, amount)
      PROVE  KeepsOrder
  <2>1. /\ RefreshGlobalRewardsOk(farm, env) /\ amount \in Nat
        /\ farm' = WithdrawReward(farm, i, amount, env)
        /\ UNCHANGED now /\ UNCHANGED users /\ UNCHANGED farm_vault
    BY <1>6, FarmAssumption DEF HandleWithdrawReward, WithdrawRewardOk, stakeTokens, environment
  <2> QED BY <1>1, <2>1, RewardOperationsLeavePools, LeftAloneStepKept
<1>7. ASSUME NEW config \in RewardConfigs, HandleUpdateRewardConfig(i, config)
      PROVE  KeepsOrder
  <2>1. /\ RefreshGlobalRewardsOk(farm, env) /\ 0 \in Nat
        /\ farm' = UpdateRewardConfig(farm, i, config, env)
        /\ UNCHANGED now /\ UNCHANGED users /\ UNCHANGED farm_vault
    BY <1>7 DEF HandleUpdateRewardConfig, UpdateRewardConfigOk, stakeTokens, environment
  <2> QED BY <1>1, <2>1, RewardOperationsLeavePools, LeftAloneStepKept
<1>8. ASSUME NEW amount \in RewardAmounts, HandleWithdrawTreasury(i, amount)
      PROVE  KeepsOrder
  <2>1. /\ farm' = farm /\ UNCHANGED now /\ UNCHANGED users /\ UNCHANGED farm_vault
    BY <1>8 DEF HandleWithdrawTreasury, stakeTokens, environment
  <2>2. LeavesPools(farm, farm') /\ IssuesAt(farm, farm', now)
    BY <2>1 DEF LeavesPools, IssuesAt
  <2> QED BY <2>1, <2>2, LeftAloneStepKept
<1> QED BY <1>3, <1>4, <1>5, <1>6, <1>7, <1>8 DEF RewardInstruction

(* A new farm is empty, and nothing has happened in it. *)
LEMMA InitBalanced == Init => PoolInv /\ PoolsAtPar(farm)
<1> SUFFICES ASSUME Init PROVE PoolInv /\ PoolsAtPar(farm)
  OBVIOUS
<1>1. TypeOK
  BY InitCustody DEF Custody
<1>2. farm \in InitFarms /\ farm_vault = 0 /\ now = 0 /\ users = [u \in Users |-> NewUser]
  BY DEF Init
<1>3. /\ farm.active = EmptyPool /\ farm.pending = EmptyPool
      /\ \A i \in RewardIndex : farm.rewards[i].last_issuance_ts = 0
      /\ Delegated => /\ farm.config.deposit_warmup_period = 0
                      /\ farm.config.withdrawal_cooldown_period = 0
  <2> HIDE DEF Init
  <2> QED BY <1>2, FarmAssumption, Zenon
<1>4. Balanced /\ PoolsAtPar(farm)
  BY <1>2, <1>3, MathAssumption
  DEF Balanced, OrphanFree, Backed, DelegatedBooksBalance, EmptyPool, PoolsAtPar, AtPar
<1>5. Timely
  <2>1. \A u \in Users : users[u].last_stake_ts = 0
    BY <1>2 DEF NewUser
  <2> QED BY <1>2, <1>3, <2>1, FarmAssumption DEF Timely, Configurations
<1> QED BY <1>1, <1>4, <1>5 DEF PoolInv

(* Whatever happens keeps all of it, but for the shares' worth when the      *)
(* withdraw authority takes tokens out.                                      *)
LEMMA NextKept ==
  ASSUME PoolInv, [Next]_vars
  PROVE  /\ Balanced' /\ Timely'
         /\ VaultWithdrawal \/ (PoolsAtPar(farm) => PoolsAtPar(farm'))
<1>1. ASSUME NEW u \in Users, UserInstruction(u) PROVE KeepsOrder
  BY <1>1, UserInstructionKept, TransferOwnershipKept DEF UserInstruction
<1>2. CASE FarmInstruction
  BY <1>2, FarmInstructionKept, VaultWithdrawalKept DEF KeepsOrder
<1>3. ASSUME NEW i \in RewardIndex, RewardInstruction(i) PROVE KeepsOrder
  BY <1>3, RewardInstructionKept
<1>4. CASE GlobalInstruction \/ UpdatePrice \/ UNCHANGED vars
  <2>1. farm' = farm /\ UNCHANGED now /\ UNCHANGED users /\ UNCHANGED farm_vault
    BY <1>4 DEF GlobalInstruction, HandleUpdateGlobalConfig, UpdatePrice, vars,
                stakeTokens, environment
  <2>2. LeavesPools(farm, farm') /\ IssuesAt(farm, farm', now)
    BY <2>1 DEF LeavesPools, IssuesAt
  <2> QED BY <2>1, <2>2, LeftAloneStepKept DEF KeepsOrder
<1>5. CASE Tick
  <2>1. /\ now' = now + 1 /\ now < MAX_TIME /\ now \in Nat /\ MAX_TIME \in Nat
        /\ farm' = farm /\ users' = users /\ farm_vault' = farm_vault
    BY <1>5, FarmAssumption DEF Tick, stakeTokens, PoolInv, TypeOK
  <2>2. /\ \A i \in RewardIndex : farm.rewards[i].last_issuance_ts \in Nat
        /\ \A u \in Users : users[u].last_stake_ts \in Nat
    BY RewardFields DEF PoolInv, TypeOK, UserAccount, FarmAccount, RewardInfo
  <2>3. Timely'
    BY <2>1, <2>2 DEF PoolInv, Timely, Configurations
  <2>4. Balanced' /\ PoolsAtPar(farm') = PoolsAtPar(farm)
    BY <2>1 DEF PoolInv, Balanced
  <2> QED BY <2>3, <2>4
<1> QED BY <1>1, <1>2, <1>3, <1>4, <1>5 DEF Next, KeepsOrder

(* Every reachable state has what the theorems below state. *)
LEMMA AlwaysBalanced == Spec => []PoolInv
<1>1. PoolInv /\ TypeOK' /\ [Next]_vars => PoolInv'
  BY NextKept DEF PoolInv
<1> QED BY <1>1, InitBalanced, TypeCorrect, PTL DEF Spec

(* However stakes are added, split, penalised and swept, no pool that was    *)
(* not emptied on purpose is left with shares and no tokens, the state in    *)
(* which every deposit panics.                                               *)
THEOREM NoOrphans == Spec => []NoOrphanShares
<1>1. PoolInv => NoOrphanShares
  BY DEF PoolInv, Balanced, OrphanFree, Backed, NoOrphanShares
<1> QED BY <1>1, AlwaysBalanced, PTL

(* No instruction of a delegated farm, in whatever order, falsifies what     *)
(* set_stake asserts of its pools and periods.                               *)
THEOREM DelegatedBalances == Spec => []DelegatedFarmBalances
<1>1. PoolInv => DelegatedFarmBalances
  BY DEF PoolInv, Balanced, DelegatedFarmBalances
<1> QED BY <1>1, AlwaysBalanced, PTL

(* What the property says of the pools is what is said of each of them. *)
LEMMA ParOfPools == SharesAtPar = PoolsAtPar(farm)
BY DEF SharesAtPar, PoolsAtPar, AtPar

(* However stakes are split, merged, penalised and rounded, no instruction   *)
(* but withdraw_from_farm_vault leaves a pool with more than WAD shares per  *)
(* token.                                                                    *)
THEOREM ParIsKept == Spec => SharesKeepPar
<1>1. PoolInv /\ [Next]_vars => [SharesAtPar => VaultWithdrawal \/ SharesAtPar']_vars
  <2>1. SharesAtPar' = PoolsAtPar(farm')
    BY DEF SharesAtPar, PoolsAtPar, AtPar
  <2> QED BY <2>1, ParOfPools, NextKept
<1> QED BY <1>1, AlwaysBalanced, PTL DEF Spec, SharesKeepPar

(* A farm whose withdraw authority is never set keeps at most WAD shares per *)
(* token for good: its shares fit u128 as long as its tokens fit u64.        *)
THEOREM WithoutAuthorityAtPar == Spec /\ []~farm.config.withdraw_authority => []SharesAtPar
<1>1. Init => SharesAtPar
  BY InitBalanced, ParOfPools
<1>2. VaultWithdrawal => farm.config.withdraw_authority
  BY DEF VaultWithdrawal, HandleWithdrawFromFarmVault
<1>3. /\ PoolInv /\ SharesAtPar /\ ~farm.config.withdraw_authority /\ [Next]_vars
      => SharesAtPar'
  <2>1. SharesAtPar' = PoolsAtPar(farm')
    BY DEF SharesAtPar, PoolsAtPar, AtPar
  <2> QED BY <1>2, <2>1, ParOfPools, NextKept
<1> QED BY <1>1, <1>3, AlwaysBalanced, PTL DEF Spec
=============================================================================
