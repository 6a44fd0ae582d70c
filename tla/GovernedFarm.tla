---------------------------- MODULE GovernedFarm ----------------------------
(* The farm and those who may act on it: each instruction of the farm with   *)
(* the signature its handler asks for, and the changes of the keys that      *)
(* decide it.  The accounts that the handlers load are those of the one farm *)
(* (has_one, seeds), the token accounts those of its mints.                  *)
EXTENDS Farm

CONSTANTS
  Keys,        \* the keys somebody holds
  NoKey,       \* Pubkey::default()
  Founders,    \* the keys that may create the two accounts
  Candidates   \* for each office, the addresses that may be named

VARIABLES
  global_keys, farm_keys, nominators,   \* see Governance
  signer                                \* history: who signed the last instruction

Authority == INSTANCE Governance

ASSUME GovernedAssumption ==
  /\ NoKey \notin Keys
  /\ Users \subseteq Keys /\ Founders \subseteq Keys
  /\ Candidates \in [Authority!KeyOptions \union {"pending_global_admin"} -> SUBSET (Keys \union {NoKey})]

keyVars == <<global_keys, farm_keys, nominators>>

governedVars == <<vars, keyVars, signer>>

(* The instruction is signed by this key, is sent to an existing farm and    *)
(* changes no key.                                                           *)
Signed(key) ==
  /\ farm_keys.initialised
  /\ signer' = key
  /\ UNCHANGED keyVars

Delegates == {farm_keys.delegate_authority, farm_keys.second_delegated_authority} \ {NoKey}

GovernedInit ==
  /\ Init
  /\ \A f \in InitFarms : ~f.config.withdraw_authority
  /\ Authority!Init
  /\ signer = NoKey

-----------------------------------------------------------------------------
(* Instructions of the owner of a user account *)

(* A user of a delegated farm is registered by a delegate. *)
InitializeUserBy(key, u) ==
  /\ IF Delegated THEN key \in Delegates ELSE key = u
  /\ Signed(key)
  /\ HandleInitializeUser(u)

StakeBy(key, u, amount) == key = u /\ Signed(key) /\ HandleStake(u, amount)

(* Mutant: the signature of the owner is not asked for. *)
MutAnyoneUnstakes(key, u, shares) == Signed(key) /\ HandleUnstake(u, shares)

UnstakeBy(key, u, shares) == key = u /\ Signed(key) /\ HandleUnstake(u, shares)

WithdrawUnstakedDepositsBy(key, u) ==
  key = u /\ Signed(key) /\ HandleWithdrawUnstakedDeposits(u)

HarvestRewardBy(key, u, i) == key = u /\ Signed(key) /\ HandleHarvestReward(u, i)

(* The heir does not sign. *)
TransferOwnershipBy(key, old, new) ==
  key = old /\ Signed(key) /\ HandleTransferOwnership(old, new)

OwnerInstruction(key, u) ==
  \/ InitializeUserBy(key, u)
  \/ \E amount \in StakeAmounts : StakeBy(key, u, amount)
  \/ \E shares \in UnstakeShares : UnstakeBy(key, u, shares)
  \/ WithdrawUnstakedDepositsBy(key, u)
  \/ \E i \in RewardIndex : HarvestRewardBy(key, u, i)
  \/ \E new \in Users : TransferOwnershipBy(key, u, new)

-----------------------------------------------------------------------------
(* Instructions anyone may sign *)

RefreshFarmBy(key) == Signed(key) /\ HandleRefreshFarm

RefreshUserStateBy(key, u) == Signed(key) /\ HandleRefreshUserState(u)

AddRewardBy(key, i, amount) == Signed(key) /\ HandleAddReward(i, amount)

(* The tokens go to the spill address the farm admin configured. *)
WithdrawSlashedAmountBy(key) == Signed(key) /\ HandleWithdrawSlashedAmount

PublicInstruction(key) ==
  \/ RefreshFarmBy(key)
  \/ \E u \in Users : RefreshUserStateBy(key, u)
  \/ \E i \in RewardIndex, amount \in RewardAmounts : AddRewardBy(key, i, amount)
  \/ WithdrawSlashedAmountBy(key)

-----------------------------------------------------------------------------
(* Instructions of the farm's authorities *)

IsFarmAdmin(key) == key = farm_keys.farm_admin

InitializeRewardBy(key) == IsFarmAdmin(key) /\ Signed(key) /\ HandleInitializeReward

WithdrawRewardBy(key, i, amount) ==
  IsFarmAdmin(key) /\ Signed(key) /\ HandleWithdrawReward(i, amount)

RewardUserOnceBy(key, u, i, amount) ==
  IsFarmAdmin(key) /\ Signed(key) /\ HandleRewardUserOnce(u, i, amount)

DepositToFarmVaultBy(key, amount) ==
  IsFarmAdmin(key) /\ Signed(key) /\ HandleDepositToFarmVault(amount)

(* Mutant: the admin of the farm will do. *)
MutAdminWithdraws(key, amount) ==
  IsFarmAdmin(key) /\ Signed(key) /\ HandleWithdrawFromFarmVault(amount)

WithdrawFromFarmVaultBy(key, amount) ==
  key = farm_keys.withdraw_authority /\ Signed(key) /\ HandleWithdrawFromFarmVault(amount)

(* Mutant: the admin of the farm dictates stakes. *)
MutAdminDictates(key, u, stake) ==
  key \in Delegates \union {farm_keys.farm_admin} /\ Signed(key) /\ HandleSetStakeDelegated(u, stake)

SetStakeDelegatedBy(key, u, stake) ==
  key \in Delegates /\ Signed(key) /\ HandleSetStakeDelegated(u, stake)

UpdateFarmConfigBy(key, config) ==
  /\ IsFarmAdmin(key)
  /\ config.withdraw_authority = farm.config.withdraw_authority
  /\ Signed(key)
  /\ HandleUpdateFarmConfig(config)

OnlySchedule(old, new) == [old EXCEPT !.reward_schedule_curve = new.reward_schedule_curve] = new

(* Mutant: the delegated admin may set the other options of a reward, too. *)
MutRpsAdminSetsAll(key, i, config) ==
  /\ key \in {farm_keys.farm_admin, farm_keys.delegated_rps_admin}
  /\ Signed(key)
  /\ HandleUpdateRewardConfig(i, config)

(* The rates may be set by a delegated admin as well. *)
UpdateRewardConfigBy(key, i, config) ==
  /\ \/ IsFarmAdmin(key)
     \/ key = farm_keys.delegated_rps_admin /\ OnlySchedule(farm.rewards[i].config, config)
  /\ Signed(key)
  /\ HandleUpdateRewardConfig(i, config)

(* A key option of update_farm_config; the flag withdraw_authority of the    *)
(* farm's configuration says whether the key of that name is set.            *)
UpdateKeyBy(key, option, new) ==
  /\ Authority!UpdateFarmConfigKey(key, option, new)
  /\ signer' = key
  /\ IF option = "withdraw_authority"
     THEN \E config \in FarmConfigs :
            /\ config = [farm.config EXCEPT !.withdraw_authority = (new # NoKey)]
            /\ HandleUpdateFarmConfig(config)
     ELSE UNCHANGED vars

AdminInstruction(key) ==
  \/ InitializeRewardBy(key)
  \/ \E i \in RewardIndex, amount \in RewardAmounts : WithdrawRewardBy(key, i, amount)
  \/ \E u \in Users, i \in RewardIndex, amount \in CreditAmounts : RewardUserOnceBy(key, u, i, amount)
  \/ \E amount \in VaultDeposits : DepositToFarmVaultBy(key, amount)
  \/ \E amount \in VaultWithdrawals : WithdrawFromFarmVaultBy(key, amount)
  \/ \E u \in Users, stake \in DelegatedStakes : SetStakeDelegatedBy(key, u, stake)
  \/ \E config \in FarmConfigs : UpdateFarmConfigBy(key, config)
  \/ \E i \in RewardIndex, config \in RewardConfigs : UpdateRewardConfigBy(key, i, config)
  \/ \E option \in Authority!KeyOptions : \E new \in Candidates[option] : UpdateKeyBy(key, option, new)

-----------------------------------------------------------------------------
(* Instructions of the global admin *)

UpdateGlobalConfigBy(key, fee) ==
  /\ key = global_keys.global_admin
  /\ signer' = key
  /\ HandleUpdateGlobalConfig(fee)
  /\ UNCHANGED keyVars

WithdrawTreasuryBy(key, i, amount) ==
  key = global_keys.global_admin /\ Signed(key) /\ HandleWithdrawTreasury(i, amount)

GlobalAdminInstruction(key) ==
  \/ \E fee \in TreasuryFees : UpdateGlobalConfigBy(key, fee)
  \/ \E i \in RewardIndex, amount \in RewardAmounts : WithdrawTreasuryBy(key, i, amount)

(* Creation, handovers and the second delegate leave stakes and rewards be;  *)
(* a farm is created delegated or not.                                       *)
Creation(key) ==
  /\ key \in Founders
  /\ \/ Authority!HandleInitializeGlobalConfig(key)
     \/ ~Delegated /\ Authority!HandleInitializeFarm(key)
     \/ Delegated /\ \E farm_delegate \in Founders :
          Authority!HandleInitializeFarmDelegated(key, farm_delegate)

KeyInstruction(key) ==
  /\ signer' = key
  /\ \/ Creation(key)
     \/ \E new \in Candidates["pending_global_admin"] : Authority!SetPendingGlobalAdmin(key, new)
     \/ Authority!HandleUpdateGlobalConfigAdmin(key)
     \/ Authority!HandleUpdateFarmAdmin(key)
     \/ \E new \in Candidates["second_delegated_authority"] :
          Authority!HandleUpdateSecondDelegatedAuthority(key, new)
  /\ UNCHANGED vars

World == (Tick \/ UpdatePrice) /\ signer' = NoKey /\ UNCHANGED keyVars

GovernedNext ==
  \/ \E key \in Keys :
       \/ \E u \in Users : OwnerInstruction(key, u)
       \/ PublicInstruction(key)
       \/ AdminInstruction(key)
       \/ GlobalAdminInstruction(key)
       \/ KeyInstruction(key)
  \/ World

GovernedSpec == GovernedInit /\ [][GovernedNext]_governedVars

-----------------------------------------------------------------------------
GivesUp(u) ==
  \/ wallets'[u] < wallets[u]
  \/ users'[u].active_stake < users[u].active_stake
  \/ users'[u].pending_withdrawal_unstake < users[u].pending_withdrawal_unstake
  \/ users'[u].pending_withdrawal_unstake_ts > users[u].pending_withdrawal_unstake_ts

(* Nobody but its owner can put a user's tokens into the farm, take stake    *)
(* out or delay a withdrawal, however the other instructions touch the       *)
(* account; on a delegated farm it is the delegates who dictate the stake.   *)
OwnersDecide ==
  [][\A u \in Users : GivesUp(u) =>
       \/ signer' = u
       \/ Delegated /\ signer' \in Delegates]_governedVars

(* Staking tokens reach the authorities as penalties, which the books set    *)
(* apart, or by the key appointed to withdraw: no other office, and no       *)
(* former withdraw authority, has access to the vault.                       *)
OnlyPenaltiesAndWithdrawals ==
  [][admin_ata' > admin_ata =>
       \/ signer' = farm_keys.withdraw_authority
       \/ admin_ata' - admin_ata = farm.slashed - farm'.slashed]_governedVars

HoldsOnlyRates(key) ==
  /\ key = farm_keys.delegated_rps_admin
  /\ key \notin Users \union Delegates \union
       {farm_keys.farm_admin, farm_keys.withdraw_authority, global_keys.global_admin}

(* The delegated admin of the rates changes no token account except by       *)
(* paying rewards in, and of the configuration nothing but schedules.        *)
RpsAdminSetsRates ==
  [][signer' \in Keys /\ HoldsOnlyRates(signer') =>
       /\ farm'.config = farm.config
       /\ \A i \in RewardIndex :
            /\ OnlySchedule(farm.rewards[i].config, farm'.rewards[i].config)
            /\ reward_vault'[i] >= reward_vault[i] /\ treasury_vault'[i] = treasury_vault[i]
       /\ UNCHANGED wallets]_governedVars
=============================================================================
