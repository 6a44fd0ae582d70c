------------------------- MODULE GovernedFarmProofs -------------------------
(* Who can do what to whom, proved for every number of users and keys, every *)
(* choice of officers and every sequence of handovers.                       *)
EXTENDS GovernedFarm, FarmProofs

-----------------------------------------------------------------------------
(* A signature only restricts: every signed instruction is one of the farm,  *)
(* and the changes of the keys leave the farm alone.                         *)

(* The instructions of an owner are instructions of the farm. *)
LEMMA OwnerSteps ==
  ASSUME NEW key \in Keys, NEW u \in Users, OwnerInstruction(key, u)
  PROVE  Next
<1>1. UserInstruction(u) \/ \E i \in RewardIndex : RewardInstruction(i)
  BY DEF OwnerInstruction, InitializeUserBy, StakeBy, UnstakeBy, WithdrawUnstakedDepositsBy,
         HarvestRewardBy, TransferOwnershipBy, UserInstruction, RewardInstruction
<1> QED BY <1>1 DEF Next

(* And so are those anyone may sign. *)
LEMMA PublicSteps ==
  ASSUME NEW key \in Keys, PublicInstruction(key)
  PROVE  Next
<1>1. \/ \E u \in Users : UserInstruction(u)
      \/ FarmInstruction
      \/ \E i \in RewardIndex : RewardInstruction(i)
  BY DEF PublicInstruction, RefreshFarmBy, RefreshUserStateBy, AddRewardBy,
         WithdrawSlashedAmountBy, UserInstruction, FarmInstruction, RewardInstruction
<1> QED BY <1>1 DEF Next

(* A key option changes at most the flag of its key. *)
LEMMA UpdateKeySteps ==
  ASSUME NEW key, NEW option, NEW new, UpdateKeyBy(key, option, new)
  PROVE  \/ \E config \in FarmConfigs : HandleUpdateFarmConfig(config)
         \/ UNCHANGED vars
BY DEF UpdateKeyBy

(* The instructions of the authorities are instructions of the farm. *)
LEMMA AdminSteps ==
  ASSUME NEW key \in Keys, AdminInstruction(key)
  PROVE  [Next]_vars
<1>1. CASE \E option \in Authority!KeyOptions : \E new \in Candidates[option] :
             UpdateKeyBy(key, option, new)
  <2>1. FarmInstruction \/ UNCHANGED vars
    BY <1>1, UpdateKeySteps DEF FarmInstruction
  <2> QED BY <2>1 DEF Next
<1>2. CASE \/ InitializeRewardBy(key)
           \/ \E amount \in VaultDeposits : DepositToFarmVaultBy(key, amount)
           \/ \E amount \in VaultWithdrawals : WithdrawFromFarmVaultBy(key, amount)
           \/ \E config \in FarmConfigs : UpdateFarmConfigBy(key, config)
  <2>1. FarmInstruction
    BY <1>2 DEF InitializeRewardBy, DepositToFarmVaultBy, WithdrawFromFarmVaultBy,
                UpdateFarmConfigBy, FarmInstruction
  <2> QED BY <2>1 DEF Next
<1>3. CASE \/ \E i \in RewardIndex, amount \in RewardAmounts : WithdrawRewardBy(key, i, amount)
           \/ \E u \in Users, i \in RewardIndex, amount \in CreditAmounts :
                RewardUserOnceBy(key, u, i, amount)
           \/ \E i \in RewardIndex, config \in RewardConfigs : UpdateRewardConfigBy(key, i, config)
  <2>1. \E i \in RewardIndex : RewardInstruction(i)
    BY <1>3 DEF WithdrawRewardBy, RewardUserOnceBy, UpdateRewardConfigBy, RewardInstruction
  <2> QED BY <2>1 DEF Next
<1>4. CASE \E u \in Users, stake \in DelegatedStakes : SetStakeDelegatedBy(key, u, stake)
  <2>1. \E u \in Users : UserInstruction(u)
    BY <1>4 DEF SetStakeDelegatedBy, UserInstruction
  <2> QED BY <2>1 DEF Next
<1> QED BY <1>1, <1>2, <1>3, <1>4 DEF AdminInstruction

(* Every step of a governed farm is a step of the farm or none. *)
LEMMA GovernedSteps == [GovernedNext]_governedVars => [Next]_vars
<1> SUFFICES ASSUME [GovernedNext]_governedVars PROVE [Next]_vars
  OBVIOUS
<1>1. ASSUME NEW key \in Keys, GlobalAdminInstruction(key) PROVE Next
  <2>1. GlobalInstruction \/ \E i \in RewardIndex : RewardInstruction(i)
    BY <1>1 DEF GlobalAdminInstruction, UpdateGlobalConfigBy, WithdrawTreasuryBy,
                GlobalInstruction, RewardInstruction
  <2> QED BY <2>1 DEF Next
<1>2. ASSUME NEW key \in Keys, KeyInstruction(key) PROVE UNCHANGED vars
  BY <1>2 DEF KeyInstruction
<1>3. CASE World
  BY <1>3 DEF World, Next
<1>4. CASE UNCHANGED governedVars
  BY <1>4 DEF governedVars
<1> QED BY <1>1, <1>2, <1>3, <1>4, OwnerSteps, PublicSteps, AdminSteps DEF GovernedNext

(* Whoever signs, the farm behaves as the model of the farm alone says, and  *)
(* all that is proved of it holds.                                           *)
THEOREM SignaturesOnlyRestrict == GovernedSpec => Spec
BY GovernedSteps, PTL DEF GovernedSpec, GovernedInit, Spec

(* The farm keeps custody, whoever signs. *)
LEMMA GovernedCustody == GovernedSpec => []Custody
BY SignaturesOnlyRestrict, AlwaysCustody, PTL

-----------------------------------------------------------------------------
(* The vault *)

(* What the two authorities' instructions pay, and to whose signature. *)
VaultRule ==
  admin_ata' > admin_ata =>
    \/ signer' = farm_keys.withdraw_authority
    \/ admin_ata' - admin_ata = farm.slashed - farm'.slashed

(* A step that pays the authorities nothing obeys the rule. *)
LEMMA UnpaidRule ==
  ASSUME TypeOK, UNCHANGED admin_ata
  PROVE  VaultRule
BY DEF TypeOK, VaultRule

(* No instruction but the sweep of the penalties and the withdrawal of its   *)
(* authority pays tokens of the farm to the authorities.                     *)
LEMMA GovernedVaultRule == TypeOK /\ [GovernedNext]_governedVars => VaultRule
<1> SUFFICES ASSUME TypeOK, [GovernedNext]_governedVars PROVE VaultRule
  OBVIOUS
<1>1. ASSUME NEW key \in Keys, NEW u \in Users, OwnerInstruction(key, u) PROVE VaultRule
  <2>1. UNCHANGED admin_ata
    BY <1>1 DEF OwnerInstruction, InitializeUserBy, StakeBy, UnstakeBy,
                WithdrawUnstakedDepositsBy, HarvestRewardBy, TransferOwnershipBy,
                HandleInitializeUser, HandleStake, HandleUnstake, HandleWithdrawUnstakedDeposits,
                HandleHarvestReward, HandleTransferOwnership, stakeTokens
  <2> QED BY <2>1, UnpaidRule
<1>2. ASSUME NEW key \in Keys, PublicInstruction(key) PROVE VaultRule
  <2>1. CASE WithdrawSlashedAmountBy(key)
    <3>1. admin_ata' = admin_ata + farm.slashed /\ farm' = [farm EXCEPT !.slashed = 0]
      BY <2>1 DEF WithdrawSlashedAmountBy, HandleWithdrawSlashedAmount
    <3>2. admin_ata \in Nat /\ farm.slashed \in Nat /\ farm'.slashed = 0
      BY <3>1, FarmFields DEF TypeOK, FarmAccount
    <3> QED BY <3>1, <3>2 DEF VaultRule
  <2>2. CASE ~WithdrawSlashedAmountBy(key)
    <3>1. UNCHANGED admin_ata
      BY <1>2, <2>2 DEF PublicInstruction, RefreshFarmBy, RefreshUserStateBy, AddRewardBy,
                        HandleRefreshFarm, HandleRefreshUserState, HandleAddReward, stakeTokens
    <3> QED BY <3>1, UnpaidRule
  <2> QED BY <2>1, <2>2
<1>3. ASSUME NEW key \in Keys, AdminInstruction(key) PROVE VaultRule
  <2>1. CASE \E amount \in VaultWithdrawals : WithdrawFromFarmVaultBy(key, amount)
    BY <2>1 DEF WithdrawFromFarmVaultBy, Signed, VaultRule
  <2>2. CASE \E amount \in VaultDeposits : DepositToFarmVaultBy(key, amount)
    <3>1. PICK amount \in VaultDeposits : admin_ata' = admin_ata - amount
      BY <2>2 DEF DepositToFarmVaultBy, HandleDepositToFarmVault
    <3>2. amount \in Nat /\ admin_ata \in Nat
      BY FarmAssumption DEF TypeOK
    <3> QED BY <3>1, <3>2 DEF VaultRule
  <2>3. CASE \E option \in Authority!KeyOptions : \E new \in Candidates[option] :
               UpdateKeyBy(key, option, new)
    <3>1. UNCHANGED admin_ata
      BY <2>3, UpdateKeySteps DEF HandleUpdateFarmConfig, stakeTokens, vars
    <3> QED BY <3>1, UnpaidRule
  <2>4. CASE \/ InitializeRewardBy(key)
             \/ \E i \in RewardIndex, amount \in RewardAmounts : WithdrawRewardBy(key, i, amount)
             \/ \E u \in Users, i \in RewardIndex, amount \in CreditAmounts :
                  RewardUserOnceBy(key, u, i, amount)
             \/ \E u \in Users, stake \in DelegatedStakes : SetStakeDelegatedBy(key, u, stake)
             \/ \E config \in FarmConfigs : UpdateFarmConfigBy(key, config)
             \/ \E i \in RewardIndex, config \in RewardConfigs :
                  UpdateRewardConfigBy(key, i, config)
    <3>1. UNCHANGED admin_ata
      BY <2>4 DEF InitializeRewardBy, WithdrawRewardBy, RewardUserOnceBy, SetStakeDelegatedBy,
                  UpdateFarmConfigBy, UpdateRewardConfigBy, HandleInitializeReward,
                  HandleWithdrawReward, HandleRewardUserOnce, HandleSetStakeDelegated,
                  HandleUpdateFarmConfig, HandleUpdateRewardConfig, stakeTokens
    <3> QED BY <3>1, UnpaidRule
  <2> QED BY <1>3, <2>1, <2>2, <2>3, <2>4 DEF AdminInstruction
<1>4. ASSUME NEW key \in Keys, GlobalAdminInstruction(key) \/ KeyInstruction(key) PROVE VaultRule
  <2>1. UNCHANGED admin_ata
    BY <1>4 DEF GlobalAdminInstruction, UpdateGlobalConfigBy, WithdrawTreasuryBy,
                HandleUpdateGlobalConfig, HandleWithdrawTreasury, KeyInstruction, vars, stakeTokens
  <2> QED BY <2>1, UnpaidRule
<1>5. CASE World \/ UNCHANGED governedVars
  <2>1. UNCHANGED admin_ata
    BY <1>5 DEF World, Tick, UpdatePrice, governedVars, vars, stakeTokens
  <2> QED BY <2>1, UnpaidRule
<1> QED BY <1>1, <1>2, <1>3, <1>4, <1>5 DEF GovernedNext

(* Staking tokens reach the authorities as penalties, or by the signature of *)
(* the withdraw authority in office.                                         *)
THEOREM VaultIsGuarded == GovernedSpec => OnlyPenaltiesAndWithdrawals
<1>1. Custody /\ [GovernedNext]_governedVars => VaultRule
  BY GovernedVaultRule DEF Custody
<1> QED BY <1>1, GovernedCustody, PTL DEF GovernedSpec, OnlyPenaltiesAndWithdrawals, VaultRule

-----------------------------------------------------------------------------
(* The owners.  An operation on an account keeps its claims if it takes no   *)
(* stake and moves no withdrawal.                                            *)
KeepsClaims(a, b) ==
  /\ b.active_stake >= a.active_stake
  /\ b.pending_withdrawal_unstake = a.pending_withdrawal_unstake
  /\ b.pending_withdrawal_unstake_ts = a.pending_withdrawal_unstake_ts

(* Rewards are counted beside the claims. *)
LEMMA RefreshRewardsKeepsClaims ==
  ASSUME NEW s \in Accounts, NEW e \in Environment
  PROVE  KeepsClaims(s.user, RefreshRewards(s, e).user)
<1> DEFINE t == Issued(s, e)
<1>1. t.user = s.user /\ t = [farm |-> t.farm, user |-> t.user] /\ s.user \in UserAccount
  BY DEF Issued, Accounts
<1> HIDE DEF t
<1>2. ASSUME NEW tally, NEW unclaimed
      PROVE  KeepsClaims(t.user, [t EXCEPT !.user.rewards_tally = tally,
                                           !.user.rewards_issued_unclaimed = unclaimed].user)
  <2>1. [t EXCEPT !.user.rewards_tally = tally, !.user.rewards_issued_unclaimed = unclaimed].user
          = [t.user EXCEPT !.rewards_tally = tally, !.rewards_issued_unclaimed = unclaimed]
    BY <1>1
  <2>2. KeepsClaims(t.user, [t.user EXCEPT !.rewards_tally = tally,
                                           !.rewards_issued_unclaimed = unclaimed])
    BY <1>1 DEF KeepsClaims, UserAccount
  <2> QED BY <2>1, <2>2
<1> QED BY <1>1, <1>2 DEF RefreshRewards, UserRefreshReward, t

(* Shares are only added. *)
LEMMA AddActiveStakeKeepsClaims ==
  ASSUME NEW s \in Accounts, NEW amount \in Nat, NEW shares \in Nat
  PROVE  KeepsClaims(s.user, IncreaseTally(AddActiveStake(s, amount), shares).user)
<1>1. SharesFor(amount, s.farm.active) \in Nat
  BY FarmFields, SharesForNat DEF Accounts
<1>2. s.user \in UserAccount
  BY DEF Accounts
<1> DEFINE t == AddActiveStake(s, amount)
<1>3. /\ t = [farm |-> t.farm, user |-> t.user] /\ t.user \in UserAccount
      /\ KeepsClaims(s.user, t.user)
  BY <1>1, <1>2 DEF UserAccount, KeepsClaims, AddActiveStake
<1> HIDE DEF t
<1>4. \A tally : KeepsClaims(s.user, [t EXCEPT !.user.rewards_tally = tally].user)
  BY <1>2, <1>3 DEF UserAccount, KeepsClaims
<1> QED BY <1>4 DEF IncreaseTally, t

(* Activating a deposit adds its shares. *)
LEMMA UserRefreshStakeKeepsClaims ==
  ASSUME NEW s \in Accounts, NEW e \in Environment, UserRefreshStakeOk(s, e)
  PROVE  KeepsClaims(s.user, UserRefreshStake(s, e).user)
<1> DEFINE t == [s EXCEPT !.farm = InitializeRewardTsIfNeeded(@, e.ts)]
           r == RemovePendingDepositStake(t)
<1>1. t \in Accounts /\ t.user = s.user /\ OnlyIssues(s.farm, t.farm)
  BY InitializeRewardTsIssues DEF Accounts, Environment
<1>2. CASE DepositMatured(s.user, e.ts)
  <2>1. UserRefreshStake(s, e)
          = IncreaseTally(AddActiveStake(r, ActivatedAmount(t)), ActivatedShares(t))
    BY <1>2 DEF UserRefreshStake, ActivatePendingStake
  <2>2. RemoveSharesOk(t.farm.pending, t.user.pending_deposit_stake)
    BY <1>1, <1>2 DEF UserRefreshStakeOk, ActivatePendingStakeOk, OnlyIssues
  <2> HIDE DEF t
  <2>3. r \in Accounts /\ ActivatedAmount(t) \in Nat
    BY <1>1, <2>2, RemovePendingDepositStakeBooks
  <2>4. ActivatedShares(t) \in Nat
    BY <1>1, <2>3, FarmFields, SharesForNat DEF ActivatedShares, Accounts
  <2>5. KeepsClaims(t.user, r.user)
    BY <1>1 DEF KeepsClaims, RemovePendingDepositStake, Accounts, UserAccount
  <2> HIDE DEF r
  <2>6. KeepsClaims(r.user, UserRefreshStake(s, e).user)
    BY <2>1, <2>3, <2>4, AddActiveStakeKeepsClaims
  <2>7. r.user.active_stake \in Nat /\ t.user.active_stake \in Nat
        /\ UserRefreshStake(s, e).user.active_stake \in Nat
    BY <1>1, <2>3, UserRefreshStakeBooks DEF Accounts, UserAccount
  <2> QED BY <1>1, <2>5, <2>6, <2>7 DEF KeepsClaims
<1>3. CASE ~DepositMatured(s.user, e.ts)
  <2>1. UserRefreshStake(s, e) = t
    BY <1>3 DEF UserRefreshStake
  <2> HIDE DEF t
  <2> QED BY <1>1, <2>1 DEF KeepsClaims, Accounts, UserAccount
<1> QED BY <1>2, <1>3

(* What keeps claims twice keeps them. *)
LEMMA KeepsClaimsTransitive ==
  ASSUME NEW a \in UserAccount, NEW b \in UserAccount, NEW c \in UserAccount,
         KeepsClaims(a, b), KeepsClaims(b, c)
  PROVE  KeepsClaims(a, c)
BY DEF KeepsClaims, UserAccount

(* Anyone may refresh a user: it keeps the user's claims. *)
LEMMA UserRefreshStateKeepsClaims ==
  ASSUME NEW s \in Accounts, NEW e \in Environment, UserRefreshStateOk(s, e)
  PROVE  KeepsClaims(s.user, UserRefreshState(s, e).user)
<1> DEFINE t == RefreshRewards(s, e)
<1>1. t \in Accounts /\ KeepsClaims(s.user, t.user)
  BY RefreshRewardsIssues, RefreshRewardsKeepsClaims DEF UserRefreshStateOk
<1>2. CASE Delegated
  BY <1>1, <1>2 DEF UserRefreshState
<1>3. CASE ~Delegated
  <2>1. UserRefreshState(s, e) = UserRefreshStake(t, e) /\ UserRefreshStakeOk(t, e)
    BY <1>3 DEF UserRefreshState, UserRefreshStateOk
  <2> HIDE DEF t
  <2>2. UserRefreshStake(t, e) \in Accounts /\ KeepsClaims(t.user, UserRefreshStake(t, e).user)
    BY <1>1, <2>1, UserRefreshStakeBooks, UserRefreshStakeKeepsClaims
  <2> QED BY <1>1, <2>1, <2>2, KeepsClaimsTransitive DEF Accounts
<1> QED BY <1>2, <1>3

(* An heir receives stake and keeps the claims they had. *)
LEMMA StakeKeepsClaims ==
  ASSUME NEW s \in Accounts, NEW amount \in Nat, NEW e \in Environment, StakeOk(s, amount, e)
  PROVE  KeepsClaims(s.user, Stake(s, amount, e).user)
<1> DEFINE t == RefreshRewards(s, e)
           r == UserRefreshStake(t, e)
<1>1. t \in Accounts /\ KeepsClaims(s.user, t.user)
  BY RefreshRewardsIssues, RefreshRewardsKeepsClaims DEF StakeOk
<1>2. UserRefreshStakeOk(t, e) /\ Stake(s, amount, e) = Deposit(r, amount, e.ts) /\ e.ts \in Nat
  BY DEF StakeOk, Stake, Environment
<1>3. r \in Accounts /\ KeepsClaims(t.user, r.user)
  BY <1>1, <1>2, UserRefreshStakeBooks, UserRefreshStakeKeepsClaims
<1> HIDE DEF t, r
<1>4. KeepsClaims(r.user, Deposit(r, amount, e.ts).user)
  <2>1. SharesFor(amount, r.farm.active) \in Nat
    BY <1>3, FarmFields, SharesForNat DEF Accounts
  <2>2. KeepsClaims(r.user, IncreaseTally(AddActiveStake(r, amount),
                                          SharesFor(amount, r.farm.active)).user)
    BY <1>3, <2>1, AddActiveStakeKeepsClaims
  <2>3. KeepsClaims(r.user, AddPendingDepositStake(r, amount).user)
    BY <1>3 DEF KeepsClaims, AddPendingDepositStake, Accounts, UserAccount
  <2>4. \A a \in Accounts : KeepsClaims(r.user, a.user) =>
          \A deadline, last :
            /\ KeepsClaims(r.user, [a EXCEPT !.user.last_stake_ts = last].user)
            /\ KeepsClaims(r.user, [[a EXCEPT !.user.pending_deposit_stake_ts = deadline]
                                       EXCEPT !.user.last_stake_ts = last].user)
    BY DEF KeepsClaims, Accounts, UserAccount
  <2>5. /\ AddPendingDepositStake(r, amount) \in Accounts
        /\ IncreaseTally(AddActiveStake(r, amount), SharesFor(amount, r.farm.active)) \in Accounts
    BY <1>3, <2>1, AddPendingDepositStakeBooks, AddActiveStakeBooks, IncreaseTallyTypes
  <2> QED BY <2>2, <2>3, <2>4, <2>5 DEF Deposit
<1>5. Deposit(r, amount, e.ts) \in Accounts
  BY <1>2, <1>3, DepositBooks
<1> QED BY <1>1, <1>2, <1>3, <1>4, <1>5, KeepsClaimsTransitive DEF Accounts

(* A user gives something up with their consent only, or that of a delegate. *)
Consents(u) ==
  GivesUp(u) => \/ signer' = u
                \/ Delegated /\ signer' \in Delegates

(* A user who keeps tokens and claims gives nothing up. *)
LEMMA KeptConsents ==
  ASSUME TypeOK, TypeOK', NEW u \in Users,
         wallets'[u] = wallets[u], KeepsClaims(users[u], users'[u])
  PROVE  Consents(u)
<1>1. users[u] \in UserAccount /\ users'[u] \in UserAccount /\ wallets[u] \in Nat
  BY DEF TypeOK
<1> QED BY <1>1 DEF Consents, GivesUp, KeepsClaims, UserAccount

(* So does one whom nothing happens to. *)
LEMMA LeftAloneConsents ==
  ASSUME TypeOK, TypeOK', NEW u \in Users, wallets'[u] = wallets[u], users'[u] = users[u]
  PROVE  Consents(u)
<1>1. KeepsClaims(users[u], users'[u])
  BY DEF TypeOK, KeepsClaims, UserAccount
<1> QED BY <1>1, KeptConsents

(* The heir of a stake keeps tokens and claims. *)
LEMMA HeirConsents ==
  ASSUME TypeOK, TypeOK', NEW old \in Users, NEW new \in Users,
         HandleTransferOwnership(old, new)
  PROVE  Consents(new)
<1> DEFINE s == Of(old)
           shares == users[old].active_stake
           out == TransferUnstaked(old)
           paid == TransferWithdrawn(old)
           amount == TransferredAmount(old)
           heir == [farm |-> paid.farm, user |-> Heir(new)]
<1>1. /\ old # new
      /\ UnstakeOk(s, shares, env)
      /\ WithdrawUnstakedDepositsOk(out, now)
      /\ StakeOk(heir, amount, env)
      /\ users' = [users EXCEPT ![old] = paid.user, ![new] = Stake(heir, amount, env).user]
      /\ UNCHANGED stakeTokens
  BY DEF HandleTransferOwnership
<1>2. s \in Accounts /\ env \in Environment /\ shares \in Nat /\ now \in Nat
  BY OfTypes DEF TypeOK, UserAccount
<1>3. /\ out = Unstake(s, shares, env)
      /\ paid = WithdrawUnstakedDeposits(out) /\ amount = AmountToWithdraw(out)
  BY DEF TransferUnstaked, TransferWithdrawn, TransferredAmount
<1>4. Heir(new) \in UserAccount /\ KeepsClaims(users[new], Heir(new)) /\ users[new] \in UserAccount
  <2> DEFINE begun == InitializeUser(users[new], now)
  <2>1. users[new] \in UserAccount
    BY DEF TypeOK
  <2>2. begun \in UserAccount
    BY <1>2, <2>1 DEF InitializeUser, UserAccount
  <2>3. KeepsClaims(users[new], begun)
    BY <2>1 DEF InitializeUser, UserAccount, KeepsClaims
  <2>4. KeepsClaims(users[new], users[new])
    BY <2>1 DEF UserAccount, KeepsClaims
  <2> HIDE DEF begun
  <2> QED BY <2>1, <2>2, <2>3, <2>4 DEF Heir, begun
<1> HIDE DEF s, shares, out, paid, amount
<1>5. out \in Accounts
  BY <1>1, <1>2, <1>3, UnstakeBooks
<1>6. paid \in Accounts /\ amount \in Nat
  BY <1>1, <1>2, <1>3, <1>5, WithdrawUnstakedDepositsBooks
<1>7. heir \in Accounts /\ heir.user = Heir(new)
  BY <1>4, <1>6 DEF Accounts
<1> HIDE DEF heir
<1>8. KeepsClaims(Heir(new), Stake(heir, amount, env).user)
      /\ Stake(heir, amount, env).user \in UserAccount
  BY <1>1, <1>2, <1>6, <1>7, StakeKeepsClaims, StakeBooks DEF Accounts
<1>9. users'[new] = Stake(heir, amount, env).user /\ wallets'[new] = wallets[new]
  BY <1>1 DEF TypeOK, stakeTokens
<1> QED BY <1>4, <1>8, <1>9, KeepsClaimsTransitive, KeptConsents

(* An owner's instruction has the owner's signature, or a delegate's, and    *)
(* touches other users as heirs only.                                        *)
LEMMA OwnerInstructionConsents ==
  ASSUME TypeOK, TypeOK', NEW key \in Keys, NEW u \in Users, OwnerInstruction(key, u),
         NEW w \in Users
  PROVE  Consents(w)
<1>1. signer' = u \/ (Delegated /\ signer' \in Delegates)
  BY DEF OwnerInstruction, InitializeUserBy, StakeBy, UnstakeBy, WithdrawUnstakedDepositsBy,
         HarvestRewardBy, TransferOwnershipBy, Signed
<1>2. CASE w = u
  BY <1>1, <1>2 DEF Consents
<1>3. CASE w # u
  <2>1. ASSUME NEW new \in Users, HandleTransferOwnership(u, new) PROVE Consents(w)
    <3>1. CASE w = new
      BY <2>1, <3>1, HeirConsents
    <3>2. CASE w # new
      BY <1>3, <2>1, <3>2, LeftAloneConsents DEF HandleTransferOwnership, TypeOK, stakeTokens
    <3> QED BY <3>1, <3>2
  <2>2. CASE \/ InitializeUserBy(key, u)
             \/ \E amount \in StakeAmounts : StakeBy(key, u, amount)
             \/ \E shares \in UnstakeShares : UnstakeBy(key, u, shares)
             \/ WithdrawUnstakedDepositsBy(key, u)
             \/ \E i \in RewardIndex : HarvestRewardBy(key, u, i)
    <3>1. users'[w] = users[w] /\ wallets'[w] = wallets[w]
      BY <1>3, <2>2
      DEF TypeOK, InitializeUserBy, StakeBy, UnstakeBy, WithdrawUnstakedDepositsBy, HarvestRewardBy,
          HandleInitializeUser, HandleStake, HandleUnstake, HandleWithdrawUnstakedDeposits,
          HandleHarvestReward, Becomes, stakeTokens
    <3> QED BY <3>1, LeftAloneConsents
  <2> QED BY <2>1, <2>2 DEF OwnerInstruction, TransferOwnershipBy
<1> QED BY <1>2, <1>3

(* What anyone may sign keeps everybody's tokens and claims. *)
LEMMA PublicInstructionConsents ==
  ASSUME TypeOK, TypeOK', NEW key \in Keys, PublicInstruction(key), NEW w \in Users
  PROVE  Consents(w)
<1>1. ASSUME NEW u \in Users, RefreshUserStateBy(key, u) PROVE Consents(w)
  <2>1. /\ UserRefreshStateOk(Of(u), env) /\ Becomes(u, UserRefreshState(Of(u), env))
        /\ UNCHANGED stakeTokens
    BY <1>1 DEF RefreshUserStateBy, HandleRefreshUserState
  <2>2. Of(u) \in Accounts /\ env \in Environment /\ Of(u).user = users[u]
    BY OfTypes
  <2>3. KeepsClaims(users[u], UserRefreshState(Of(u), env).user)
    BY <2>1, <2>2, UserRefreshStateKeepsClaims
  <2>4. CASE w = u
    <3>1. users'[w] = UserRefreshState(Of(u), env).user /\ wallets'[w] = wallets[w]
      BY <2>1, <2>4 DEF TypeOK, Becomes, stakeTokens
    <3> QED BY <2>3, <2>4, <3>1, KeptConsents
  <2>5. CASE w # u
    BY <2>1, <2>5, LeftAloneConsents DEF TypeOK, Becomes, stakeTokens
  <2> QED BY <2>4, <2>5
<1>2. CASE ~\E u \in Users : RefreshUserStateBy(key, u)
  BY <1>2, LeftAloneConsents
  DEF PublicInstruction, RefreshFarmBy, AddRewardBy, WithdrawSlashedAmountBy,
      HandleRefreshFarm, HandleAddReward, HandleWithdrawSlashedAmount, stakeTokens
<1> QED BY <1>1, <1>2

(* An authority touches stakes as a delegate only. *)
LEMMA AdminInstructionConsents ==
  ASSUME TypeOK, TypeOK', NEW key \in Keys, AdminInstruction(key), NEW w \in Users
  PROVE  Consents(w)
<1>1. CASE \E u \in Users, stake \in DelegatedStakes : SetStakeDelegatedBy(key, u, stake)
  BY <1>1 DEF SetStakeDelegatedBy, HandleSetStakeDelegated, Signed, Consents
<1>2. ASSUME NEW u \in Users, NEW i \in RewardIndex, NEW amount \in CreditAmounts,
             RewardUserOnceBy(key, u, i, amount)
      PROVE  Consents(w)
  <2>1. Becomes(u, RewardUserOnce(Of(u), i, amount)) /\ UNCHANGED stakeTokens
    BY <1>2 DEF RewardUserOnceBy, HandleRewardUserOnce
  <2>2. KeepsClaims(users[w], users'[w])
    BY <2>1 DEF Becomes, RewardUserOnce, Of, TypeOK, UserAccount, KeepsClaims
  <2> QED BY <2>1, <2>2, KeptConsents DEF stakeTokens
<1>3. CASE \E option \in Authority!KeyOptions : \E new \in Candidates[option] :
             UpdateKeyBy(key, option, new)
  <2>1. wallets'[w] = wallets[w] /\ users'[w] = users[w]
    BY <1>3, UpdateKeySteps DEF HandleUpdateFarmConfig, stakeTokens, vars
  <2> QED BY <2>1, LeftAloneConsents
<1>4. CASE \/ InitializeRewardBy(key)
           \/ \E i \in RewardIndex, amount \in RewardAmounts : WithdrawRewardBy(key, i, amount)
           \/ \E amount \in VaultDeposits : DepositToFarmVaultBy(key, amount)
           \/ \E amount \in VaultWithdrawals : WithdrawFromFarmVaultBy(key, amount)
           \/ \E config \in FarmConfigs : UpdateFarmConfigBy(key, config)
           \/ \E i \in RewardIndex, config \in RewardConfigs : UpdateRewardConfigBy(key, i, config)
  <2>1. wallets'[w] = wallets[w] /\ users'[w] = users[w]
    BY <1>4 DEF InitializeRewardBy, WithdrawRewardBy, DepositToFarmVaultBy,
                WithdrawFromFarmVaultBy, UpdateFarmConfigBy, UpdateRewardConfigBy,
                HandleInitializeReward, HandleWithdrawReward, HandleDepositToFarmVault,
                HandleWithdrawFromFarmVault, HandleUpdateFarmConfig, HandleUpdateRewardConfig,
                stakeTokens
  <2> QED BY <2>1, LeftAloneConsents
<1> QED BY <1>1, <1>2, <1>3, <1>4 DEF AdminInstruction

(* Every step has the consent of those it takes something from. *)
LEMMA GovernedConsents ==
  TypeOK /\ TypeOK' /\ [GovernedNext]_governedVars => \A u \in Users : Consents(u)
<1> SUFFICES ASSUME TypeOK, TypeOK', [GovernedNext]_governedVars, NEW w \in Users
             PROVE  Consents(w)
  OBVIOUS
<1>1. ASSUME NEW key \in Keys, GlobalAdminInstruction(key) \/ KeyInstruction(key)
      PROVE  Consents(w)
  <2>1. wallets'[w] = wallets[w] /\ users'[w] = users[w]
    BY <1>1 DEF GlobalAdminInstruction, UpdateGlobalConfigBy, WithdrawTreasuryBy,
                HandleUpdateGlobalConfig, HandleWithdrawTreasury, KeyInstruction, vars, stakeTokens
  <2> QED BY <2>1, LeftAloneConsents
<1>2. CASE World \/ UNCHANGED governedVars
  <2>1. wallets'[w] = wallets[w] /\ users'[w] = users[w]
    BY <1>2 DEF World, Tick, UpdatePrice, governedVars, vars, stakeTokens
  <2> QED BY <2>1, LeftAloneConsents
<1> QED BY <1>1, <1>2, OwnerInstructionConsents, PublicInstructionConsents,
           AdminInstructionConsents DEF GovernedNext

(* Nobody but the owner, or on a delegated farm a delegate, puts a user's    *)
(* tokens in, takes stake out or delays a withdrawal.                        *)
THEOREM OwnersAreAsked == GovernedSpec => OwnersDecide
<1>1. Custody /\ Custody' /\ [GovernedNext]_governedVars => \A u \in Users : Consents(u)
  BY GovernedConsents DEF Custody
<1> QED BY <1>1, GovernedCustody, PTL DEF GovernedSpec, OwnersDecide, Consents

-----------------------------------------------------------------------------
(* The delegated admin of the rates. *)

(* The farm and its rewards keep their configurations. *)
KeepsConfigs(f, g) ==
  /\ g.config = f.config
  /\ \A i \in RewardIndex : g.rewards[i].config = f.rewards[i].config

(* A reward that is refreshed keeps its configuration. *)
LEMMA RefreshGlobalRewardKeepsConfig ==
  ASSUME NEW f, NEW r \in RewardInfo, NEW e
  PROVE  RefreshGlobalReward(f, r, e).config = r.config
<1>1. CASE e.ts = r.last_issuance_ts \/ f.active.stake = 0 \/ IssuableAmount(f, r, e) = 0
  BY <1>1 DEF RefreshGlobalReward, RewardInfo
<1>2. CASE ~(e.ts = r.last_issuance_ts \/ f.active.stake = 0 \/ IssuableAmount(f, r, e) = 0)
  <2> DEFINE a == IssuedAmount(f, r, e)
             p == PerShare(f, a)
  <2>1. RefreshGlobalReward(f, r, e) =
          [ r EXCEPT !.last_issuance_ts = e.ts,
                     !.rewards_issued_unclaimed = @ + a,
                     !.rewards_issued_cumulative = @ + a,
                     !.rewards_available = @ - a,
                     !.reward_per_share_scaled = @ + p ]
    BY <1>2 DEF RefreshGlobalReward
  <2> HIDE DEF a, p
  <2> QED BY <2>1 DEF RewardInfo
<1> QED BY <1>1, <1>2

(* So do all of them, and the farm. *)
LEMMA RefreshGlobalRewardsKeepConfigs ==
  ASSUME NEW f \in FarmAccount, NEW e
  PROVE  KeepsConfigs(f, RefreshGlobalRewards(f, e))
<1> DEFINE g == RefreshGlobalRewards(f, e)
           rewards == [ i \in RewardIndex |->
                          IF i \in InitialisedRewards(f)
                          THEN RefreshGlobalReward(f, f.rewards[i], e) ELSE f.rewards[i] ]
<1>1. g.config = f.config /\ g.rewards = rewards
  BY DEF RefreshGlobalRewards, FarmAccount
<1>2. ASSUME NEW i \in RewardIndex PROVE rewards[i].config = f.rewards[i].config
  <2>1. f.rewards[i] \in RewardInfo
    BY RewardFields
  <2> QED BY <2>1, RefreshGlobalRewardKeepsConfig
<1> HIDE DEF g, rewards
<1> QED BY <1>1, <1>2 DEF KeepsConfigs, g

(* A matured deposit moves between the pools only. *)
LEMMA UserRefreshStakeKeepsConfigs ==
  ASSUME NEW s \in Accounts, NEW e \in Environment, UserRefreshStakeOk(s, e)
  PROVE  KeepsConfigs(s.farm, UserRefreshStake(s, e).farm)
<1> DEFINE f == InitializeRewardTsIfNeeded(s.farm, e.ts)
           t == [s EXCEPT !.farm = f]
<1>1. f \in FarmAccount /\ OnlyIssues(s.farm, f)
  BY InitializeRewardTsIssues DEF Accounts, Environment
<1>2. KeepsConfigs(s.farm, f)
  <2>1. s.farm \in FarmAccount /\ s.farm.rewards \in [RewardIndex -> RewardInfo]
    BY FarmFields DEF Accounts
  <2>2. CASE s.farm.active.amount # 0
    BY <2>2 DEF InitializeRewardTsIfNeeded, KeepsConfigs
  <2>3. CASE s.farm.active.amount = 0
    <3> DEFINE rewards == [i \in RewardIndex |->
                  IF i \in InitialisedRewards(s.farm)
                  THEN [s.farm.rewards[i] EXCEPT !.last_issuance_ts = e.ts]
                  ELSE s.farm.rewards[i]]
    <3>1. f.config = s.farm.config /\ f.rewards = rewards
      BY <2>1, <2>3 DEF InitializeRewardTsIfNeeded, FarmAccount
    <3>2. ASSUME NEW i \in RewardIndex PROVE rewards[i].config = s.farm.rewards[i].config
      BY <2>1 DEF RewardInfo
    <3> HIDE DEF f, rewards
    <3> QED BY <3>1, <3>2 DEF KeepsConfigs
  <2> QED BY <2>2, <2>3
<1> HIDE DEF f
<1>3. t \in Accounts /\ t.farm = f /\ t.user = s.user
  BY <1>1 DEF Accounts
<1>4. CASE DepositMatured(s.user, e.ts)
  <2> DEFINE a == ActivatePendingStake(t)
             shares == ActivatedShares(t)
  <2>1. ActivatePendingStakeOk(t)
    BY <1>1, <1>3, <1>4 DEF UserRefreshStakeOk, ActivatePendingStakeOk, ActivatedAmount, OnlyIssues
  <2>2. a \in Accounts
    BY <1>3, <2>1, ActivatePendingStakeBooks
  <2>3. a.farm.config = f.config /\ a.farm.rewards = f.rewards
    BY <1>1, <1>3 DEF ActivatePendingStake, AddActiveStake, RemovePendingDepositStake, FarmAccount
  <2>4. shares \in Nat
    BY <1>3, SharesForNat, AmountForNat, FarmFields
    DEF ActivatedShares, ActivatedAmount, Accounts, UserAccount
  <2>5. UserRefreshStake(s, e) = IncreaseTally(a, shares)
    BY <1>4 DEF UserRefreshStake, f
  <2> HIDE DEF a, shares
  <2>6. UserRefreshStake(s, e).farm = a.farm
    BY <2>2, <2>4, <2>5, IncreaseTallyTypes
  <2> QED BY <1>2, <2>3, <2>6 DEF KeepsConfigs
<1>5. CASE ~DepositMatured(s.user, e.ts)
  <2>1. UserRefreshStake(s, e) = t
    BY <1>5 DEF UserRefreshStake, f
  <2> QED BY <1>2, <1>3, <2>1
<1> QED BY <1>4, <1>5

(* So the refresh of a user keeps the configurations. *)
LEMMA UserRefreshStateKeepsConfigs ==
  ASSUME NEW s \in Accounts, NEW e \in Environment, UserRefreshStateOk(s, e)
  PROVE  KeepsConfigs(s.farm, UserRefreshState(s, e).farm)
<1> DEFINE t == RefreshRewards(s, e)
           v == UserRefreshStake(t, e)
<1>1. RefreshRewardsOk(s, e) /\ (~Delegated => UserRefreshStakeOk(t, e))
  BY DEF UserRefreshStateOk
<1>2. t \in Accounts /\ t.farm = RefreshGlobalRewards(s.farm, e)
  BY <1>1, RefreshRewardsIssues
<1>3. KeepsConfigs(s.farm, t.farm)
  BY <1>2, RefreshGlobalRewardsKeepConfigs DEF Accounts
<1>4. CASE Delegated
  BY <1>3, <1>4 DEF UserRefreshState
<1>5. CASE ~Delegated
  <2>1. UserRefreshState(s, e) = v
    BY <1>5 DEF UserRefreshState
  <2>2. KeepsConfigs(t.farm, v.farm)
    BY <1>1, <1>2, <1>5, UserRefreshStakeKeepsConfigs
  <2> HIDE DEF t, v
  <2> QED BY <1>3, <2>1, <2>2 DEF KeepsConfigs
<1> QED BY <1>4, <1>5

(* The rule of RpsAdminSetsRates. *)
RatesOnly ==
  /\ farm'.config = farm.config
  /\ \A i \in RewardIndex :
       /\ OnlySchedule(farm.rewards[i].config, farm'.rewards[i].config)
       /\ reward_vault'[i] >= reward_vault[i] /\ treasury_vault'[i] = treasury_vault[i]
  /\ UNCHANGED wallets

(* To keep a configuration is to set nothing but the schedule, too. *)
LEMMA KeptConfigsAreRates ==
  ASSUME TypeOK, KeepsConfigs(farm, farm'), UNCHANGED <<wallets, treasury_vault>>,
         \A i \in RewardIndex : reward_vault'[i] >= reward_vault[i]
  PROVE  RatesOnly
<1>1. ASSUME NEW i \in RewardIndex
      PROVE  OnlySchedule(farm.rewards[i].config, farm'.rewards[i].config)
  <2> DEFINE c == farm.rewards[i].config
  <2>1. c \in RewardConfig
    BY RewardFields DEF TypeOK, RewardInfo
  <2>2. farm'.rewards[i].config = c
    BY DEF KeepsConfigs
  <2> HIDE DEF c
  <2>3. [c EXCEPT !.reward_schedule_curve = c.reward_schedule_curve] = c
    BY <2>1 DEF RewardConfig
  <2> QED BY <2>2, <2>3 DEF OnlySchedule, c
<1> QED BY <1>1 DEF RatesOnly, KeepsConfigs

(* What anyone may sign: refreshes, rewards paid in and penalties sent on. *)
LEMMA PublicInstructionRates ==
  ASSUME TypeOK, NEW key \in Keys, PublicInstruction(key)
  PROVE  RatesOnly
<1>1. /\ farm \in FarmAccount /\ env \in Environment
      /\ reward_vault \in [RewardIndex -> Nat]
      /\ \A i \in RewardIndex : reward_vault[i] >= reward_vault[i]
  BY DEF TypeOK, env, Environment
<1>2. CASE RefreshFarmBy(key)
  <2>1. farm' = RefreshGlobalRewards(farm, env) /\ UNCHANGED <<stakeTokens, rewardTokens>>
    BY <1>2 DEF RefreshFarmBy, HandleRefreshFarm
  <2>2. KeepsConfigs(farm, farm')
    BY <1>1, <2>1, RefreshGlobalRewardsKeepConfigs
  <2> QED BY <1>1, <2>1, <2>2, KeptConfigsAreRates DEF stakeTokens, rewardTokens
<1>3. ASSUME NEW u \in Users, RefreshUserStateBy(key, u) PROVE RatesOnly
  <2>1. /\ UserRefreshStateOk(Of(u), env) /\ farm' = UserRefreshState(Of(u), env).farm
        /\ UNCHANGED <<stakeTokens, rewardTokens>>
    BY <1>3 DEF RefreshUserStateBy, HandleRefreshUserState, Becomes
  <2>2. Of(u) \in Accounts /\ Of(u).farm = farm
    BY OfTypes
  <2>3. KeepsConfigs(farm, farm')
    BY <1>1, <2>1, <2>2, UserRefreshStateKeepsConfigs
  <2> QED BY <1>1, <2>1, <2>3, KeptConfigsAreRates DEF stakeTokens, rewardTokens
<1>4. ASSUME NEW i \in RewardIndex, NEW amount \in RewardAmounts, AddRewardBy(key, i, amount)
      PROVE  RatesOnly
  <2> DEFINE g == RefreshGlobalRewards(farm, env)
  <2>1. /\ farm' = AddReward(farm, i, amount, env)
        /\ RefreshGlobalRewardsOk(farm, env)
        /\ reward_vault' = [reward_vault EXCEPT ![i] = @ + amount]
        /\ UNCHANGED <<stakeTokens, treasury_vault>>
    BY <1>4 DEF AddRewardBy, HandleAddReward, AddRewardOk
  <2>2. KeepsConfigs(farm, g) /\ g \in FarmAccount
    BY <1>1, <2>1, RefreshGlobalRewardsKeepConfigs, RefreshGlobalRewardsIssues
  <2>3. farm' = [g EXCEPT !.rewards[i].rewards_available = @ + amount]
    BY <2>1 DEF AddReward
  <2> HIDE DEF g
  <2>4. KeepsConfigs(g, farm')
    <3>1. g.rewards \in [RewardIndex -> RewardInfo]
      BY <2>2, FarmFields
    <3>2. /\ farm'.config = g.config
          /\ farm'.rewards = [g.rewards EXCEPT ![i].rewards_available = @ + amount]
      BY <2>2, <2>3 DEF FarmAccount
    <3> QED BY <3>1, <3>2 DEF KeepsConfigs, RewardInfo
  <2>5. KeepsConfigs(farm, farm')
    BY <2>2, <2>4 DEF KeepsConfigs
  <2>6. \A j \in RewardIndex : reward_vault'[j] >= reward_vault[j]
    <3>1. amount \in Nat
      BY FarmAssumption
    <3> QED BY <1>1, <2>1, <3>1
  <2> QED BY <2>1, <2>5, <2>6, KeptConfigsAreRates DEF stakeTokens
<1>5. CASE WithdrawSlashedAmountBy(key)
  <2>1. farm' = [farm EXCEPT !.slashed = 0] /\ UNCHANGED <<wallets, rewardTokens>>
    BY <1>5 DEF WithdrawSlashedAmountBy, HandleWithdrawSlashedAmount
  <2>2. KeepsConfigs(farm, farm')
    BY <1>1, <2>1 DEF KeepsConfigs, FarmAccount
  <2> QED BY <1>1, <2>1, <2>2, KeptConfigsAreRates DEF rewardTokens
<1> QED BY <1>2, <1>3, <1>4, <1>5 DEF PublicInstruction

(* Of the instructions of the authorities the schedule is theirs to set. *)
LEMMA AdminInstructionRates ==
  ASSUME TypeOK, NEW key \in Keys, AdminInstruction(key), HoldsOnlyRates(key)
  PROVE  RatesOnly
<1>1. PICK i \in RewardIndex, config \in RewardConfigs : UpdateRewardConfigBy(key, i, config)
  BY DEF AdminInstruction, HoldsOnlyRates, InitializeRewardBy, WithdrawRewardBy, RewardUserOnceBy,
         DepositToFarmVaultBy, WithdrawFromFarmVaultBy, SetStakeDelegatedBy, UpdateFarmConfigBy,
         IsFarmAdmin, UpdateKeyBy, Authority!UpdateFarmConfigKey
<1> DEFINE g == RefreshGlobalRewards(farm, env)
<1>2. /\ OnlySchedule(farm.rewards[i].config, config)
      /\ UpdateRewardConfigOk(farm, i, config, env)
      /\ farm' = UpdateRewardConfig(farm, i, config, env)
      /\ UNCHANGED <<stakeTokens, rewardTokens>>
  BY <1>1 DEF UpdateRewardConfigBy, HoldsOnlyRates, IsFarmAdmin, HandleUpdateRewardConfig
<1>3. /\ farm \in FarmAccount /\ env \in Environment
      /\ reward_vault \in [RewardIndex -> Nat]
  BY DEF TypeOK, env, Environment
<1>4. KeepsConfigs(farm, g) /\ g \in FarmAccount
  BY <1>2, <1>3, RefreshGlobalRewardsKeepConfigs, RefreshGlobalRewardsIssues
  DEF UpdateRewardConfigOk
<1>5. farm' = [g EXCEPT !.rewards[i].config = config, !.rewards[i].last_issuance_ts = env.ts]
  BY <1>2 DEF UpdateRewardConfig
<1> HIDE DEF g
<1>6. /\ farm'.config = g.config /\ farm'.rewards[i].config = config
      /\ \A j \in RewardIndex \ {i} : farm'.rewards[j] = g.rewards[j]
  <2>1. g.rewards \in [RewardIndex -> RewardInfo]
    BY <1>4, FarmFields
  <2>2. /\ farm'.config = g.config
        /\ farm'.rewards = [g.rewards EXCEPT ![i] =
               [[@ EXCEPT !.config = config] EXCEPT !.last_issuance_ts = env.ts]]
    BY <1>4, <1>5, <2>1 DEF FarmAccount
  <2> QED BY <2>1, <2>2 DEF RewardInfo
<1>7. ASSUME NEW j \in RewardIndex
      PROVE  OnlySchedule(farm.rewards[j].config, farm'.rewards[j].config)
  <2>1. CASE j = i
    BY <1>2, <1>6, <2>1
  <2>2. CASE j # i
    <3> DEFINE c == farm.rewards[j].config
    <3>1. c \in RewardConfig
      BY <1>3, RewardFields DEF RewardInfo
    <3>2. farm'.rewards[j].config = c
      BY <1>4, <1>6, <2>2 DEF KeepsConfigs
    <3> HIDE DEF c
    <3>3. [c EXCEPT !.reward_schedule_curve = c.reward_schedule_curve] = c
      BY <3>1 DEF RewardConfig
    <3> QED BY <3>2, <3>3 DEF OnlySchedule, c
  <2> QED BY <2>1, <2>2
<1>8. farm'.config = farm.config
  BY <1>4, <1>6 DEF KeepsConfigs
<1>9. \A j \in RewardIndex : /\ reward_vault'[j] >= reward_vault[j]
                             /\ treasury_vault'[j] = treasury_vault[j]
  BY <1>2, <1>3 DEF rewardTokens
<1> QED BY <1>2, <1>7, <1>8, <1>9 DEF RatesOnly, stakeTokens

(* Every step that the delegated admin of the rates signs. *)
LEMMA GovernedRates ==
  TypeOK /\ [GovernedNext]_governedVars
    => (signer' \in Keys /\ HoldsOnlyRates(signer') => RatesOnly)
<1> SUFFICES ASSUME TypeOK, [GovernedNext]_governedVars, signer' \in Keys, HoldsOnlyRates(signer')
             PROVE  RatesOnly
  OBVIOUS
<1>1. ASSUME UNCHANGED vars PROVE RatesOnly
  <2>1. farm' = farm /\ UNCHANGED <<wallets, treasury_vault, reward_vault>>
    BY <1>1 DEF vars, stakeTokens, rewardTokens
  <2>2. \A i \in RewardIndex : reward_vault'[i] >= reward_vault[i]
    BY <2>1 DEF TypeOK
  <2>3. KeepsConfigs(farm, farm')
    BY <2>1 DEF KeepsConfigs
  <2> QED BY <2>1, <2>2, <2>3, KeptConfigsAreRates
<1>2. ASSUME NEW key \in Keys, NEW u \in Users, OwnerInstruction(key, u) PROVE FALSE
  <2>1. signer' = key /\ (key = u \/ key \in Delegates)
    BY <1>2 DEF OwnerInstruction, InitializeUserBy, StakeBy, UnstakeBy, WithdrawUnstakedDepositsBy,
                HarvestRewardBy, TransferOwnershipBy, Signed
  <2> QED BY <2>1 DEF HoldsOnlyRates
<1>3. ASSUME NEW key \in Keys, PublicInstruction(key) PROVE RatesOnly
  BY <1>3, PublicInstructionRates
<1>4. ASSUME NEW key \in Keys, AdminInstruction(key) PROVE RatesOnly
  <2>1. signer' = key
    BY <1>4 DEF AdminInstruction, InitializeRewardBy, WithdrawRewardBy, RewardUserOnceBy,
         DepositToFarmVaultBy, WithdrawFromFarmVaultBy, SetStakeDelegatedBy, UpdateFarmConfigBy,
         UpdateRewardConfigBy, UpdateKeyBy, Signed
  <2> QED BY <1>4, <2>1, AdminInstructionRates
<1>5. ASSUME NEW key \in Keys, GlobalAdminInstruction(key) PROVE FALSE
  <2>1. signer' = key /\ key = global_keys.global_admin
    BY <1>5 DEF GlobalAdminInstruction, UpdateGlobalConfigBy, WithdrawTreasuryBy, Signed
  <2> QED BY <2>1 DEF HoldsOnlyRates
<1>6. ASSUME NEW key \in Keys, KeyInstruction(key) PROVE RatesOnly
  BY <1>1, <1>6 DEF KeyInstruction
<1>7. ASSUME World PROVE FALSE
  BY <1>7, GovernedAssumption DEF World
<1>8. ASSUME UNCHANGED governedVars PROVE RatesOnly
  BY <1>1, <1>8 DEF governedVars
<1> QED BY <1>2, <1>3, <1>4, <1>5, <1>6, <1>7, <1>8 DEF GovernedNext

(* The delegated admin of the rates sets nothing but schedules.              *)
THEOREM RatesAreAllTheySet == GovernedSpec => RpsAdminSetsRates
<1>1. Custody /\ [GovernedNext]_governedVars
        => (signer' \in Keys /\ HoldsOnlyRates(signer') => RatesOnly)
  BY GovernedRates DEF Custody
<1> QED BY <1>1, GovernedCustody, PTL DEF GovernedSpec, RpsAdminSetsRates, RatesOnly

=============================================================================
