----------------------------- MODULE ExitProofs -----------------------------
(* Nothing keeps a user from leaving, a matured deposit from becoming active *)
(* and the delegate authority from dictating a stake, but what the           *)
(* properties name: for every number of users and rewards, every width of    *)
(* the integers that holds the farm tokens that exist, and whatever happened *)
(* before.                                                                   *)
EXTENDS RewardProofs

-----------------------------------------------------------------------------
(* Tokens are neither minted nor lost *)

(* The farm tokens that exist. *)
TokensInAll == SumFunction([u \in Users |-> WALLET]) + ADMIN_FUNDS

(* What the users, the authorities and the farm hold is what there was, and  *)
(* what the farm and the treasury hold of a reward exists.                   *)
Conserved ==
  /\ SumFunction(wallets) + admin_ata + InSafe = TokensInAll
  /\ \A i \in RewardIndex : reward_vault[i] + treasury_vault[i] =< REWARD_SUPPLY

(* Inductive with custody. *)
SupplyInv == Custody /\ Conserved

(* The tokens and the users that exist are a number. *)
LEMMA TokensNat ==
  /\ TokensInAll \in Nat /\ UserCount \in Nat
  /\ TypeOK => SumFunction(wallets) \in Nat
<1> DEFINE a == [u \in Users |-> WALLET]
           b == [u \in Users |-> 1]
<1>1. /\ IsFiniteSet(Users) /\ ADMIN_FUNDS \in Nat
      /\ \A u \in Users : a[u] \in Nat /\ b[u] \in Nat
  BY FarmAssumption
<1>2. /\ TokensInAll = SumFunctionOnSet(a, Users) + ADMIN_FUNDS
      /\ UserCount = SumFunctionOnSet(b, Users)
  BY DEF TokensInAll, UserCount, SumFunction
<1>3. TypeOK => SumFunction(wallets) = SumFunctionOnSet(wallets, Users)
                  /\ \A u \in Users : wallets[u] \in Nat
  BY DEF TypeOK, SumFunction
<1> HIDE DEF a, b
<1>4. SumFunctionOnSet(a, Users) \in Nat /\ SumFunctionOnSet(b, Users) \in Nat
  BY <1>1, SumNat
<1> QED BY <1>1, <1>2, <1>3, <1>4, SumNat

(* A user's wallet changes by the tokens that leave it or come in. *)
LEMMA WalletMoves ==
  ASSUME NEW f, NEW g, DOMAIN f = Users, DOMAIN g = Users, NEW u \in Users, NEW n \in Int,
         \A x \in Users : f[x] \in Int /\ g[x] \in Int,
         \A x \in Users \ {u} : g[x] = f[x], g[u] = f[u] + n
  PROVE  SumFunction(g) = SumFunction(f) + n
<1>1. SumFunction(f) = SumFunctionOnSet(f, Users) /\ SumFunction(g) = SumFunctionOnSet(g, Users)
  BY DEF SumFunction
<1>2. IsFiniteSet(Users)
  BY FarmAssumption
<1>3. SumFunctionOnSet(g, Users) = SumFunctionOnSet(f, Users) + g[u] - f[u]
  BY <1>2, SumUpdate
<1>4. SumFunctionOnSet(f, Users) \in Int
  BY <1>2, SumInt
<1> QED BY <1>1, <1>3, <1>4

(* Each step of the custodian moves tokens between owners. *)
LEMMA CustodianConserves ==
  ASSUME Custody, Custody', Conserved, CustodianStep
  PROVE  Conserved'
<1>1. /\ TypeOK /\ TypeOK' /\ BookedFunds = reward_vault /\ BookedStake = InSafe
      /\ BookedFunds' = reward_vault' /\ BookedStake' = InSafe'
  BY BooksAreTokens, BooksAreTokensPrimed DEF Custody
<1>2. /\ SumFunction(wallets) \in Int /\ admin_ata \in Nat /\ InSafe \in Nat
      /\ reward_vault \in [RewardIndex -> Nat] /\ treasury_vault \in [RewardIndex -> Nat]
      /\ SumFunction(wallets) + admin_ata + InSafe = TokensInAll
      /\ REWARD_SUPPLY \in Nat
      /\ \A i \in RewardIndex : reward_vault[i] + treasury_vault[i] =< REWARD_SUPPLY
  BY <1>1, TokensNat, FarmAssumption DEF Conserved, TypeOK, InSafe
<1>3. SUFFICES /\ SumFunction(wallets)' + admin_ata' + InSafe' = TokensInAll
               /\ \A i \in RewardIndex : reward_vault'[i] + treasury_vault'[i] =< REWARD_SUPPLY
  BY DEF Conserved, TokensInAll, SumFunction
<1>4. CASE UNCHANGED Custodian!vars
  <2>1. /\ wallets' = wallets /\ admin_ata' = admin_ata /\ InSafe' = InSafe
        /\ reward_vault' = reward_vault /\ treasury_vault' = treasury_vault
    BY <1>1, <1>4 DEF Custodian!vars, Custodian!stakeSide, Custodian!rewardSide
  <2> QED BY <1>2, <2>1
<1>5. ASSUME NEW u \in Users, Custodian!PutIn(u) \/ Custodian!PayOut(u)
      PROVE  /\ SumFunction(wallets)' + admin_ata' + InSafe' = TokensInAll
             /\ UNCHANGED <<reward_vault, treasury_vault>>
  <2>1. PICK n \in Int : /\ wallets' = [wallets EXCEPT ![u] = @ + n]
                         /\ InSafe' = InSafe - n /\ admin_ata' = admin_ata
                         /\ UNCHANGED <<reward_vault, treasury_vault>>
    <3>1. CASE Custodian!PutIn(u)
      <4>1. PICK n \in 1 .. wallets[u] : /\ wallets' = [wallets EXCEPT ![u] = @ - n]
                                         /\ InSafe' = InSafe + n
                                         /\ UNCHANGED <<admin_ata, reward_vault, treasury_vault>>
        BY <1>1, <3>1 DEF Custodian!PutIn, Custodian!rewardSide
      <4>2. n \in Nat /\ wallets[u] \in Nat
        BY <1>1 DEF TypeOK
      <4>3. /\ -n \in Int /\ wallets[u] - n = wallets[u] + (-n) /\ InSafe + n = InSafe - (-n)
        BY <1>2, <4>2
      <4> QED BY <4>1, <4>3
    <3>2. CASE Custodian!PayOut(u)
      <4>1. PICK n \in 1 .. InSafe : /\ wallets' = [wallets EXCEPT ![u] = @ + n]
                                     /\ InSafe' = InSafe - n
                                     /\ UNCHANGED <<admin_ata, reward_vault, treasury_vault>>
        BY <1>1, <3>2 DEF Custodian!PayOut, Custodian!rewardSide
      <4>2. n \in Int
        BY <1>2, <4>1
      <4> QED BY <4>1, <4>2
    <3> QED BY <1>5, <3>1, <3>2
  <2>2. /\ DOMAIN wallets = Users /\ DOMAIN wallets' = Users
        /\ \A x \in Users : wallets[x] \in Int /\ wallets'[x] \in Int
        /\ \A x \in Users \ {u} : wallets'[x] = wallets[x]
        /\ wallets'[u] = wallets[u] + n
    BY <1>1, <2>1 DEF TypeOK
  <2>3. SumFunction(wallets)' = SumFunction(wallets) + n
    <3>1. SumFunction(wallets') = SumFunction(wallets) + n
      BY <2>2, WalletMoves
    <3> QED BY <3>1 DEF SumFunction
  <2> QED BY <1>2, <2>1, <2>3
<1>6. ASSUME Custodian!Supplement \/ Custodian!Confiscate
      PROVE  /\ SumFunction(wallets)' + admin_ata' + InSafe' = TokensInAll
             /\ UNCHANGED <<reward_vault, treasury_vault>>
  <2>1. PICK n \in Int : /\ wallets' = wallets /\ admin_ata' = admin_ata + n
                         /\ InSafe' = InSafe - n
                         /\ UNCHANGED <<reward_vault, treasury_vault>>
    <3>1. CASE Custodian!Supplement
      <4>1. PICK n \in 1 .. admin_ata : /\ admin_ata' = admin_ata - n /\ InSafe' = InSafe + n
                                        /\ UNCHANGED <<wallets, reward_vault, treasury_vault>>
        BY <1>1, <3>1 DEF Custodian!Supplement, Custodian!rewardSide
      <4>2. n \in Nat
        BY <1>2
      <4>3. -n \in Int /\ admin_ata - n = admin_ata + (-n) /\ InSafe + n = InSafe - (-n)
        BY <1>2, <4>2
      <4> QED BY <4>1, <4>3
    <3>2. CASE Custodian!Confiscate
      BY <1>1, <1>2, <3>2 DEF Custodian!Confiscate, Custodian!rewardSide
    <3> QED BY <1>6, <3>1, <3>2
  <2> QED BY <1>2, <2>1
<1>7. ASSUME NEW j \in RewardIndex,
             Custodian!Fund(j) \/ Custodian!Release(j) \/ Custodian!Collect(j)
      PROVE  /\ UNCHANGED <<wallets, admin_ata, InSafe>>
             /\ \A i \in RewardIndex : reward_vault'[i] + treasury_vault'[i] =< REWARD_SUPPLY
  <2>1. UNCHANGED <<wallets, admin_ata, InSafe>>
    BY <1>1, <1>7 DEF Custodian!Fund, Custodian!Release, Custodian!Collect, Custodian!stakeSide
  <2>2. reward_vault[j] \in Nat /\ treasury_vault[j] \in Nat
    BY <1>2
  <2>3. \A i \in RewardIndex \ {j} : /\ reward_vault'[i] = reward_vault[i]
                                     /\ treasury_vault'[i] = treasury_vault[i]
    BY <1>1, <1>2, <1>7 DEF Custodian!Fund, Custodian!Release, Custodian!Collect
  <2>4. reward_vault'[j] + treasury_vault'[j] =< REWARD_SUPPLY
    <3>1. CASE Custodian!Fund(j)
      <4>1. PICK n \in 1 .. REWARD_SUPPLY - reward_vault[j] - treasury_vault[j] :
              reward_vault'[j] = reward_vault[j] + n /\ treasury_vault'[j] = treasury_vault[j]
        BY <1>1, <1>2, <3>1 DEF Custodian!Fund, Custodian!Outside
      <4> QED BY <1>2, <2>2, <4>1
    <3>2. CASE Custodian!Release(j)
      <4>1. PICK n \in 1 .. reward_vault[j] : \E fee \in 0 .. n :
              /\ reward_vault'[j] = reward_vault[j] - n
              /\ treasury_vault'[j] = treasury_vault[j] + fee
        BY <1>1, <1>2, <3>2 DEF Custodian!Release
      <4> QED BY <1>2, <2>2, <4>1
    <3>3. CASE Custodian!Collect(j)
      <4>1. PICK n \in 1 .. treasury_vault[j] : /\ reward_vault'[j] = reward_vault[j]
                                                /\ treasury_vault'[j] = treasury_vault[j] - n
        BY <1>1, <1>2, <3>3 DEF Custodian!Collect
      <4> QED BY <1>2, <2>2, <4>1
    <3> QED BY <1>7, <3>1, <3>2, <3>3
  <2> QED BY <1>2, <2>1, <2>3, <2>4
<1> QED BY <1>2, <1>4, <1>5, <1>6, <1>7 DEF CustodianStep, Custodian!Next

(* At the start the users and the authorities hold everything. *)
LEMMA InitSupply == Init => SupplyInv
<1> SUFFICES ASSUME Init PROVE SupplyInv
  OBVIOUS
<1>1. Custody
  BY InitCustody
<1>2. wallets = [u \in Users |-> WALLET] /\ admin_ata = ADMIN_FUNDS /\ InSafe = 0
  BY DEF Init, InSafe
<1>3. SumFunction(wallets) + admin_ata + InSafe = TokensInAll
  BY <1>2, TokensNat DEF TokensInAll
<1>4. \A i \in RewardIndex : reward_vault[i] = 0 /\ treasury_vault[i] = 0
  BY DEF Init
<1> QED BY <1>1, <1>3, <1>4, FarmAssumption DEF SupplyInv, Conserved

(* And whatever happens, tokens only change hands. *)
LEMMA AlwaysSupply == Spec => []SupplyInv
<1>1. SupplyInv /\ Custody' /\ [Next]_vars => SupplyInv'
  <2> SUFFICES ASSUME SupplyInv, Custody', [Next]_vars PROVE SupplyInv'
    OBVIOUS
  <2>1. Booked /\ Custody /\ Conserved /\ TypeOK
    BY BooksAreTokens, BooksAreTokensPrimed DEF SupplyInv, Booked, Custody
  <2>2. CustodianStep
    BY <2>1, NextFollowsTokens
  <2> QED BY <2>1, <2>2, CustodianConserves DEF SupplyInv
<1> QED BY <1>1, InitSupply, AlwaysCustody, PTL DEF Spec

(* The farm mints no token and loses none: in every instruction, what the    *)
(* users, the authorities and the farm hold together stays what it was, and  *)
(* no more of a reward is in the farm's and the treasury's accounts than     *)
(* exists.                                                                   *)
THEOREM TokensConserved == Spec => []Conserved
<1>1. SupplyInv => Conserved
  BY DEF SupplyInv
<1> QED BY <1>1, AlwaysSupply, PTL

-----------------------------------------------------------------------------
(* What has to fit the machine integers *)

(* No more farm tokens exist than u64 can count. *)
IntegersSuffice == IsU64(TokensInAll)

(* What holds in every reachable state of all that was shown before. *)
ExitInv ==
  /\ TypeOK /\ Balanced /\ Timely /\ Match(farm, users) /\ TalliesWithin
  /\ Covered(farm, users, tally_roundings) /\ EarnedByAll(farm, users)
  /\ Custody /\ Conserved /\ CountersFit

(* It does hold. *)
LEMMA AlwaysExit == Spec => []ExitInv
<1>1. Spec => []TallyInv
  BY InitTally, NextTally, TypeCorrect, PTL DEF Spec
<1>2. Spec => []ClaimInv
  BY InitClaims, NextClaims, TypeCorrect, PTL DEF Spec
<1>3. PoolInv /\ SharesInv /\ TallyInv /\ ClaimInv /\ SupplyInv /\ CountersFit => ExitInv
  BY DEF PoolInv, SharesInv, TallyInv, ClaimInv, SupplyInv, ExitInv
<1> QED BY <1>1, <1>2, <1>3, AlwaysBalanced, AlwaysShares, AlwaysSupply, CountersInRange, PTL

(* The books of a farm with tokens are within what exists. *)
LEMMA LiabilitiesExist ==
  ASSUME ExitInv, ~Delegated
  PROVE  /\ farm.active.amount \in Nat /\ farm.pending.amount \in Nat /\ farm.slashed \in Nat
         /\ farm.active.amount + farm.pending.amount + farm.slashed =< TokensInAll
<1>1. /\ SumFunction(wallets) \in Nat /\ admin_ata \in Nat /\ farm_vault \in Nat
      /\ farm \in FarmAccount
  BY TokensNat DEF ExitInv, TypeOK
<1>2. /\ SumFunction(wallets) + admin_ata + farm_vault = TokensInAll
      /\ farm_vault = farm.active.amount + farm.pending.amount + farm.slashed
  BY DEF ExitInv, Conserved, InSafe, Custody, VaultBacksLiabilities, Liabilities
<1> QED BY <1>1, <1>2, FarmFields

(* Without its oracle the farm is the same but for that. *)
LEMMA UnpricedFarm ==
  ASSUME ExitInv
  PROVE  /\ Unpriced \in FarmAccount /\ farm \in FarmAccount
         /\ Unpriced.active = farm.active /\ Unpriced.pending = farm.pending
         /\ Unpriced.slashed = farm.slashed /\ Unpriced.frozen = farm.frozen
         /\ Unpriced.slashed_amount_cumulative = farm.slashed_amount_cumulative
         /\ Unpriced.rewards = farm.rewards
         /\ Unpriced.num_reward_tokens = farm.num_reward_tokens
         /\ InitialisedRewards(Unpriced) = InitialisedRewards(farm)
         /\ ~HasOracle(Unpriced.config)
         /\ \A c \in {Unpriced.config} :
              /\ c.deposit_warmup_period = farm.config.deposit_warmup_period
              /\ c.withdrawal_cooldown_period = farm.config.withdrawal_cooldown_period
              /\ c.locking_mode = farm.config.locking_mode
              /\ c.locking_start_timestamp = farm.config.locking_start_timestamp
              /\ c.locking_duration = farm.config.locking_duration
              /\ c.locking_early_withdrawal_penalty_bps
                   = farm.config.locking_early_withdrawal_penalty_bps
         /\ ~HasOracle(farm.config) => Unpriced = farm
<1>1. farm \in FarmAccount /\ farm.config \in FarmConfig
  BY FarmFields DEF ExitInv, TypeOK
<1>2. Unpriced.config = [farm.config EXCEPT !.scope_oracle_price_id = "None"]
  BY <1>1 DEF Unpriced, FarmAccount
<1>3. /\ Unpriced.active = farm.active /\ Unpriced.pending = farm.pending
      /\ Unpriced.slashed = farm.slashed /\ Unpriced.frozen = farm.frozen
      /\ Unpriced.slashed_amount_cumulative = farm.slashed_amount_cumulative
      /\ Unpriced.rewards = farm.rewards
      /\ Unpriced.num_reward_tokens = farm.num_reward_tokens
  BY <1>1 DEF Unpriced, FarmAccount
<1>4. Unpriced \in FarmAccount
  BY <1>1 DEF Unpriced, FarmAccount, FarmConfig, OraclePriceId
<1>5. ~HasOracle(farm.config) => Unpriced = farm
  <2> SUFFICES ASSUME farm.config.scope_oracle_price_id = "None" PROVE Unpriced = farm
    BY <1>1 DEF HasOracle
  <2>1. [farm.config EXCEPT !.scope_oracle_price_id = "None"] = farm.config
    BY <1>1 DEF FarmConfig
  <2> QED BY <1>1, <2>1 DEF Unpriced, FarmAccount
<1>6. ~HasOracle(Unpriced.config)
  BY <1>1, <1>2 DEF HasOracle, FarmConfig
<1> QED BY <1>1, <1>2, <1>3, <1>4, <1>5, <1>6 DEF FarmConfig, InitialisedRewards

(* Schedules in range and room in the counters let the rewards be issued. *)
LEMMA IssuanceAccepted ==
  ASSUME ExitInv, SchedulesInRange, CountersHaveRoom
  PROVE  RefreshGlobalRewardsOk(Unpriced, env)
<1>1. /\ Unpriced.active = farm.active /\ Unpriced.rewards = farm.rewards
      /\ InitialisedRewards(Unpriced) = InitialisedRewards(farm)
      /\ ~HasOracle(Unpriced.config) /\ farm \in FarmAccount
  BY UnpricedFarm
<1> SUFFICES ASSUME NEW i \in InitialisedRewards(farm), now # farm.rewards[i].last_issuance_ts,
                    farm.active.stake # 0
             PROVE  RefreshGlobalRewardOk(Unpriced, farm.rewards[i], env)
  BY <1>1 DEF RefreshGlobalRewardsOk, RefreshGlobalRewardOk, env
<1> DEFINE r == farm.rewards[i]
           issued == IssuedAmount(Unpriced, r, env)
<1>2. /\ i \in RewardIndex /\ r \in RewardInfo /\ farm.active.stake \in Nat
      /\ r.rewards_issued_unclaimed \in Nat /\ r.rewards_available \in Nat
      /\ r.rewards_issued_cumulative \in Nat
  BY <1>1, FarmFields, RewardFields
<1>3. r.last_issuance_ts =< env.ts
  BY <1>2 DEF ExitInv, Timely, env
<1>4. /\ StartedBy(r.config.reward_schedule_curve, r.last_issuance_ts)
      /\ TenPowOk(r.config.rewards_per_second_decimals)
      /\ IsU64(CumulativeAmount(r.config.reward_schedule_curve, r.last_issuance_ts, env.ts))
      /\ IsU64(IssuableAmount(Unpriced, r, env))
      /\ IsU128(r.reward_per_share_scaled + PerShare(Unpriced, issued))
  BY <1>1, <1>2 DEF SchedulesInRange, PerShare, env
<1>5. /\ IsU64(r.rewards_issued_cumulative + r.rewards_available)
      /\ IsU64(r.rewards_issued_unclaimed + r.rewards_available
                 + (tally_roundings + UserCount) \div WAD)
  BY DEF CountersHaveRoom
<1> HIDE DEF r
<1>6. issued \in Nat /\ issued =< r.rewards_available
  BY <1>2, <1>4, MachineIntegersAreNat DEF IssuedAmount, Least
<1> HIDE DEF issued
<1>7. /\ IsU64(r.rewards_issued_unclaimed + issued)
      /\ IsU64(r.rewards_issued_cumulative + issued)
  <2> DEFINE spare == (tally_roundings + UserCount) \div WAD
  <2>1. spare \in Nat
    BY TokensNat, MathAssumption DEF ExitInv, TypeOK
  <2> HIDE DEF spare
  <2>2. IsU64(r.rewards_issued_unclaimed + r.rewards_available + spare)
    BY <1>5 DEF spare
  <2>3. /\ r.rewards_issued_unclaimed + issued \in Nat
        /\ r.rewards_issued_cumulative + issued \in Nat
        /\ r.rewards_issued_unclaimed + issued
             =< r.rewards_issued_unclaimed + r.rewards_available + spare
        /\ r.rewards_issued_cumulative + issued
             =< r.rewards_issued_cumulative + r.rewards_available
    BY <1>2, <1>6, <2>1
  <2> QED BY <1>5, <2>2, <2>3, LessFits
<1> QED BY <1>1, <1>3, <1>4, <1>7 DEF RefreshGlobalRewardOk, issued, r

(* What issuing the rewards makes of the farm. *)
LEMMA RefreshedFarm ==
  ASSUME ExitInv, RefreshGlobalRewardsOk(Unpriced, env)
  PROVE  /\ Refreshed \in FarmAccount /\ OnlyIssues(Unpriced, Refreshed)
         /\ Refreshed.active = farm.active
         /\ InitialisedRewards(Refreshed) = InitialisedRewards(farm)
         /\ RewardsGrow(farm, Refreshed)
         /\ Covered(Refreshed, users, tally_roundings)
         /\ \A i \in RewardIndex :
              Refreshed.rewards[i].rewards_issued_unclaimed
                =< farm.rewards[i].rewards_issued_unclaimed + farm.rewards[i].rewards_available
<1>1. /\ Unpriced \in FarmAccount /\ farm \in FarmAccount
      /\ Unpriced.active = farm.active /\ Unpriced.rewards = farm.rewards
      /\ Unpriced.num_reward_tokens = farm.num_reward_tokens
      /\ InitialisedRewards(Unpriced) = InitialisedRewards(farm)
      /\ env \in Environment
  BY UnpricedFarm DEF ExitInv, TypeOK, env, Environment
<1>2. /\ Refreshed \in FarmAccount /\ OnlyIssues(Unpriced, Refreshed)
      /\ RewardsGrow(Unpriced, Refreshed) /\ FarmCovers(Unpriced, Refreshed)
  BY <1>1, RefreshGlobalRewardsIssues, RefreshGlobalRewardsGrow, RefreshGlobalRewardsCover
  DEF Refreshed
<1>3. /\ Refreshed.active = farm.active
      /\ Refreshed.num_reward_tokens = farm.num_reward_tokens
      /\ \A i \in RewardIndex : Promised(Refreshed, i) = Promised(farm, i)
  BY <1>1, <1>2 DEF OnlyIssues, KeepsPromises, Promised
<1>4. InitialisedRewards(Refreshed) = InitialisedRewards(farm)
  BY <1>3 DEF InitialisedRewards
<1>5. RewardsGrow(farm, Refreshed)
  BY <1>1, <1>2 DEF RewardsGrow
<1>6. Covered(Refreshed, users, tally_roundings)
  <2>1. RewardsUnset(Refreshed)
    BY <1>1, <1>2, <1>4 DEF ExitInv, Covered, RewardsUnset, FarmCovers
  <2>2. \A i \in RewardIndex : FarmSlack(farm, i) =< FarmSlack(Refreshed, i)
    BY <1>1, <1>2 DEF FarmCovers, FarmSlack
  <2> QED BY <1>1, <1>2, <2>1, <2>2, CoveredFarm DEF ExitInv, TypeOK
<1>7. ASSUME NEW i \in RewardIndex
      PROVE  Refreshed.rewards[i].rewards_issued_unclaimed
               =< farm.rewards[i].rewards_issued_unclaimed + farm.rewards[i].rewards_available
  <2>1. Promised(Refreshed, i) = Promised(farm, i)
    BY <1>3
  <2>2. /\ Refreshed.rewards[i].rewards_issued_unclaimed \in Nat
        /\ Refreshed.rewards[i].rewards_available \in Nat
        /\ farm.rewards[i].rewards_issued_unclaimed \in Nat
        /\ farm.rewards[i].rewards_available \in Nat
    BY <1>1, <1>2, RewardFields
  <2> QED BY <2>1, <2>2 DEF Promised
<1> QED BY <1>2, <1>3, <1>4, <1>5, <1>6, <1>7

-----------------------------------------------------------------------------
(* Counting a user's rewards is accepted *)

(* One user's part of what the shares of all have earned and is not counted. *)
LEMMA PartOfSums ==
  ASSUME NEW I, IsFiniteSet(I), NEW shares, NEW slack, NEW one, NEW r \in Nat, NEW k \in Nat,
         \A x \in I : /\ shares[x] \in Int /\ slack[x] \in Int /\ one[x] = 1
                      /\ 0 =< r * shares[x] - slack[x] + k,
         NEW y \in I
  PROVE  r * shares[y] - slack[y] + k
           =< r * SumFunctionOnSet(shares, I) - SumFunctionOnSet(slack, I)
                + k * SumFunctionOnSet(one, I)
<1> DEFINE p == [x \in I |-> r * shares[x] + k * one[x]]
           term == [x \in I |-> r * shares[x] - slack[x] + k]
           S == SumFunctionOnSet(shares, I)
           L == SumFunctionOnSet(slack, I)
           N == SumFunctionOnSet(one, I)
           P == SumFunctionOnSet(p, I)
           T == SumFunctionOnSet(term, I)
<1>1. 1 \in Int /\ -1 \in Int /\ r \in Int /\ k \in Int
  OBVIOUS
<1>2. ASSUME NEW x \in I
      PROVE  /\ p[x] \in Int /\ one[x] \in Int /\ term[x] \in Nat
             /\ 1 * p[x] =< r * shares[x] + k * one[x]
             /\ 1 * term[x] =< 1 * p[x] + (-1) * slack[x]
  <2>1. /\ shares[x] \in Int /\ slack[x] \in Int /\ one[x] = 1
        /\ p[x] = r * shares[x] + k * one[x] /\ term[x] = r * shares[x] - slack[x] + k
        /\ 0 =< term[x]
    OBVIOUS
  <2> HIDE DEF p, term
  <2>2. r * shares[x] \in Int /\ k * one[x] = k
    BY <2>1
  <2> DEFINE m == r * shares[x]
  <2>3. /\ m \in Int /\ p[x] = m + k /\ term[x] = m - slack[x] + k
        /\ m + k =< r * shares[x] + k * one[x]
    BY <2>1, <2>2
  <2> HIDE DEF m
  <2> QED BY <2>1, <2>2, <2>3
<1>3. term[y] = r * shares[y] - slack[y] + k
  OBVIOUS
<1> HIDE DEF p, term
<1>4. S \in Int /\ L \in Int /\ N \in Int /\ P \in Int /\ T \in Int
  <2>1. \A x \in I : term[x] \in Int
    BY <1>2
  <2> QED BY <1>2, <2>1, SumInt
<1>5. 1 * P =< r * S + k * N
  BY <1>1, <1>2, SumLinear
<1>6. 1 * T =< 1 * P + (-1) * L
  <2> DEFINE minus == -1
  <2>1. minus \in Int /\ 1 \in Int
    BY <1>1
  <2>2. \A x \in I : /\ p[x] \in Int /\ slack[x] \in Int /\ term[x] \in Int
                    /\ 1 * term[x] =< 1 * p[x] + minus * slack[x]
    BY <1>2
  <2> HIDE DEF minus
  <2>3. 1 * T =< 1 * P + minus * L
    BY <2>1, <2>2, SumLinear
  <2> QED BY <2>3 DEF minus
<1>7. term[y] =< T
  BY <1>2, SumMember
<1>8. term[y] \in Nat
  BY <1>2
<1> HIDE DEF S, L, N, P, T
<1>9. r * S \in Int /\ k * N \in Int
  BY <1>4
<1>10. term[y] =< r * S - L + k * N
  BY <1>4, <1>5, <1>6, <1>7, <1>8, <1>9
<1> QED BY <1>3, <1>10 DEF S, L, N

(* A multiple that exceeds another by y at most is that of a number which    *)
(* exceeds the other's by the quotient of y at most.                         *)
LEMMA MultipleBound ==
  ASSUME NEW d \in Nat \ {0}, NEW x \in Nat, NEW b \in Nat, NEW y \in Nat, d * x =< d * b + y
  PROVE  x =< b + y \div d
<1>1. y \div d \in Nat
  OBVIOUS
<1>2. CASE x =< b
  BY <1>1, <1>2
<1>3. CASE ~(x =< b)
  <2> DEFINE over == x - b
             a == d * over
  <2>1. over \in Nat /\ a = d * x - d * b /\ d * x \in Nat /\ d * b \in Nat
    BY <1>3
  <2>2. a \in Nat /\ a =< y
    BY <2>1
  <2> HIDE DEF over
  <2>3. a \div d = over
    BY <2>1
  <2> HIDE DEF a
  <2>4. a \div d =< y \div d
    BY <2>2, QuotientMonotone
  <2>5. over =< y \div d
    BY <2>3, <2>4
  <2> QED BY <1>1, <2>5 DEF over
<1> QED BY <1>2, <1>3

(* What is left to be counted of a reward fits u64 with what is counted. *)
LEMMA DueFits ==
  ASSUME ExitInv, CountersHaveRoom, RefreshGlobalRewardsOk(Unpriced, env),
         NEW u \in Users, NEW i \in InitialisedRewards(farm),
         users[u].rewards_tally[i] =< RewardValue(Refreshed, users[u].active_stake, i)
  PROVE  IsU64(users[u].rewards_issued_unclaimed[i]
                 + (RewardValue(Refreshed, users[u].active_stake, i)
                      - users[u].rewards_tally[i]) \div WAD)
<1> DEFINE shares == [v \in Users |-> users[v].active_stake]
           slack == [v \in Users |-> UserSlack(users[v], i)]
           one == [v \in Users |-> 1]
           r == Refreshed.rewards[i].reward_per_share_scaled
           issued == Refreshed.rewards[i].rewards_issued_unclaimed
           k == StakeScale
           c == WAD * StakeScale
           n == tally_roundings
           S == SumFunctionOnSet(shares, Users)
           L == SumFunctionOnSet(slack, Users)
           N == SumFunctionOnSet(one, Users)
<1>1. /\ farm \in FarmAccount /\ users \in [Users -> UserAccount] /\ n \in Nat
      /\ i \in RewardIndex /\ IsFiniteSet(Users)
  BY FarmFields, FarmAssumption DEF ExitInv, TypeOK, InitialisedRewards
<1>2. /\ Refreshed \in FarmAccount /\ Refreshed.active = farm.active
      /\ RewardsGrow(farm, Refreshed) /\ Covered(Refreshed, users, n)
      /\ issued =< farm.rewards[i].rewards_issued_unclaimed + farm.rewards[i].rewards_available
      /\ InitialisedRewards(Refreshed) = InitialisedRewards(farm)
  BY <1>1, RefreshedFarm
<1>3. r \in Nat /\ issued \in Nat
  BY <1>1, <1>2, RewardFields
<1>4. WAD \in Nat \ {0} /\ k \in Nat \ {0} /\ c \in Nat \ {0}
  BY MathAssumption, StakeScalePositive
<1> DEFINE a(v) == users[v].active_stake
           t(v) == users[v].rewards_tally[i]
           q(v) == users[v].rewards_issued_unclaimed[i]
           e(v) == RewardValue(Refreshed, a(v), i)
<1>5. ASSUME NEW v \in Users
      PROVE  /\ a(v) \in Nat /\ t(v) \in Nat /\ q(v) \in Nat /\ e(v) \in Nat
             /\ k * e(v) =< r * a(v) /\ r * a(v) \in Nat
             /\ shares[v] = a(v) /\ slack[v] = k * t(v) - c * q(v) /\ one[v] = 1
  <2>1. users[v] \in UserAccount /\ a(v) \in Nat /\ t(v) \in Nat /\ q(v) \in Nat
    BY <1>1 DEF UserAccount
  <2>2. e(v) \in Nat
    BY <1>1, <1>2, <2>1, RewardValueNat
  <2>3. e(v) = (a(v) * r) \div k
    BY DEF RewardValue, MulDiv
  <2>4. shares[v] = a(v) /\ slack[v] = k * t(v) - c * q(v) /\ one[v] = 1
    BY DEF UserSlack
  <2> HIDE DEF a, e, r, k
  <2>5. a(v) * r \in Nat /\ r * a(v) = a(v) * r
    BY <1>3, <2>1
  <2>6. k * e(v) =< a(v) * r
    <3> DEFINE m == a(v) * r
    <3>1. m \in Nat /\ e(v) = m \div k
      BY <2>3, <2>5
    <3> HIDE DEF m
    <3>2. m \div k \in Nat /\ k * (m \div k) =< m
      BY <1>4, <3>1
    <3> QED BY <3>1, <3>2 DEF m
  <2> QED BY <2>1, <2>2, <2>4, <2>5, <2>6
<1>6. ASSUME NEW v \in Users
      PROVE  t(v) =< e(v) + 1
  <2>1. users[v] \in UserAccount
    BY <1>1
  <2>2. TallyWithin(Refreshed, users[v])
    BY <1>1, <1>2, <2>1, GrowthKeepsTally DEF ExitInv, TalliesWithin
  <2> QED BY <1>1, <1>2, <2>2 DEF TallyWithin
<1>7. t(u) =< e(u)
  OBVIOUS
<1> DEFINE d == (e(u) - t(u)) \div WAD
<1> DEFINE spare == (n + UserCount) \div WAD
           room == farm.rewards[i].rewards_issued_unclaimed + farm.rewards[i].rewards_available
<1>8. SUFFICES q(u) + d =< room + spare /\ d \in Nat
  <2>1. q(u) \in Nat /\ IsU64(room + spare)
    BY <1>5 DEF CountersHaveRoom
  <2> HIDE DEF q, d, room, spare
  <2>2. ASSUME q(u) + d =< room + spare, d \in Nat
        PROVE  IsU64(q(u) + d)
    <3>1. q(u) + d \in Nat
      BY <2>1, <2>2
    <3> QED BY <2>1, <2>2, <3>1, LessFits
  <2> QED BY <2>2 DEF q, d
<1>9. farm.active.stake = S /\ UserSlacks(users, i) = L /\ UserCount = N
  BY DEF ExitInv, Match, UserSlacks, UserCount, SumFunction
<1>10. 0 =< (c * issued - farm.active.stake * r) + UserSlacks(users, i) + k * n
  BY <1>1, <1>2 DEF Covered, FarmSlack
<1> HIDE DEF shares, slack, one, r, issued, k, c, a, t, q, e
<1>11. d \in Nat /\ WAD * d =< e(u) - t(u)
  <2> DEFINE m == e(u) - t(u)
  <2>1. m \in Nat
    BY <1>5, <1>7
  <2> HIDE DEF m
  <2>2. m \div WAD \in Nat /\ WAD * (m \div WAD) =< m
    BY <1>4, <2>1
  <2> QED BY <2>2 DEF m
<1> HIDE DEF d
<1>12. \A v \in Users : shares[v] \in Int /\ slack[v] \in Int /\ one[v] = 1
                          /\ 0 =< r * shares[v] - slack[v] + k
  <2> TAKE v \in Users
  <2>1. /\ a(v) \in Nat /\ t(v) \in Nat /\ q(v) \in Nat /\ e(v) \in Nat
        /\ k * e(v) =< r * a(v) /\ r * a(v) \in Nat /\ t(v) =< e(v) + 1
        /\ shares[v] = a(v) /\ slack[v] = k * t(v) - c * q(v) /\ one[v] = 1
    BY <1>5, <1>6
  <2>2. k * t(v) \in Nat /\ c * q(v) \in Nat /\ k * e(v) \in Nat /\ k * (e(v) + 1) = k * e(v) + k
    BY <1>4, <2>1
  <2>3. k * t(v) =< k * (e(v) + 1)
    BY <1>4, <2>1
  <2>4. 0 =< r * a(v) - (k * t(v) - c * q(v)) + k /\ k * t(v) - c * q(v) \in Int
    BY <1>4, <2>1, <2>2, <2>3
  <2> QED BY <2>1, <2>4
<1>13. r * shares[u] - slack[u] + k =< r * S - L + k * N
  BY <1>1, <1>3, <1>4, <1>12, PartOfSums
<1>14. S \in Int /\ L \in Int /\ N \in Nat
  BY <1>1, <1>9, <1>12, SumInt, TokensNat
<1> HIDE DEF S, L, N
<1>15. c * (q(u) + d) =< r * shares[u] - slack[u] + k
  <2>1. /\ a(u) \in Nat /\ t(u) \in Nat /\ q(u) \in Nat /\ e(u) \in Nat
        /\ k * e(u) =< r * a(u) /\ r * a(u) \in Nat
        /\ shares[u] = a(u) /\ slack[u] = k * t(u) - c * q(u)
    BY <1>5
  <2>2. k * (WAD * d) =< k * (e(u) - t(u))
    <3>1. WAD * d \in Nat /\ e(u) - t(u) \in Int
      BY <1>4, <1>11, <2>1
    <3> DEFINE m == WAD * d
               g == e(u) - t(u)
    <3>2. m \in Nat /\ g \in Int /\ m =< g
      BY <1>11, <3>1
    <3> HIDE DEF m, g
    <3>3. k * m =< k * g
      BY <1>4, <3>2
    <3> QED BY <3>3 DEF m, g
  <2>3. k * (WAD * d) = c * d
    BY <1>4, <1>11 DEF c, k
  <2>4. k * (e(u) - t(u)) = k * e(u) - k * t(u) /\ c * (q(u) + d) = c * q(u) + c * d
    BY <1>4, <1>11, <2>1
  <2>5. k * e(u) \in Int /\ k * t(u) \in Int /\ c * q(u) \in Int /\ c * d \in Int
    BY <1>4, <1>11, <2>1
  <2> QED BY <1>4, <2>1, <2>2, <2>3, <2>4, <2>5
<1>16. c * (q(u) + d) =< c * issued + k * (n + N)
  <2>1. /\ k * (n + N) = k * n + k * N /\ c * issued \in Nat
        /\ k * n \in Nat /\ k * N \in Nat
    BY <1>1, <1>3, <1>4, <1>14
  <2>2. S * r = r * S /\ r * S \in Int
    BY <1>3, <1>14
  <2>3. 0 =< (c * issued - r * S) + L + k * n
    BY <1>9, <1>10, <2>2
  <2>4. r * S - L + k * N =< c * issued + k * (n + N)
    BY <1>14, <2>1, <2>2, <2>3
  <2>5. c * (q(u) + d) \in Int /\ r * shares[u] - slack[u] + k \in Int
    <3>1. q(u) \in Nat /\ r * shares[u] \in Int /\ slack[u] \in Int
      BY <1>3, <1>5, <1>12
    <3> QED BY <1>4, <1>11, <3>1
  <2> QED BY <1>13, <1>14, <1>15, <2>1, <2>2, <2>4, <2>5
<1>17. q(u) + d =< issued + spare
  <2> DEFINE x == q(u) + d
             y == n + N
  <2>1. x \in Nat /\ y \in Nat
    BY <1>1, <1>5, <1>11, <1>14
  <2>2. c * x =< c * issued + k * y /\ spare = y \div WAD
    BY <1>9, <1>16 DEF spare
  <2>3. SUFFICES x =< issued + spare
    OBVIOUS
  <2> HIDE DEF x, y, spare
  <2>4. c * x = k * (WAD * x) /\ c * issued = k * (WAD * issued)
    <3>1. ASSUME NEW z \in Nat PROVE c * z = k * (WAD * z)
      BY <1>4 DEF c, k
    <3> QED BY <1>3, <2>1, <3>1
  <2>5. WAD * x =< WAD * issued + y
    <3> DEFINE p == WAD * x
               w == WAD * issued
    <3>1. p \in Nat /\ w \in Nat /\ k * p =< k * w + k * y
      BY <1>3, <1>4, <2>1, <2>2, <2>4
    <3> HIDE DEF p, w
    <3>2. k * w + k * y = k * (w + y)
      BY <1>4, <2>1, <3>1
    <3>3. p =< w + y
      BY <1>4, <2>1, <3>1, <3>2
    <3> QED BY <3>3 DEF p, w
  <2> QED BY <1>3, <1>4, <2>1, <2>2, <2>5, MultipleBound
<1>18. issued =< room /\ room \in Nat /\ spare \in Nat /\ q(u) \in Nat
  <2>1. n + UserCount \in Nat
    BY <1>1, TokensNat
  <2>2. spare \in Nat
    BY <1>4, <2>1 DEF spare
  <2> QED BY <1>1, <1>2, <1>5, <2>2, RewardFields DEF issued
<1> HIDE DEF room, spare
<1> QED BY <1>3, <1>11, <1>17, <1>18

(* The refresh takes no shares from a user. *)
LEMMA SharesSoonGrow ==
  ASSUME ExitInv, NEW u \in Users
  PROVE  /\ ActivatedAmount(Of(u)) \in Nat /\ ActivatedShares(Of(u)) \in Nat
         /\ users[u].active_stake \in Nat /\ SharesSoon(u) \in Nat
         /\ users[u].active_stake =< SharesSoon(u)
<1>1. /\ farm \in FarmAccount /\ users[u] \in UserAccount
      /\ Of(u).farm = farm /\ Of(u).user = users[u]
  BY DEF ExitInv, TypeOK, Of
<1>2. /\ farm.active \in Pool /\ farm.pending \in Pool
      /\ users[u].pending_deposit_stake \in Nat /\ users[u].active_stake \in Nat
  BY <1>1, FarmFields DEF UserAccount
<1>3. ActivatedAmount(Of(u)) \in Nat
  BY <1>1, <1>2, AmountForNat DEF ActivatedAmount
<1>4. ActivatedShares(Of(u)) \in Nat
  BY <1>1, <1>2, <1>3, SharesForNat DEF ActivatedShares
<1> QED BY <1>2, <1>3, <1>4 DEF SharesSoon

(* Counting what a user has earned is accepted once the rewards are issued,  *)
(* on whatever farm has issued the same.                                     *)
LEMMA CountingAccepted ==
  ASSUME ExitInv, CountersHaveRoom, EarningsFit, RefreshGlobalRewardsOk(Unpriced, env),
         NEW u \in Users, NEW indices \in SUBSET InitialisedRewards(farm),
         NEW g, g.rewards = Refreshed.rewards,
         \A i \in indices :
           users[u].rewards_tally[i] =< RewardValue(Refreshed, users[u].active_stake, i)
  PROVE  UserRefreshRewardOk([farm |-> g, user |-> users[u]], indices)
<1> DEFINE s == [farm |-> g, user |-> users[u]]
<1> SUFFICES ASSUME NEW i \in indices
             PROVE  /\ s.user.rewards_tally[i] =< Entitlement(s, i)
                    /\ IsU64(s.user.rewards_issued_unclaimed[i] + RewardDue(s, i))
                    /\ IsU128(s.user.rewards_tally[i] + RewardDue(s, i) * WAD)
  BY DEF UserRefreshRewardOk
<1> DEFINE a == users[u].active_stake
           t == users[u].rewards_tally[i]
           q == users[u].rewards_issued_unclaimed[i]
           e == RewardValue(Refreshed, a, i)
           d == (e - t) \div WAD
<1>1. /\ i \in RewardIndex /\ users[u] \in UserAccount /\ farm \in FarmAccount
      /\ Refreshed \in FarmAccount /\ i \in InitialisedRewards(farm)
  BY RefreshedFarm DEF ExitInv, TypeOK, InitialisedRewards
<1>2. a \in Nat /\ t \in Nat /\ q \in Nat /\ e \in Nat
  <2>1. a \in Nat /\ t \in Nat /\ q \in Nat
    BY <1>1 DEF UserAccount
  <2> QED BY <1>1, <2>1, RewardValueNat
<1>3. Entitlement(s, i) = e
  BY DEF Entitlement, RewardValue
<1>4. RewardDue(s, i) = d
  BY <1>3 DEF RewardDue
<1>5. t =< e /\ IsU64(q + d)
  BY <1>1, DueFits
<1>6. e =< RewardValue(Refreshed, SharesSoon(u), i)
  BY <1>1, <1>2, SharesSoonGrow, RewardValueGrows, RewardFields
<1>7. IsU128(RewardValue(Refreshed, SharesSoon(u), i))
  BY <1>1 DEF EarningsFit
<1> HIDE DEF e, t, q, a
<1>8. t + d * WAD \in Nat /\ t + d * WAD =< e
  <2> DEFINE m == e - t
  <2>1. m \in Nat
    BY <1>2, <1>5
  <2> HIDE DEF m
  <2>2. m \div WAD \in Nat /\ (m \div WAD) * WAD =< m /\ (m \div WAD) * WAD \in Nat
    BY <2>1, MathAssumption
  <2> DEFINE x == (m \div WAD) * WAD
  <2>3. x \in Nat /\ x =< m /\ d * WAD = x
    BY <2>2 DEF m
  <2> HIDE DEF x, d
  <2>4. m = e - t
    BY DEF m
  <2> QED BY <1>2, <2>3, <2>4
<1>9. IsU128(t + d * WAD)
  <2>1. RewardValue(Refreshed, SharesSoon(u), i) \in Nat
    BY <1>7, MachineIntegersAreNat
  <2> DEFINE x == t + d * WAD
             y == RewardValue(Refreshed, SharesSoon(u), i)
  <2>2. x \in Nat /\ y \in Nat /\ x =< y /\ IsU128(y)
    BY <1>2, <1>6, <1>7, <1>8, <2>1
  <2> HIDE DEF x, y
  <2>3. IsU128(x)
    BY <2>2, LessFits
  <2> QED BY <2>3 DEF x
<1>10. s.user.rewards_tally[i] = t /\ s.user.rewards_issued_unclaimed[i] = q
  BY DEF t, q
<1> QED BY <1>3, <1>4, <1>5, <1>9, <1>10

(* So is the refresh that unstaking begins with, for a user whose tally was  *)
(* not rounded too high.                                                     *)
LEMMA RefreshAccepted ==
  ASSUME ExitInv, RewardsInRange, NEW u \in Users, TalliesCounted(u)
  PROVE  RefreshRewardsOk([farm |-> Unpriced, user |-> users[u]], env)
<1> DEFINE s == [farm |-> Unpriced, user |-> users[u]]
<1>1. RefreshGlobalRewardsOk(Unpriced, env) /\ CountersHaveRoom /\ EarningsFit
  BY IssuanceAccepted DEF RewardsInRange
<1>2. /\ farm \in FarmAccount /\ Refreshed \in FarmAccount /\ RewardsGrow(farm, Refreshed)
      /\ users[u] \in UserAccount /\ Of(u).farm = farm /\ Of(u).user = users[u]
  BY <1>1, RefreshedFarm DEF ExitInv, TypeOK, Of
<1>3. ASSUME NEW i \in InitialisedRewards(farm)
      PROVE  users[u].rewards_tally[i] =< RewardValue(Refreshed, users[u].active_stake, i)
  <2>1. i \in RewardIndex /\ users[u].active_stake \in Nat /\ users[u].rewards_tally[i] \in Nat
    BY <1>2 DEF InitialisedRewards, UserAccount
  <2>2. users[u].rewards_tally[i] =< RewardValue(farm, users[u].active_stake, i)
    BY <1>2 DEF TalliesCounted, Entitlement
  <2>3. RewardValue(farm, users[u].active_stake, i)
          =< RewardValue(Refreshed, users[u].active_stake, i)
    BY <1>2, <2>1, RewardValueGrows DEF RewardsGrow
  <2>4. /\ RewardValue(farm, users[u].active_stake, i) \in Nat
        /\ RewardValue(Refreshed, users[u].active_stake, i) \in Nat
    BY <1>2, <2>1, RewardValueNat
  <2> QED BY <2>1, <2>2, <2>3, <2>4
<1>4. /\ s.farm = Unpriced /\ s.user = users[u]
      /\ Issued(s, env) = [farm |-> Refreshed, user |-> users[u]]
  BY DEF Issued, Refreshed
<1>5. RefreshedIndices(s) \in SUBSET InitialisedRewards(farm)
  BY <1>4, UnpricedFarm DEF RefreshedIndices
<1>6. UserRefreshRewardOk(Issued(s, env), RefreshedIndices(s))
  BY <1>1, <1>3, <1>4, <1>5, CountingAccepted
<1> QED BY <1>1, <1>4, <1>6 DEF RefreshRewardsOk

(* What the refresh makes of a user. *)
LEMMA RefreshedUser ==
  ASSUME ExitInv, NEW u \in Users,
         RefreshRewardsOk([farm |-> Unpriced, user |-> users[u]], env)
  PROVE  LET t == RefreshRewards([farm |-> Unpriced, user |-> users[u]], env)
         IN  /\ t \in Accounts /\ t.farm = Refreshed /\ SameShares(users[u], t.user)
             /\ Refreshed.config = Unpriced.config /\ Refreshed.active = farm.active
             /\ Refreshed.pending = farm.pending /\ Refreshed.slashed = farm.slashed
             /\ Refreshed.slashed_amount_cumulative = farm.slashed_amount_cumulative
             /\ t.user.last_stake_ts \in 0 .. now
             /\ t.user.active_stake # 0 => Counted(t)
<1> DEFINE s == [farm |-> Unpriced, user |-> users[u]]
           t == RefreshRewards(s, env)
<1>1. /\ Unpriced \in FarmAccount /\ users[u] \in UserAccount
      /\ Unpriced.active = farm.active /\ Unpriced.pending = farm.pending
      /\ Unpriced.slashed = farm.slashed
      /\ Unpriced.slashed_amount_cumulative = farm.slashed_amount_cumulative
      /\ now \in Nat /\ env \in Environment /\ env.ts = now
  BY UnpricedFarm, OfTypes DEF ExitInv, TypeOK, env
<1>2. s \in Accounts /\ s.farm = Unpriced /\ s.user = users[u]
  BY <1>1 DEF Accounts
<1> HIDE DEF s
<1>3. t \in Accounts /\ t.farm = Refreshed /\ OnlyIssues(Unpriced, Refreshed)
  BY <1>1, <1>2, RefreshRewardsIssues DEF s, Refreshed
<1>4. SameShares(users[u], t.user)
  BY <1>1, <1>2, RefreshRewardsLeavesShares DEF s, LeavesShares
<1>5. t.user.active_stake # 0 => Counted(t)
  BY <1>1, <1>2, RefreshRewardsTally DEF s
<1>6. t.user.last_stake_ts \in 0 .. now
  <2>1. t.user.last_stake_ts \in {users[u].last_stake_ts, now}
    BY <1>1, <1>2, RefreshRewardsOrderly DEF s, Orderly
  <2>2. users[u].last_stake_ts \in Nat /\ users[u].last_stake_ts =< now
    BY <1>1 DEF UserAccount, ExitInv, Timely
  <2> QED BY <1>1, <2>1, <2>2
<1>7. /\ Refreshed.config = Unpriced.config /\ Refreshed.active = farm.active
      /\ Refreshed.pending = farm.pending /\ Refreshed.slashed = farm.slashed
      /\ Refreshed.slashed_amount_cumulative = farm.slashed_amount_cumulative
  BY <1>1, <1>3 DEF OnlyIssues
<1> QED BY <1>3, <1>4, <1>5, <1>6, <1>7 DEF s

-----------------------------------------------------------------------------
(* Nothing keeps a user from leaving *)

(* A larger amount is worth more shares. *)
LEMMA SharesForGrows ==
  ASSUME NEW pool \in Pool, NEW amount \in Nat, NEW all \in Nat, amount =< all
  PROVE  SharesFor(amount, pool) =< SharesFor(all, pool)
<1>1. pool.stake \in Nat /\ pool.amount \in Nat /\ WAD \in Nat
  BY MathAssumption DEF Pool
<1>2. amount * WAD =< all * WAD
  BY <1>1
<1>3. ASSUME pool.amount # 0
      PROVE  MulDiv(pool.stake, amount, pool.amount) =< MulDiv(pool.stake, all, pool.amount)
  <2> DEFINE a == pool.stake * amount
             b == pool.stake * all
  <2>1. a \in Nat /\ b \in Nat /\ a =< b
    BY <1>1
  <2> HIDE DEF a, b
  <2>2. a \div pool.amount =< b \div pool.amount
    BY <1>1, <1>3, <2>1, QuotientMonotone
  <2> QED BY <2>2 DEF MulDiv, a, b
<1>4. SharesFor(all, pool) \in Nat
  BY SharesForNat
<1>5. CASE amount = 0
  BY <1>4, <1>5 DEF SharesFor
<1>6. CASE amount # 0
  BY <1>2, <1>3, <1>6 DEF SharesFor
<1> QED BY <1>5, <1>6

(* Tokens enter a pool that has room for more of them and for their shares. *)
LEMMA TokensEnterPool ==
  ASSUME IntegersSuffice, NEW pool \in Pool, NEW amount \in Nat, NEW all \in Nat,
         amount =< all, pool.amount = 0 => pool.stake = 0,
         pool.amount + amount =< TokensInAll, IsU128(pool.stake + SharesFor(all, pool))
  PROVE  AddAmountOk(pool, amount)
<1>1. /\ pool.stake \in Nat /\ pool.amount \in Nat
      /\ SharesFor(amount, pool) \in Nat /\ SharesFor(all, pool) \in Nat
      /\ SharesFor(amount, pool) =< SharesFor(all, pool)
  BY SharesForNat, SharesForGrows DEF Pool
<1>2. IsU64(pool.amount + amount)
  BY <1>1, LessFits DEF IntegersSuffice
<1>3. IsU128(pool.stake + SharesFor(amount, pool))
  <2>1. /\ pool.stake + SharesFor(amount, pool) \in Nat
        /\ pool.stake + SharesFor(amount, pool) =< pool.stake + SharesFor(all, pool)
    BY <1>1
  <2> QED BY <2>1, LessFits
<1> QED BY <1>2, <1>3 DEF AddAmountOk

(* A pool at par has room for the shares of all the tokens that exist. *)
LEMMA ParHasRoom ==
  ASSUME IntegersSuffice, IsU128(WAD * U64_MAX), NEW pool \in Pool, NEW amount \in Nat,
         AtPar(pool), pool.amount + amount =< TokensInAll
  PROVE  IsU128(pool.stake + SharesFor(amount, pool))
<1>1. /\ pool.stake \in Nat /\ pool.amount \in Nat /\ WAD \in Nat /\ TokensInAll \in Nat
      /\ U64_MAX \in Nat /\ SharesFor(amount, pool) \in Nat
  BY TokensNat, MathAssumption, SharesForNat DEF Pool
<1>2. pool.amount + amount =< U64_MAX
  BY <1>1 DEF IntegersSuffice, IsU64
<1> DEFINE next == AddAmount(pool, amount)
<1>3. next \in Pool /\ next.amount = pool.amount + amount
      /\ next.stake = pool.stake + SharesFor(amount, pool)
  BY AddAmountPool DEF AddAmount
<1>4. AtPar(next)
  BY AddAmountKeepsPool DEF KeepsPool
<1> HIDE DEF next
<1>5. next.stake =< WAD * next.amount /\ next.stake \in Nat /\ next.amount \in Nat
  BY <1>3, <1>4 DEF AtPar, Pool
<1>6. WAD * next.amount =< WAD * U64_MAX
  BY <1>1, <1>2, <1>3, <1>5
<1>7. WAD * next.amount \in Nat /\ WAD * U64_MAX \in Nat
  BY <1>1, <1>5
<1> DEFINE y == WAD * U64_MAX
<1>8. y \in Nat /\ next.stake =< y /\ IsU128(y)
  BY <1>5, <1>6, <1>7
<1> HIDE DEF y
<1>9. IsU128(next.stake)
  BY <1>5, <1>8, LessFits
<1> QED BY <1>3, <1>9

(* The condition SharesFit is met as long as the shares are at par, which    *)
(* the withdraw authority alone can change, provided u64 holds the tokens    *)
(* that exist and u128 WAD shares for each token of u64: what moves from one *)
(* pool of a farm to the other finds room there.                             *)
THEOREM ParLeavesRoom ==
  ASSUME IntegersSuffice, IsU128(WAD * U64_MAX)
  PROVE  Spec => [](~Delegated /\ SharesAtPar => SharesFit)
<1>1. ASSUME ExitInv PROVE ~Delegated /\ SharesAtPar => SharesFit
  <2> SUFFICES ASSUME ~Delegated, SharesAtPar PROVE SharesFit
    OBVIOUS
  <2>1. /\ farm.active \in Pool /\ farm.pending \in Pool
        /\ AtPar(farm.active) /\ AtPar(farm.pending)
    BY <1>1, FarmFields DEF ExitInv, TypeOK, SharesAtPar, AtPar
  <2>2. /\ farm.active.amount \in Nat /\ farm.pending.amount \in Nat
        /\ farm.slashed \in Nat /\ TokensInAll \in Nat
        /\ farm.active.amount + farm.pending.amount + farm.slashed =< TokensInAll
    BY <1>1, LiabilitiesExist, TokensNat
  <2>3. /\ farm.active.amount + farm.pending.amount =< TokensInAll
        /\ farm.pending.amount + farm.active.amount =< TokensInAll
    BY <2>2
  <2> QED BY <2>1, <2>2, <2>3, ParHasRoom DEF SharesFit
<1> QED BY <1>1, AlwaysExit, PTL

(* The penalty of a stake can be computed when that of the whole time up to  *)
(* the end of its lock can.                                                  *)
LEMMA PenaltyAccepted ==
  ASSUME NEW begin \in Nat, NEW d \in Nat, NEW m \in Nat, begin + d =< m,
         IsU64(BPS_DIV_FACTOR * m), NEW ts \in Nat, NEW bps \in 1 .. BPS_DIV_FACTOR - 1
  PROVE  PenaltyOk(begin, d, ts, bps)
<1>1. bps \in Nat /\ bps =< 10000 /\ IsU64(10000 * m)
  BY DEF BPS_DIV_FACTOR
<1>2. IsU64(begin + d)
  <2>1. begin + d \in Nat /\ begin + d =< 10000 * m
    OBVIOUS
  <2> QED BY <1>1, <2>1, LessFits
<1>3. ASSUME Locked(begin, d, ts) PROVE IsU64(bps * (begin + d - ts))
  <2> DEFINE x == begin + d - ts
  <2>1. x \in Nat /\ x =< m
    BY <1>3 DEF Locked
  <2> HIDE DEF x
  <2>2. bps * x =< 10000 * x /\ 10000 * x =< 10000 * m /\ bps * x \in Nat
    BY <1>1, <2>1
  <2>3. bps * x =< 10000 * m
    BY <1>1, <2>1, <2>2
  <2>4. IsU64(bps * x)
    BY <1>1, <2>2, <2>3, LessFits
  <2> QED BY <2>4 DEF x
<1> QED BY <1>2, <1>3 DEF PenaltyOk

(* A user without a withdrawal that is due can take the whole stake out of a *)
(* farm that was not emptied, once the rewards are refreshed.                *)
LEMMA LeavingAccepted ==
  ASSUME ExitInv, IntegersSuffice, PenaltiesHaveRoom, SharesFit, DeadlinesFit, RewardsInRange,
         NEW u \in Users, ~Delegated, ~farm.frozen,
         users[u].active_stake > 0, ~WithdrawalDue(u),
         farm.config.locking_mode # "None" =>
           farm.config.locking_early_withdrawal_penalty_bps \in 1 .. BPS_DIV_FACTOR - 1,
         RefreshRewardsOk([farm |-> Unpriced, user |-> users[u]], env)
  PROVE  UnstakeOk([farm |-> Unpriced, user |-> users[u]], users[u].active_stake, env)
<1> DEFINE s == [farm |-> Unpriced, user |-> users[u]]
           t == RefreshRewards(s, env)
           shares == users[u].active_stake
           c == farm.config
           amount == AmountFor(shares, farm.active)
           penalty == UnstakePenalty(t, shares, now)
<1>1. /\ t \in Accounts /\ t.farm = Refreshed /\ SameShares(users[u], t.user)
      /\ Refreshed.config = Unpriced.config /\ Refreshed.active = farm.active
      /\ Refreshed.pending = farm.pending /\ Refreshed.slashed = farm.slashed
      /\ Refreshed.slashed_amount_cumulative = farm.slashed_amount_cumulative
      /\ t.user.last_stake_ts \in 0 .. now
      /\ t.user.active_stake # 0 => Counted(t)
  BY RefreshedUser
<1> HIDE DEF t
<1>2. /\ farm \in FarmAccount /\ users \in [Users -> UserAccount] /\ now \in Nat
      /\ shares \in Nat /\ t.user.active_stake = shares /\ c \in FarmConfig
      /\ farm.active \in Pool /\ farm.pending \in Pool
      /\ farm.active.amount \in Nat /\ farm.pending.amount \in Nat
      /\ farm.pending.stake \in Nat /\ farm.slashed_amount_cumulative \in Nat
  BY <1>1, FarmFields DEF ExitInv, TypeOK, UserAccount, SameShares
<1>3. RemoveSharesOk(farm.active, shares)
  BY <1>2, SharesWithinPools DEF ExitInv, RemoveSharesOk
<1>4. amount \in 0 .. farm.active.amount
  BY <1>2, <1>3, AmountForBound
<1>5. /\ Unpriced.config.locking_mode = c.locking_mode
      /\ Unpriced.config.locking_start_timestamp = c.locking_start_timestamp
      /\ Unpriced.config.locking_duration = c.locking_duration
      /\ Unpriced.config.locking_early_withdrawal_penalty_bps
           = c.locking_early_withdrawal_penalty_bps
  BY UnpricedFarm
<1>6. ASSUME c.locking_mode # "None"
      PROVE  /\ LockBegin(t) \in Nat /\ c.locking_duration \in Nat
             /\ PenaltyOk(LockBegin(t), c.locking_duration, now,
                          c.locking_early_withdrawal_penalty_bps)
  <2> DEFINE m == now + c.locking_start_timestamp + c.locking_duration
  <2>1. c.locking_start_timestamp \in Nat /\ c.locking_duration \in Nat
    BY <1>2 DEF FarmConfig
  <2>2. LockBegin(t) \in Nat /\ LockBegin(t) =< now + c.locking_start_timestamp
    BY <1>1, <1>2, <1>5, <2>1 DEF LockBegin
  <2>3. m \in Nat /\ LockBegin(t) + c.locking_duration =< m
    BY <1>2, <2>1, <2>2
  <2>4. IsU64(BPS_DIV_FACTOR * m)
    BY <1>6 DEF DeadlinesFit
  <2> HIDE DEF m, c
  <2> QED BY <1>2, <1>6, <2>1, <2>2, <2>3, <2>4, PenaltyAccepted DEF c
<1>7. penalty \in 0 .. amount
  <2>1. CASE c.locking_mode = "None"
    BY <1>1, <1>4, <1>5, <2>1 DEF UnstakePenalty
  <2>2. CASE c.locking_mode # "None"
    <3>1. penalty = EarlyWithdrawalPenalty(LockBegin(t), c.locking_duration, now,
                                           c.locking_early_withdrawal_penalty_bps, amount)
      BY <1>1, <1>5, <2>2 DEF UnstakePenalty
    <3>2. c.locking_early_withdrawal_penalty_bps \in Nat /\ amount \in Nat
      BY <1>2, <1>4 DEF FarmConfig
    <3> HIDE DEF penalty, amount, c
    <3> QED BY <1>2, <1>6, <2>2, <3>1, <3>2, PenaltyBound
  <2> QED BY <2>1, <2>2
<1> DEFINE unstaked == UnstakedAmount(t, shares, now)
<1>8. unstaked = amount - penalty
  BY <1>1 DEF UnstakedAmount
<1> HIDE DEF amount, penalty, unstaked
<1>9. /\ farm.slashed \in Nat /\ TokensInAll \in Nat
      /\ farm.active.amount + farm.pending.amount + farm.slashed =< TokensInAll
  BY LiabilitiesExist, TokensNat
<1>10. AddAmountOk(farm.pending, unstaked)
  <2>1. unstaked \in Nat /\ farm.pending.amount + unstaked =< TokensInAll
    BY <1>2, <1>4, <1>7, <1>8, <1>9
  <2>2. unstaked =< farm.active.amount
    BY <1>2, <1>4, <1>7, <1>8
  <2>3. farm.pending.amount = 0 => farm.pending.stake = 0
    BY <1>2 DEF ExitInv, Balanced, OrphanFree, Backed
  <2> QED BY <1>2, <2>1, <2>2, <2>3, TokensEnterPool DEF SharesFit
<1>11. IsU64(farm.slashed + penalty)
  <2>1. farm.slashed + penalty \in Nat /\ farm.slashed + penalty =< TokensInAll
    BY <1>2, <1>4, <1>7, <1>9
  <2> QED BY <2>1, LessFits DEF IntegersSuffice
<1>12. IsU64(farm.slashed_amount_cumulative + penalty)
  <2>1. /\ farm.slashed_amount_cumulative + penalty \in Nat
        /\ farm.slashed_amount_cumulative + penalty
             =< farm.slashed_amount_cumulative + farm.active.amount
    BY <1>2, <1>4, <1>7
  <2> QED BY <2>1, LessFits DEF PenaltiesHaveRoom
<1>13. MoveToPendingWithdrawalOk(t, shares, now)
  <2>1. Unpriced.config.locking_mode # "None" =>
          PenaltyOk(LockBegin(t), Unpriced.config.locking_duration, now,
                    Unpriced.config.locking_early_withdrawal_penalty_bps)
    BY <1>5, <1>6
  <2> QED BY <1>1, <1>2, <1>3, <1>10, <2>1 DEF MoveToPendingWithdrawalOk, unstaked
<1>14. ReduceTallyOk(t, shares)
  <2>1. TallyCovers(t, shares)
    BY <1>1, <1>2, CountedCanReduce
  <2>2. ASSUME NEW i \in InitialisedRewards(Refreshed)
        PROVE  IsU128(RewardValue(Refreshed, shares, i))
    <3>1. /\ RefreshGlobalRewardsOk(Unpriced, env) /\ SharesSoon(u) \in Nat
          /\ shares =< SharesSoon(u)
      BY SharesSoonGrow DEF RefreshRewardsOk
    <3>2. /\ Refreshed \in FarmAccount /\ i \in InitialisedRewards(farm) /\ i \in RewardIndex
      BY <2>2, <3>1, RefreshedFarm DEF InitialisedRewards
    <3>3. RewardValue(Refreshed, shares, i) =< RewardValue(Refreshed, SharesSoon(u), i)
      BY <1>2, <3>1, <3>2, RewardValueGrows, RewardFields
    <3>4. IsU128(RewardValue(Refreshed, SharesSoon(u), i))
      BY <3>2 DEF RewardsInRange, EarningsFit
    <3>5. RewardValue(Refreshed, shares, i) \in Nat
      BY <1>2, <3>2, RewardValueNat
    <3> QED BY <3>3, <3>4, <3>5, LessFits
  <2> QED BY <1>1, <2>1, <2>2 DEF ReduceTallyOk
<1>15. t.user.pending_withdrawal_unstake > 0 => t.user.pending_withdrawal_unstake_ts > now
  <2>1. /\ users[u].pending_withdrawal_unstake_ts \in Nat
        /\ t.user.pending_withdrawal_unstake = users[u].pending_withdrawal_unstake
        /\ t.user.pending_withdrawal_unstake_ts = users[u].pending_withdrawal_unstake_ts
    BY <1>1, <1>2 DEF UserAccount, SameShares
  <2> QED BY <1>2, <2>1 DEF WithdrawalDue
<1>16. IsU64(now + t.farm.config.withdrawal_cooldown_period)
  BY <1>1, UnpricedFarm DEF DeadlinesFit
<1>17. MoveOutOk(t, shares, now)
  BY <1>1, <1>11, <1>12, <1>13, <1>14, <1>15, <1>16 DEF MoveOutOk, penalty
<1>18. SharesToUnstake(t, shares) = shares /\ env.ts = now
  BY <1>2 DEF SharesToUnstake, Least, env
<1> QED BY <1>17, <1>18 DEF UnstakeOk, t

(* Nothing keeps a user from unstaking everything but what StakersCanLeave   *)
(* names, of the farm and of the user: neither what the others did, nor the  *)
(* pools, the penalty, the tally or the books of the rewards make unstake    *)
(* fail or panic, as long as the tokens that exist are no more than u64      *)
(* counts.                                                                   *)
THEOREM StakersLeave ==
  ASSUME IntegersSuffice
  PROVE  Spec => []StakersCanLeave
<1>1. ASSUME ExitInv PROVE StakersCanLeave
  <2> SUFFICES ASSUME NEW u \in Users, ~Delegated, ~farm.frozen,
                      users[u].active_stake > 0, ~WithdrawalDue(u),
                      farm.config.locking_mode # "None" =>
                        farm.config.locking_early_withdrawal_penalty_bps
                          \in 1 .. BPS_DIV_FACTOR - 1,
                      PenaltiesHaveRoom, SharesFit, DeadlinesFit, RewardsInRange,
                      TalliesCounted(u)
               PROVE  UnstakeOk([farm |-> Unpriced, user |-> users[u]],
                                users[u].active_stake, env)
    BY DEF StakersCanLeave
  <2>1. RefreshRewardsOk([farm |-> Unpriced, user |-> users[u]], env)
    BY <1>1, RefreshAccepted
  <2> QED BY <1>1, <2>1, LeavingAccepted
<1> QED BY <1>1, AlwaysExit, PTL

-----------------------------------------------------------------------------
(* Nothing keeps a matured deposit from becoming active *)

(* After the refresh, what a user's tally has counted and the new shares are *)
(* worth is what all the shares are worth, at most.                          *)
LEMMA NewSharesCounted ==
  ASSUME ExitInv, EarningsFit, NEW u \in Users, TalliesCounted(u), DepositMatured(users[u], now),
         RefreshRewardsOk([farm |-> Unpriced, user |-> users[u]], env)
  PROVE  IncreaseTallyOk(RefreshRewards([farm |-> Unpriced, user |-> users[u]], env),
                         ActivatedShares(Of(u)))
<1> DEFINE s == [farm |-> Unpriced, user |-> users[u]]
           v == Issued(s, env)
           t == RefreshRewards(s, env)
           a == users[u].active_stake
           new == ActivatedShares(Of(u))
<1>1. /\ t \in Accounts /\ t.farm = Refreshed /\ SameShares(users[u], t.user)
      /\ t.user.active_stake # 0 => Counted(t)
  BY RefreshedUser
<1>2. /\ RefreshGlobalRewardsOk(Unpriced, env)
      /\ UserRefreshRewardOk(v, RefreshedIndices(s))
      /\ t = UserRefreshReward(v, RefreshedIndices(s))
  BY DEF RefreshRewardsOk, RefreshRewards
<1>3. /\ farm \in FarmAccount /\ Refreshed \in FarmAccount /\ RewardsGrow(farm, Refreshed)
      /\ InitialisedRewards(Refreshed) = InitialisedRewards(farm)
      /\ users[u] \in UserAccount /\ Of(u).farm = farm /\ Of(u).user = users[u]
  BY <1>2, RefreshedFarm DEF ExitInv, TypeOK, Of
<1>4. v = [farm |-> Refreshed, user |-> users[u]] /\ v \in Accounts
  BY <1>3 DEF Issued, Refreshed, Accounts
<1>5. s.user = users[u] /\ s.farm = Unpriced
  OBVIOUS
<1> HIDE DEF s, v, t
<1>6. SUFFICES ASSUME NEW i \in InitialisedRewards(farm)
               PROVE  IsU128(t.user.rewards_tally[i] + RewardValue(Refreshed, new, i))
  BY <1>1, <1>3 DEF IncreaseTallyOk, t, s
<1>7. /\ i \in RewardIndex /\ a \in Nat /\ new \in Nat /\ t.user.rewards_tally[i] \in Nat
      /\ users[u].rewards_tally[i] \in Nat /\ t.user.active_stake = a
      /\ SharesSoon(u) = a + new
  BY <1>1, <1>3, SharesSoonGrow
  DEF Accounts, UserAccount, InitialisedRewards, SameShares, SharesSoon
<1> HIDE DEF a, new
<1>8. /\ RewardValue(Refreshed, a, i) \in Nat /\ RewardValue(Refreshed, new, i) \in Nat
      /\ RewardValue(Refreshed, a + new, i) \in Nat /\ RewardValue(farm, a, i) \in Nat
  BY <1>3, <1>7, RewardValueNat
<1>9. t.user.rewards_tally[i] =< RewardValue(Refreshed, a, i)
  <2>1. CASE a # 0
    <3>1. t.user.rewards_tally[i] =< Entitlement(t, i)
      BY <1>1, <1>3, <1>7, <2>1 DEF Counted
    <3> QED BY <1>1, <1>7, <3>1 DEF Entitlement
  <2>2. CASE a = 0
    <3>1. RefreshedIndices(s) = {}
      BY <1>5, <2>2 DEF RefreshedIndices, a
    <3>2. t.user.rewards_tally[i] = v.user.rewards_tally[i]
      BY <1>2, <1>4, <1>7, <3>1, UserRefreshRewardTally
    <3>3. users[u].rewards_tally[i] =< RewardValue(farm, a, i)
      BY <1>3 DEF TalliesCounted, Entitlement, a
    <3>4. RewardValue(farm, a, i) =< RewardValue(Refreshed, a, i)
      BY <1>3, <1>7, RewardValueGrows DEF RewardsGrow
    <3> QED BY <1>4, <1>7, <1>8, <3>2, <3>3, <3>4
  <2> QED BY <2>1, <2>2
<1>10. RewardValue(Refreshed, a, i) + RewardValue(Refreshed, new, i)
         =< RewardValue(Refreshed, a + new, i)
  BY <1>3, <1>7, RewardValueOfSum
<1>11. IsU128(RewardValue(Refreshed, a + new, i))
  BY <1>7 DEF EarningsFit
<1> DEFINE x == t.user.rewards_tally[i] + RewardValue(Refreshed, new, i)
           y == RewardValue(Refreshed, a + new, i)
<1>12. x \in Nat /\ y \in Nat /\ x =< y /\ IsU128(y)
  BY <1>7, <1>8, <1>9, <1>10, <1>11
<1> HIDE DEF x, y
<1>13. IsU128(x)
  BY <1>12, LessFits
<1> QED BY <1>13 DEF x

(* Nothing keeps a deposit whose warmup is over from becoming active at the  *)
(* next refresh of its user but what MaturedDepositsActivate names: its      *)
(* shares are still in the pending pool, whatever was withdrawn from it, its *)
(* tokens fit the active pool, and its tally is no overflow.                 *)
THEOREM DepositsActivate ==
  ASSUME IntegersSuffice
  PROVE  Spec => []MaturedDepositsActivate
<1>1. ASSUME ExitInv PROVE MaturedDepositsActivate
  <2> SUFFICES ASSUME NEW u \in Users, ~Delegated, ~farm.frozen, DepositMatured(users[u], now),
                      SharesFit, RewardsInRange, TalliesCounted(u)
               PROVE  UserRefreshStateOk([farm |-> Unpriced, user |-> users[u]], env)
    BY DEF MaturedDepositsActivate
  <2> DEFINE s == [farm |-> Unpriced, user |-> users[u]]
             t == RefreshRewards(s, env)
             deposit == users[u].pending_deposit_stake
  <2>1. RefreshRewardsOk(s, env)
    BY <1>1, RefreshAccepted
  <2>2. /\ t \in Accounts /\ t.farm = Refreshed /\ SameShares(users[u], t.user)
        /\ Refreshed.active = farm.active /\ Refreshed.pending = farm.pending
    BY <1>1, <2>1, RefreshedUser
  <2>3. IncreaseTallyOk(t, ActivatedShares(Of(u)))
    BY <1>1, <2>1, NewSharesCounted DEF RewardsInRange
  <2> HIDE DEF t
  <2>4. /\ farm \in FarmAccount /\ users \in [Users -> UserAccount] /\ users[u] \in UserAccount
        /\ farm.active \in Pool /\ farm.pending \in Pool /\ farm.pending.stake \in Nat
        /\ farm.active.amount \in Nat /\ farm.pending.amount \in Nat
        /\ deposit \in Nat /\ users[u].pending_withdrawal_unstake \in Nat
    BY <1>1, FarmFields DEF ExitInv, TypeOK, UserAccount
  <2>5. RemoveSharesOk(farm.pending, deposit)
    <3>1. Waiting(users[u]) =< farm.pending.stake
      BY <1>1, <2>4, SharesWithinPools DEF ExitInv
    <3> QED BY <2>4, <3>1 DEF Waiting, RemoveSharesOk
  <2>6. AmountFor(deposit, farm.pending) \in 0 .. farm.pending.amount
    BY <2>4, <2>5, AmountForBound
  <2>7. /\ ActivatedAmount(t) = AmountFor(deposit, farm.pending)
        /\ ActivatedAmount(Of(u)) = AmountFor(deposit, farm.pending)
        /\ ActivatedShares(t) = ActivatedShares(Of(u))
        /\ t.user.pending_deposit_stake = deposit
    BY <2>2 DEF ActivatedAmount, ActivatedShares, SameShares, Of
  <2>8. AddAmountOk(farm.active, AmountFor(deposit, farm.pending))
    <3>1. /\ farm.slashed \in Nat /\ TokensInAll \in Nat
          /\ farm.active.amount + farm.pending.amount + farm.slashed =< TokensInAll
      BY <1>1, LiabilitiesExist, TokensNat
    <3>2. farm.active.amount = 0 => farm.active.stake = 0
      BY <1>1, <2>4, FarmFields DEF ExitInv, Balanced, OrphanFree, Backed
    <3> DEFINE amount == AmountFor(deposit, farm.pending)
    <3>3. /\ amount \in Nat /\ amount =< farm.pending.amount
          /\ farm.active.amount + amount =< TokensInAll
      BY <2>4, <2>6, <3>1
    <3> HIDE DEF amount
    <3>4. AddAmountOk(farm.active, amount)
      BY <2>4, <3>2, <3>3, TokensEnterPool DEF SharesFit
    <3> QED BY <3>4 DEF amount
  <2>9. UserRefreshStakeOk(t, env)
    BY <2>2, <2>3, <2>5, <2>7, <2>8 DEF UserRefreshStakeOk, ActivatePendingStakeOk
  <2> QED BY <2>1, <2>9 DEF UserRefreshStateOk, t
<1> QED BY <1>1, AlwaysExit, PTL

-----------------------------------------------------------------------------
(* The delegate authority can dictate a stake *)

(* Where the oracle has no say, its price makes no difference to issuance. *)
LEMMA PriceMakesNoDifference ==
  ASSUME ExitInv, SchedulesInRange, CountersHaveRoom,
         HasOracle(farm.config) =>
           \A i \in InitialisedRewards(farm) : farm.rewards[i].last_issuance_ts = now
  PROVE  /\ RefreshGlobalRewardsOk(farm, WithoutPrice(env))
         /\ RefreshGlobalRewards(farm, WithoutPrice(env)).rewards = Refreshed.rewards
<1> DEFINE wp == WithoutPrice(env)
<1>1. /\ farm \in FarmAccount /\ Unpriced \in FarmAccount /\ farm.config \in FarmConfig
      /\ Unpriced.active = farm.active /\ Unpriced.rewards = farm.rewards
      /\ InitialisedRewards(Unpriced) = InitialisedRewards(farm)
      /\ ~HasOracle(farm.config) => Unpriced = farm
  BY UnpricedFarm, FarmFields
<1>2. wp.ts = now /\ env.ts = now
  BY DEF WithoutPrice, env
<1>3. RefreshGlobalRewardsOk(Unpriced, env)
  BY IssuanceAccepted
<1>4. ASSUME NEW i \in InitialisedRewards(farm)
      PROVE  /\ RefreshGlobalRewardOk(farm, farm.rewards[i], wp)
             /\ RefreshGlobalReward(farm, farm.rewards[i], wp)
                  = RefreshGlobalReward(Unpriced, farm.rewards[i], env)
  <2> DEFINE r == farm.rewards[i]
  <2> HIDE DEF wp
  <2>1. CASE HasOracle(farm.config)
    BY <1>2, <2>1 DEF RefreshGlobalRewardOk, RefreshGlobalReward
  <2>2. CASE ~HasOracle(farm.config)
    <3>1. Unpriced = farm /\ RefreshGlobalRewardOk(farm, r, env)
      BY <1>1, <1>3, <2>2 DEF RefreshGlobalRewardsOk
    <3>2. Scheduled(farm, r, wp) = Scheduled(farm, r, env)
      BY <1>2 DEF Scheduled
    <3>3. IssuableAmount(farm, r, wp) = IssuableAmount(farm, r, env)
      BY <2>2, <3>2 DEF IssuableAmount, AtOraclePrice
    <3>4. IssuedAmount(farm, r, wp) = IssuedAmount(farm, r, env)
      BY <3>3 DEF IssuedAmount
    <3> HIDE DEF r
    <3>5. RefreshGlobalRewardOk(farm, r, wp)
      BY <1>2, <2>2, <3>1, <3>3, <3>4 DEF RefreshGlobalRewardOk
    <3>6. RefreshGlobalReward(farm, r, wp) = RefreshGlobalReward(farm, r, env)
      BY <1>2, <3>3, <3>4 DEF RefreshGlobalReward
    <3> QED BY <3>1, <3>5, <3>6 DEF r
  <2> QED BY <2>1, <2>2
<1>5. RefreshGlobalRewardsOk(farm, wp)
  BY <1>4 DEF RefreshGlobalRewardsOk
<1> DEFINE x == [ i \in RewardIndex |-> IF i \in InitialisedRewards(farm)
                    THEN RefreshGlobalReward(farm, farm.rewards[i], wp) ELSE farm.rewards[i] ]
           y == [ i \in RewardIndex |-> IF i \in InitialisedRewards(farm)
                    THEN RefreshGlobalReward(Unpriced, farm.rewards[i], env)
                    ELSE farm.rewards[i] ]
<1>6. x = y
  BY <1>4
<1>7. RefreshGlobalRewards(farm, wp) = [farm EXCEPT !.rewards = x]
  BY DEF RefreshGlobalRewards
<1>8. Refreshed = [Unpriced EXCEPT !.rewards = y]
  BY <1>1 DEF RefreshGlobalRewards, Refreshed
<1> HIDE DEF x, y, wp
<1>9. RefreshGlobalRewards(farm, wp).rewards = x /\ Refreshed.rewards = y
  BY <1>1, <1>7, <1>8 DEF FarmAccount
<1> QED BY <1>5, <1>6, <1>9 DEF wp

(* set_stake accepts whatever stake the delegate authority dictates within   *)
(* the cap and u64, as long as the rewards are in range: none of its         *)
(* assertions fails, and neither do the books of the rewards.                *)
THEOREM StakesAreAccepted == Spec => []DictatedStakeIsAccepted
<1>1. ASSUME ExitInv PROVE DictatedStakeIsAccepted
  <2> SUFFICES
        ASSUME NEW u \in Users, NEW stake \in DelegatedStakes, Delegated, RewardsInRange,
               HasOracle(farm.config) =>
                 /\ ~(stake > users[u].active_stake)
                 /\ \A i \in InitialisedRewards(farm) : farm.rewards[i].last_issuance_ts = now,
               stake > users[u].active_stake =>
                 LET total == farm.active.amount + stake - users[u].active_stake
                 IN  /\ IsU64(total)
                     /\ farm.config.deposit_cap_amount = 0
                          \/ total =< farm.config.deposit_cap_amount
        PROVE  SetStakeOk(Of(u), stake, env)
    BY DEF DictatedStakeIsAccepted
  <2>1. SchedulesInRange /\ CountersHaveRoom /\ EarningsFit
    BY DEF RewardsInRange
  <2> DEFINE a == users[u].active_stake
             wp == WithoutPrice(env)
             issued == RefreshGlobalRewards(farm, wp)
  <2>2. /\ farm \in FarmAccount /\ users \in [Users -> UserAccount] /\ users[u] \in UserAccount
        /\ a \in Nat /\ stake \in Nat /\ farm.active.amount \in Nat
        /\ Of(u).farm = farm /\ Of(u).user = users[u]
    BY <1>1, FarmFields, FarmAssumption DEF ExitInv, TypeOK, UserAccount, Of
  <2>3. DelegatedBooksBalance(farm) /\ farm.active.stake = farm.active.amount
    BY <1>1 DEF ExitInv, Balanced, DelegatedBooksBalance
  <2>4. a =< farm.active.stake
    BY <1>1, <2>2, SharesWithinPools DEF ExitInv
  <2>5. IsU64(a)
    BY <1>1, <2>2, <2>3, <2>4, LessFits DEF ExitInv, CountersFit
  <2>6. RefreshGlobalRewardsOk(farm, wp) /\ issued.rewards = Refreshed.rewards
    BY <1>1, <2>1, PriceMakesNoDifference
  <2>7. /\ RefreshGlobalRewardsOk(Unpriced, env) /\ Refreshed \in FarmAccount
        /\ RewardsGrow(farm, Refreshed)
    BY <1>1, <2>1, IssuanceAccepted, RefreshedFarm
  <2>8. RefreshRewardsOk(Of(u), wp)
    <3>1. TallyEarned(Refreshed, users[u])
      BY <1>1, <2>2, <2>7, GrowthKeepsEarned DEF ExitInv, EarnedByAll
    <3>2. /\ RefreshedIndices(Of(u)) \in SUBSET InitialisedRewards(farm)
          /\ Issued(Of(u), wp) = [farm |-> issued, user |-> users[u]]
      BY DEF RefreshedIndices, Issued, Of
    <3>3. \A i \in RefreshedIndices(Of(u)) :
            users[u].rewards_tally[i] =< RewardValue(Refreshed, users[u].active_stake, i)
      BY <3>1, <3>2 DEF TallyEarned, InitialisedRewards
    <3> HIDE DEF issued, wp
    <3>4. UserRefreshRewardOk(Issued(Of(u), wp), RefreshedIndices(Of(u)))
      BY <1>1, <2>6, <2>7, <2>1, <3>2, <3>3, CountingAccepted
    <3> QED BY <2>2, <2>6, <3>4 DEF RefreshRewardsOk
  <2>9. ASSUME stake > a PROVE CanAcceptDeposit(farm, wp, stake - a)
    <3>1. farm.active.amount + (stake - a) = farm.active.amount + stake - a
      BY <2>2
    <3> QED BY <2>9, <3>1 DEF CanAcceptDeposit, AtOraclePrice
  <2>10. ASSUME NEW i \in InitialisedRewards(farm)
        PROVE  IsU128(issued.rewards[i].reward_per_share_scaled * stake)
    <3>1. i \in RewardIndex /\ IsU128(RewardValue(Refreshed, stake, i))
      BY <2>1 DEF EarningsFit, InitialisedRewards
    <3>2. RewardValue(Refreshed, stake, i)
            = stake * Refreshed.rewards[i].reward_per_share_scaled
      BY <2>2, <2>7, <3>1, DelegatedRewardValue
    <3>3. Refreshed.rewards[i].reward_per_share_scaled \in Nat
      BY <2>7, <3>1, RewardFields
    <3>4. stake * Refreshed.rewards[i].reward_per_share_scaled
            = Refreshed.rewards[i].reward_per_share_scaled * stake
      BY <2>2, <3>3
    <3> QED BY <2>6, <3>1, <3>2, <3>4
  <2>11. a =< farm.active.stake + stake
    BY <2>2, <2>3, <2>4
  <2> QED BY <2>2, <2>3, <2>5, <2>8, <2>9, <2>10, <2>11 DEF SetStakeOk, StakeIncreases
<1> QED BY <1>1, AlwaysExit, PTL

=============================================================================
