---------------------------- MODULE RewardProofs ----------------------------
(* What the users earn, for every number of users and reward tokens and      *)
(* every scale of the decimals: the tallies keep up with the shares, and     *)
(* what all the users together can claim was issued.                         *)
EXTENDS ShareProofs

-----------------------------------------------------------------------------
(* The tallies of the rewards, for every number of users and reward tokens   *)
(* and every scale of the decimals: a tally never runs ahead of what it is   *)
(* compared with by more than one unit of the last decimal, and the check of *)
(* the tally in unstake never refuses.                                       *)

(* A tally is within one unit of the value of the shares it belongs to, and  *)
(* zero for a reward that is not initialised.                                *)
TallyWithin(f, user) ==
  \A i \in RewardIndex :
    user.rewards_tally[i] =<
      IF i \in InitialisedRewards(f) THEN RewardValue(f, user.active_stake, i) + 1 ELSE 0

(* From f to g no reward is forgotten and none is worth less per share. *)
RewardsGrow(f, g) ==
  /\ InitialisedRewards(f) \subseteq InitialisedRewards(g)
  /\ \A i \in RewardIndex :
       f.rewards[i].reward_per_share_scaled =< g.rewards[i].reward_per_share_scaled

(* The operation from s to t keeps the tally of its user and those of others. *)
KeepsTally(s, t) ==
  /\ RewardsGrow(s.farm, t.farm)
  /\ TallyWithin(s.farm, s.user) => TallyWithin(t.farm, t.user)

-----------------------------------------------------------------------------
(* The value of shares *)

(* Rounding down a sum gives the sum of the parts or one more. *)
LEMMA QuotientOfSum ==
  ASSUME NEW a \in Nat, NEW b \in Nat, NEW d \in Nat \ {0}
  PROVE  /\ a \div d + b \div d =< (a + b) \div d
         /\ (a + b) \div d =< a \div d + b \div d + 1
<1> DEFINE p == a \div d
           q == b \div d
           r == (a + b) \div d
<1>1. /\ p \in Nat /\ p * d =< a /\ a < (p + 1) * d
      /\ q \in Nat /\ q * d =< b /\ b < (q + 1) * d
  OBVIOUS
<1>2. r \in Nat /\ r * d =< a + b /\ a + b < (r + 1) * d
  <2> DEFINE c == a + b
  <2>1. c \in Nat
    OBVIOUS
  <2> HIDE DEF c
  <2>2. c \div d \in Nat /\ (c \div d) * d =< c /\ c < (c \div d + 1) * d
    BY <2>1
  <2> QED BY <2>2 DEF c
<1> HIDE DEF p, q, r
<1>3. p + q < r + 1
  <2>1. SUFFICES ASSUME p + q >= r + 1 PROVE FALSE
    BY <1>1, <1>2
  <2>2. (p + q) * d >= (r + 1) * d
    BY <1>1, <1>2, <2>1
  <2>3. (p + q) * d = p * d + q * d
    BY <1>1
  <2>4. p * d \in Nat /\ q * d \in Nat /\ (r + 1) * d \in Nat
    BY <1>1, <1>2
  <2> QED BY <1>1, <1>2, <2>2, <2>3, <2>4
<1>4. r < p + q + 2
  <2>1. SUFFICES ASSUME r >= p + q + 2 PROVE FALSE
    BY <1>1, <1>2
  <2>2. r * d >= (p + q + 2) * d
    BY <1>1, <1>2, <2>1
  <2>3. (p + q + 2) * d = (p + 1) * d + (q + 1) * d
    BY <1>1
  <2>4. (p + 1) * d \in Nat /\ (q + 1) * d \in Nat /\ r * d \in Nat
    BY <1>1, <1>2
  <2> QED BY <1>1, <1>2, <2>2, <2>3, <2>4
<1>5. p + q =< r /\ r =< p + q + 1
  BY <1>1, <1>2, <1>3, <1>4
<1> QED BY <1>5 DEF p, q, r

(* More shares of a reward worth more per share are worth more. *)
LEMMA RewardValueGrows ==
  ASSUME NEW f \in FarmAccount, NEW g \in FarmAccount, NEW i \in RewardIndex,
         NEW x \in Nat, NEW y \in Nat, x =< y,
         f.rewards[i].reward_per_share_scaled =< g.rewards[i].reward_per_share_scaled
  PROVE  RewardValue(f, x, i) =< RewardValue(g, y, i)
<1> DEFINE p == f.rewards[i].reward_per_share_scaled
           q == g.rewards[i].reward_per_share_scaled
<1>1. p \in Nat /\ q \in Nat /\ p =< q
  BY RewardFields
<1> HIDE DEF p, q
<1>2. x * p \in Nat /\ y * q \in Nat /\ x * p =< y * q
  <2>1. x * p =< y * p
    BY <1>1
  <2>2. y * p =< y * q
    BY <1>1
  <2>3. x * p \in Nat /\ y * p \in Nat /\ y * q \in Nat
    BY <1>1
  <2> QED BY <2>1, <2>2, <2>3
<1>3. (x * p) \div StakeScale =< (y * q) \div StakeScale
  <2> DEFINE a == x * p
             b == y * q
  <2>1. a \in Nat /\ b \in Nat /\ a =< b
    BY <1>2
  <2> HIDE DEF a, b
  <2>2. a \div StakeScale =< b \div StakeScale
    BY <2>1, StakeScalePositive, QuotientMonotone
  <2> QED BY <2>2 DEF a, b
<1> QED BY <1>3 DEF RewardValue, MulDiv, p, q

(* Shares together are worth what they are worth apart, or one unit more. *)
LEMMA RewardValueOfSum ==
  ASSUME NEW f \in FarmAccount, NEW i \in RewardIndex, NEW x \in Nat, NEW y \in Nat
  PROVE  /\ RewardValue(f, x, i) + RewardValue(f, y, i) =< RewardValue(f, x + y, i)
         /\ RewardValue(f, x + y, i) =< RewardValue(f, x, i) + RewardValue(f, y, i) + 1
<1> DEFINE p == f.rewards[i].reward_per_share_scaled
           a == x * p
           b == y * p
<1>1. p \in Nat
  BY RewardFields
<1> HIDE DEF p
<1>2. a \in Nat /\ b \in Nat /\ (x + y) * p = a + b
  BY <1>1
<1> HIDE DEF a, b
<1>3. /\ a \div StakeScale + b \div StakeScale =< (a + b) \div StakeScale
      /\ (a + b) \div StakeScale =< a \div StakeScale + b \div StakeScale + 1
  BY <1>2, StakeScalePositive, QuotientOfSum
<1>4. /\ RewardValue(f, x, i) = a \div StakeScale
      /\ RewardValue(f, y, i) = b \div StakeScale
      /\ RewardValue(f, x + y, i) = (a + b) \div StakeScale
  BY <1>2 DEF RewardValue, MulDiv, p, a, b
<1> QED BY <1>3, <1>4

(* The value of shares depends on the rewards of the farm only. *)
LEMMA RewardValueSame ==
  ASSUME NEW f, NEW g, NEW i, NEW shares, g.rewards = f.rewards
  PROVE  RewardValue(g, shares, i) = RewardValue(f, shares, i)
BY DEF RewardValue

-----------------------------------------------------------------------------
(* Rewards that grow *)

(* Rewards left alone grow by nothing. *)
LEMMA SameRewardsGrow ==
  ASSUME NEW f \in FarmAccount, NEW g \in FarmAccount,
         g.rewards = f.rewards, g.num_reward_tokens = f.num_reward_tokens
  PROVE  RewardsGrow(f, g)
BY RewardFields DEF RewardsGrow, InitialisedRewards

(* Growth after growth is growth. *)
LEMMA GrowthTransitive ==
  ASSUME NEW f \in FarmAccount, NEW g \in FarmAccount, NEW h \in FarmAccount,
         RewardsGrow(f, g), RewardsGrow(g, h)
  PROVE  RewardsGrow(f, h)
<1>1. \A i \in RewardIndex : /\ f.rewards[i].reward_per_share_scaled \in Nat
                             /\ g.rewards[i].reward_per_share_scaled \in Nat
                             /\ h.rewards[i].reward_per_share_scaled \in Nat
  BY RewardFields
<1> QED BY <1>1 DEF RewardsGrow

(* A tally left alone stays within the value of shares that grows. *)
LEMMA GrowthKeepsTally ==
  ASSUME NEW f \in FarmAccount, NEW g \in FarmAccount, NEW user \in UserAccount,
         RewardsGrow(f, g), TallyWithin(f, user)
  PROVE  TallyWithin(g, user)
<1> SUFFICES ASSUME NEW i \in RewardIndex
             PROVE  user.rewards_tally[i] =<
                      IF i \in InitialisedRewards(g)
                      THEN RewardValue(g, user.active_stake, i) + 1 ELSE 0
  BY DEF TallyWithin
<1>1. user.rewards_tally[i] \in Nat /\ user.active_stake \in Nat
  BY DEF UserAccount
<1>2. /\ RewardValue(f, user.active_stake, i) \in Nat
      /\ RewardValue(g, user.active_stake, i) \in Nat
  BY <1>1, RewardValueNat
<1>3. RewardValue(f, user.active_stake, i) =< RewardValue(g, user.active_stake, i)
  BY <1>1, RewardValueGrows DEF RewardsGrow
<1>4. user.rewards_tally[i] =<
        IF i \in InitialisedRewards(f) THEN RewardValue(f, user.active_stake, i) + 1 ELSE 0
  BY DEF TallyWithin
<1> QED BY <1>1, <1>2, <1>3, <1>4 DEF RewardsGrow

(* So does the tally of a user whose stake an operation leaves alone. *)
LEMMA StakeLeftAlone ==
  ASSUME NEW s \in Accounts, NEW t \in Accounts, RewardsGrow(s.farm, t.farm),
         t.user.rewards_tally = s.user.rewards_tally, t.user.active_stake = s.user.active_stake
  PROVE  KeepsTally(s, t)
<1>1. TallyWithin(s.farm, s.user) => TallyWithin(t.farm, s.user)
  BY GrowthKeepsTally DEF Accounts
<1>2. TallyWithin(t.farm, s.user) => TallyWithin(t.farm, t.user)
  BY DEF TallyWithin
<1> QED BY <1>1, <1>2 DEF KeepsTally

(* Operations that keep the tallies one after the other keep them. *)
LEMMA KeepsTallyTransitive ==
  ASSUME NEW s \in Accounts, NEW t \in Accounts, NEW v \in Accounts,
         KeepsTally(s, t), KeepsTally(t, v)
  PROVE  KeepsTally(s, v)
BY GrowthTransitive DEF KeepsTally, Accounts

(* refresh_global_reward never lowers what a share has earned. *)
LEMMA RefreshGlobalRewardGrows ==
  ASSUME NEW f \in FarmAccount, NEW r \in RewardInfo, NEW e \in Environment,
         RefreshGlobalRewardOk(f, r, e)
  PROVE  r.reward_per_share_scaled =< RefreshGlobalReward(f, r, e).reward_per_share_scaled
<1> DEFINE q == RefreshGlobalReward(f, r, e)
<1>1. r.reward_per_share_scaled \in Nat
  BY DEF RewardInfo
<1>2. CASE e.ts = r.last_issuance_ts \/ f.active.stake = 0
  BY <1>1, <1>2 DEF RefreshGlobalReward, RewardInfo
<1>3. CASE ~(e.ts = r.last_issuance_ts \/ f.active.stake = 0) /\ IssuableAmount(f, r, e) = 0
  BY <1>1, <1>3 DEF RefreshGlobalReward
<1>4. CASE ~(e.ts = r.last_issuance_ts \/ f.active.stake = 0) /\ IssuableAmount(f, r, e) # 0
  <2> DEFINE issued == IssuedAmount(f, r, e)
  <2>1. issued \in 0 .. r.rewards_available
    BY <1>4, IssuedAmountBound
  <2>2. issued \in Nat
    BY <2>1 DEF RewardInfo
  <2> HIDE DEF issued
  <2>3. PerShare(f, issued) \in Nat
    <3> DEFINE x == issued * WAD * StakeScale
    <3>1. x \in Nat
      BY <2>2, MathAssumption, StakeScalePositive
    <3>2. f.active.stake \in Nat \ {0}
      BY <1>4, FarmFields
    <3> HIDE DEF x
    <3>3. x \div f.active.stake \in Nat
      BY <3>1, <3>2
    <3> QED BY <3>3 DEF PerShare, x
  <2>4. q.reward_per_share_scaled = r.reward_per_share_scaled + PerShare(f, issued)
    BY <1>4 DEF RefreshGlobalReward, RewardInfo, issued
  <2> HIDE DEF q
  <2>5. r.reward_per_share_scaled =< q.reward_per_share_scaled
    BY <1>1, <2>3, <2>4
  <2> QED BY <2>5 DEF q
<1> QED BY <1>2, <1>3, <1>4

(* Nor does refresh_global_rewards. *)
LEMMA RefreshGlobalRewardsGrow ==
  ASSUME NEW f \in FarmAccount, NEW e \in Environment, RefreshGlobalRewardsOk(f, e)
  PROVE  RewardsGrow(f, RefreshGlobalRewards(f, e))
<1> DEFINE g == RefreshGlobalRewards(f, e)
           rewards == [ i \in RewardIndex |-> IF i \in InitialisedRewards(f)
                          THEN RefreshGlobalReward(f, f.rewards[i], e) ELSE f.rewards[i] ]
<1>1. g = [f EXCEPT !.rewards = rewards]
  BY DEF RefreshGlobalRewards
<1>2. g.rewards = rewards /\ g.num_reward_tokens = f.num_reward_tokens
  BY <1>1 DEF FarmAccount
<1>3. \A i \in RewardIndex :
        f.rewards[i].reward_per_share_scaled =< rewards[i].reward_per_share_scaled
  <2> TAKE i \in RewardIndex
  <2>1. f.rewards[i] \in RewardInfo /\ f.rewards[i].reward_per_share_scaled \in Nat
    BY RewardFields
  <2>2. CASE i \in InitialisedRewards(f)
    <3>1. RefreshGlobalRewardOk(f, f.rewards[i], e)
      BY <2>2 DEF RefreshGlobalRewardsOk
    <3>2. rewards[i] = RefreshGlobalReward(f, f.rewards[i], e)
      BY <2>2
    <3> HIDE DEF rewards
    <3> QED BY <2>1, <3>1, <3>2, RefreshGlobalRewardGrows
  <2>3. CASE i \notin InitialisedRewards(f)
    BY <2>1, <2>3
  <2> QED BY <2>2, <2>3
<1> HIDE DEF g, rewards
<1>4. RewardsGrow(f, g)
  BY <1>2, <1>3 DEF RewardsGrow, InitialisedRewards
<1> QED BY <1>4 DEF g

(* A farm that starts issuing at once has earned what it had. *)
LEMMA InitializeRewardTsGrows ==
  ASSUME NEW f \in FarmAccount, NEW ts \in Nat
  PROVE  RewardsGrow(f, InitializeRewardTsIfNeeded(f, ts))
<1>1. CASE f.active.amount # 0
  BY <1>1, SameRewardsGrow DEF InitializeRewardTsIfNeeded
<1>2. CASE f.active.amount = 0
  <2> DEFINE g == InitializeRewardTsIfNeeded(f, ts)
             rewards == [i \in RewardIndex |-> IF i \in InitialisedRewards(f)
                           THEN [f.rewards[i] EXCEPT !.last_issuance_ts = ts] ELSE f.rewards[i]]
  <2>1. g = [f EXCEPT !.rewards = rewards]
    BY <1>2 DEF InitializeRewardTsIfNeeded
  <2>2. g.rewards = rewards /\ g.num_reward_tokens = f.num_reward_tokens
    BY <2>1 DEF FarmAccount
  <2>3. \A i \in RewardIndex :
          f.rewards[i] \in RewardInfo /\ f.rewards[i].reward_per_share_scaled \in Nat
    BY RewardFields
  <2>4. \A i \in RewardIndex :
          rewards[i].reward_per_share_scaled = f.rewards[i].reward_per_share_scaled
    BY <2>3 DEF RewardInfo
  <2> HIDE DEF rewards, g
  <2>5. RewardsGrow(f, g)
    BY <2>2, <2>3, <2>4 DEF RewardsGrow, InitialisedRewards
  <2> QED BY <2>5 DEF g
<1> QED BY <1>1, <1>2

-----------------------------------------------------------------------------
(* Counting what a user has earned *)

(* user_refresh_reward raises the tally to the user's entitlement, less what *)
(* is not yet a whole unit of the reward.                                    *)
LEMMA UserRefreshRewardTally ==
  ASSUME NEW s \in Accounts, NEW indices \in SUBSET InitialisedRewards(s.farm),
         UserRefreshRewardOk(s, indices)
  PROVE  LET t == UserRefreshReward(s, indices)
         IN  /\ KeepsTally(s, t)
             /\ t.user.active_stake = s.user.active_stake
             /\ \A i \in RewardIndex \ indices :
                  t.user.rewards_tally[i] = s.user.rewards_tally[i]
             /\ \A i \in indices : /\ t.user.rewards_tally[i] =< Entitlement(s, i)
                                   /\ Entitlement(s, i) < t.user.rewards_tally[i] + WAD
<1> DEFINE t == UserRefreshReward(s, indices)
           tally == [i \in RewardIndex |-> IF i \in indices
                       THEN s.user.rewards_tally[i] + RewardDue(s, i) * WAD
                       ELSE s.user.rewards_tally[i]]
           unclaimed == [i \in RewardIndex |-> IF i \in indices
                           THEN s.user.rewards_issued_unclaimed[i] + RewardDue(s, i)
                           ELSE s.user.rewards_issued_unclaimed[i]]
<1>1. s.user \in UserAccount /\ s.farm \in FarmAccount /\ s.user.active_stake \in Nat
  BY DEF Accounts, UserAccount
<1>2. indices \in SUBSET RewardIndex
  BY DEF InitialisedRewards
<1>3. t \in Accounts /\ t.farm = s.farm
  BY <1>2, UserRefreshRewardTypes
<1>4. t = [s EXCEPT !.user.rewards_tally = tally, !.user.rewards_issued_unclaimed = unclaimed]
  BY DEF UserRefreshReward
<1>5. t.user.rewards_tally = tally /\ t.user.active_stake = s.user.active_stake
  <2> HIDE DEF tally, unclaimed, t
  <2> DEFINE v == [s EXCEPT !.user.rewards_tally = tally]
  <2>1. v.user.rewards_tally = tally /\ v.user.active_stake = s.user.active_stake
    BY <1>1 DEF Accounts, UserAccount
  <2>2. /\ t = [v EXCEPT !.user.rewards_issued_unclaimed = unclaimed]
        /\ v.user = [s.user EXCEPT !.rewards_tally = tally]
    BY <1>4 DEF Accounts
  <2>3. t.user = [v.user EXCEPT !.rewards_issued_unclaimed = unclaimed]
    BY <1>4, <2>2 DEF Accounts
  <2>4. /\ t.user.rewards_tally = v.user.rewards_tally
        /\ t.user.active_stake = v.user.active_stake
    BY <1>1, <2>2, <2>3 DEF UserAccount
  <2> QED BY <2>1, <2>4
<1>6. \A i \in indices : /\ tally[i] =< Entitlement(s, i)
                         /\ Entitlement(s, i) < tally[i] + WAD
  <2> TAKE i \in indices
  <2> DEFINE e == Entitlement(s, i)
             old == s.user.rewards_tally[i]
             d == e - old
  <2>1. i \in RewardIndex /\ tally[i] = old + RewardDue(s, i) * WAD
    BY <1>2
  <2>2. old \in Nat /\ e \in Nat /\ old =< e
    BY <1>1, <2>1, RewardValueNat DEF UserAccount, Entitlement, UserRefreshRewardOk
  <2>3. RewardDue(s, i) = d \div WAD /\ d \in Nat
    BY <2>2 DEF RewardDue
  <2> HIDE DEF d
  <2>4. (d \div WAD) * WAD =< d /\ d < (d \div WAD) * WAD + WAD /\ (d \div WAD) * WAD \in Nat
    BY <2>3, MathAssumption
  <2>5. d = e - old
    BY DEF d
  <2> DEFINE x == (d \div WAD) * WAD
  <2>6. tally[i] = old + x
    BY <2>1, <2>3
  <2> HIDE DEF x, e, old, tally
  <2>7. x =< d /\ d < x + WAD /\ x \in Nat
    BY <2>4 DEF x
  <2>8. tally[i] =< e /\ e < tally[i] + WAD
    BY <2>2, <2>3, <2>5, <2>6, <2>7, MathAssumption
  <2> QED BY <2>8 DEF e
<1>7. \A i \in RewardIndex \ indices : tally[i] = s.user.rewards_tally[i]
  OBVIOUS
<1> HIDE DEF t, tally
<1>8. RewardsGrow(s.farm, t.farm)
  BY <1>1, <1>3, SameRewardsGrow
<1>9. ASSUME TallyWithin(s.farm, s.user) PROVE TallyWithin(t.farm, t.user)
  <2> SUFFICES ASSUME NEW i \in RewardIndex
               PROVE  tally[i] =< IF i \in InitialisedRewards(s.farm)
                                  THEN RewardValue(s.farm, s.user.active_stake, i) + 1 ELSE 0
    BY <1>3, <1>5 DEF TallyWithin
  <2>1. CASE i \in indices
    <3>1. RewardValue(s.farm, s.user.active_stake, i) \in Nat
      BY <1>1, RewardValueNat
    <3>2. tally[i] \in Nat
      BY <1>3, <1>5 DEF Accounts, UserAccount
    <3>3. tally[i] =< RewardValue(s.farm, s.user.active_stake, i)
      BY <1>6, <2>1 DEF Entitlement
    <3> QED BY <2>1, <3>1, <3>2, <3>3
  <2>2. CASE i \notin indices
    BY <1>7, <1>9, <2>2 DEF TallyWithin
  <2> QED BY <2>1, <2>2
<1> QED BY <1>5, <1>6, <1>7, <1>8, <1>9 DEF t, KeepsTally

(* What the refresh leaves to be counted is less than a unit of the reward. *)
Counted(t) ==
  \A i \in InitialisedRewards(t.farm) :
    /\ t.user.rewards_tally[i] =< Entitlement(t, i)
    /\ Entitlement(t, i) < t.user.rewards_tally[i] + WAD

(* The refresh most instructions begin with keeps the tallies, and counts    *)
(* everything a user with an active stake has earned.                        *)
LEMMA RefreshRewardsTally ==
  ASSUME NEW s \in Accounts, NEW e \in Environment, RefreshRewardsOk(s, e)
  PROVE  /\ KeepsTally(s, RefreshRewards(s, e))
         /\ RefreshRewards(s, e).user.active_stake = s.user.active_stake
         /\ s.user.active_stake # 0 => Counted(RefreshRewards(s, e))
<1> DEFINE v == Issued(s, e)
           indices == RefreshedIndices(s)
           t == RefreshRewards(s, e)
<1>1. /\ RefreshGlobalRewards(s.farm, e) \in FarmAccount
      /\ RefreshGlobalRewards(s.farm, e).num_reward_tokens = s.farm.num_reward_tokens
      /\ RewardsGrow(s.farm, RefreshGlobalRewards(s.farm, e))
  BY RefreshGlobalRewardsIssues, RefreshGlobalRewardsGrow
  DEF RefreshRewardsOk, Accounts, OnlyIssues, KeepsPromises
<1>2. v \in Accounts /\ v.farm = RefreshGlobalRewards(s.farm, e) /\ v.user = s.user
  BY <1>1 DEF Issued, Accounts
<1>3. KeepsTally(s, v)
  BY <1>1, <1>2, StakeLeftAlone
<1>4. InitialisedRewards(v.farm) = InitialisedRewards(s.farm)
  BY <1>1, <1>2 DEF InitialisedRewards
<1>5. /\ indices \in SUBSET InitialisedRewards(v.farm)
      /\ s.user.active_stake # 0 => indices = InitialisedRewards(v.farm)
  BY <1>4 DEF RefreshedIndices
<1>6. UserRefreshRewardOk(v, indices) /\ t = UserRefreshReward(v, indices)
  BY DEF RefreshRewardsOk, RefreshRewards
<1> HIDE DEF v, indices
<1>7. /\ KeepsTally(v, t)
      /\ t.user.active_stake = v.user.active_stake
      /\ \A i \in indices : /\ t.user.rewards_tally[i] =< Entitlement(v, i)
                            /\ Entitlement(v, i) < t.user.rewards_tally[i] + WAD
  BY <1>2, <1>5, <1>6, UserRefreshRewardTally
<1>8. t \in Accounts /\ t.farm = v.farm
  BY <1>2, RefreshRewardsIssues
<1> HIDE DEF t
<1>9. KeepsTally(s, t)
  BY <1>2, <1>3, <1>7, <1>8, KeepsTallyTransitive
<1>10. \A i : Entitlement(t, i) = Entitlement(v, i)
  BY <1>7, <1>8 DEF Entitlement
<1>11. s.user.active_stake # 0 => Counted(t)
  BY <1>5, <1>7, <1>8, <1>10 DEF Counted
<1> QED BY <1>2, <1>7, <1>9, <1>11 DEF t

-----------------------------------------------------------------------------
(* Unstaking is never refused for its tally *)

(* A user whose rewards are counted can take out any part of the stake. *)
LEMMA CountedCanReduce ==
  ASSUME NEW t \in Accounts, NEW shares \in Nat, shares =< t.user.active_stake,
         t.user.active_stake # 0 => Counted(t)
  PROVE  TallyCovers(t, shares)
<1> SUFFICES ASSUME NEW i \in InitialisedRewards(t.farm)
             PROVE  t.user.rewards_tally[i] + WAD > RewardValue(t.farm, shares, i)
  BY DEF TallyCovers
<1>1. /\ i \in RewardIndex /\ t.farm \in FarmAccount
      /\ t.user.active_stake \in Nat /\ t.user.rewards_tally[i] \in Nat
  BY DEF Accounts, UserAccount, InitialisedRewards
<1>2. RewardValue(t.farm, shares, i) \in Nat /\ Entitlement(t, i) \in Nat
  BY <1>1, RewardValueNat DEF Entitlement
<1>3. CASE t.user.active_stake = 0
  <2>1. shares = 0
    BY <1>1, <1>3
  <2>2. RewardValue(t.farm, 0, i) = 0
    <3>1. 0 * t.farm.rewards[i].reward_per_share_scaled = 0
      BY <1>1, RewardFields
    <3>2. 0 \div StakeScale = 0
      BY StakeScalePositive
    <3> QED BY <3>1, <3>2 DEF RewardValue, MulDiv
  <2> QED BY <1>1, <2>1, <2>2, MathAssumption
<1>4. CASE t.user.active_stake # 0
  <2>1. RewardValue(t.farm, shares, i) =< Entitlement(t, i)
    BY <1>1, RewardValueGrows, RewardFields DEF Entitlement
  <2>2. Entitlement(t, i) < t.user.rewards_tally[i] + WAD
    BY <1>4 DEF Counted
  <2> QED BY <1>1, <1>2, <2>1, <2>2, MathAssumption
<1> QED BY <1>3, <1>4

(* In a typed state the check of the tally holds for every user and request. *)
LEMMA TypedTallyNeverBlocks == TypeOK => TallyNeverBlocksUnstake
<1> SUFFICES ASSUME TypeOK, NEW u \in Users, NEW requested \in UnstakeShares,
                    RefreshRewardsOk(Of(u), env)
             PROVE  TallyCovers(RefreshRewards(Of(u), env),
                                SharesToUnstake(RefreshRewards(Of(u), env), requested))
  BY DEF TallyNeverBlocksUnstake
<1> DEFINE s == Of(u)
           t == RefreshRewards(s, env)
           shares == SharesToUnstake(t, requested)
<1>1. s \in Accounts /\ env \in Environment
  BY OfTypes
<1> HIDE DEF s
<1>2. /\ t \in Accounts
      /\ t.user.active_stake = s.user.active_stake
      /\ s.user.active_stake # 0 => Counted(t)
  BY <1>1, RefreshRewardsIssues, RefreshRewardsTally DEF s
<1> HIDE DEF t
<1>3. requested \in Nat /\ t.user.active_stake \in Nat
  BY <1>2, FarmAssumption DEF Accounts, UserAccount
<1>4. shares \in Nat /\ shares =< t.user.active_stake
  BY <1>3, LeastNat DEF SharesToUnstake
<1> HIDE DEF shares
<1>5. TallyCovers(t, shares)
  BY <1>2, <1>4, CountedCanReduce
<1> QED BY <1>5 DEF shares, t, s

(* However often a farm issues, users stake, unstake and claim, a refreshed  *)
(* user passes the check of the tally that unstake makes.                    *)
THEOREM TallyNeverBlocks == Spec => []TallyNeverBlocksUnstake
BY TypedTallyNeverBlocks, TypeCorrect, PTL

-----------------------------------------------------------------------------
(* Stake that comes and goes *)

(* The tally of new shares is what they are worth, rounded down; together    *)
(* with the old ones they are worth at least that.                           *)
LEMMA IncreaseTallyKeeps ==
  ASSUME NEW s \in Accounts, NEW t \in Accounts, NEW shares \in Nat,
         t.farm.rewards = s.farm.rewards, t.farm.num_reward_tokens = s.farm.num_reward_tokens,
         t.user.rewards_tally = s.user.rewards_tally,
         t.user.active_stake = s.user.active_stake + shares
  PROVE  KeepsTally(s, IncreaseTally(t, shares))
<1> DEFINE v == IncreaseTally(t, shares)
           old == s.user.active_stake
           tally == [i \in RewardIndex |-> IF i \in InitialisedRewards(t.farm)
                       THEN t.user.rewards_tally[i] + RewardValue(t.farm, shares, i)
                       ELSE t.user.rewards_tally[i]]
<1>1. /\ s.farm \in FarmAccount /\ t.farm \in FarmAccount /\ old \in Nat
      /\ t.user \in UserAccount /\ s.user.rewards_tally \in [RewardIndex -> Nat]
  BY DEF Accounts, UserAccount
<1>2. v = [t EXCEPT !.user.rewards_tally = tally]
  BY DEF IncreaseTally
<1>3. v.farm = t.farm
  BY IncreaseTallyTypes
<1>4. v.user.rewards_tally = tally /\ v.user.active_stake = old + shares
  <2> HIDE DEF tally, v
  <2> QED BY <1>1, <1>2 DEF Accounts, UserAccount
<1> HIDE DEF v
<1>5. InitialisedRewards(t.farm) = InitialisedRewards(s.farm)
  BY DEF InitialisedRewards
<1>6. RewardsGrow(s.farm, v.farm)
  BY <1>1, <1>3, SameRewardsGrow
<1>7. ASSUME TallyWithin(s.farm, s.user) PROVE TallyWithin(v.farm, v.user)
  <2> SUFFICES ASSUME NEW i \in RewardIndex
               PROVE  tally[i] =< IF i \in InitialisedRewards(s.farm)
                                  THEN RewardValue(t.farm, old + shares, i) + 1 ELSE 0
    BY <1>3, <1>4, <1>5 DEF TallyWithin
  <2>1. CASE i \in InitialisedRewards(s.farm)
    <3>1. tally[i] = s.user.rewards_tally[i] + RewardValue(t.farm, shares, i)
      BY <1>5, <2>1
    <3>2. s.user.rewards_tally[i] =< RewardValue(t.farm, old, i) + 1
      BY <1>7, <2>1, RewardValueSame DEF TallyWithin
    <3>3. RewardValue(t.farm, old, i) + RewardValue(t.farm, shares, i)
            =< RewardValue(t.farm, old + shares, i)
      BY <1>1, RewardValueOfSum
    <3>4. /\ RewardValue(t.farm, old, i) \in Nat /\ RewardValue(t.farm, shares, i) \in Nat
          /\ RewardValue(t.farm, old + shares, i) \in Nat /\ s.user.rewards_tally[i] \in Nat
      BY <1>1, RewardValueNat
    <3> HIDE DEF tally, old
    <3> QED BY <2>1, <3>1, <3>2, <3>3, <3>4
  <2>2. CASE i \notin InitialisedRewards(s.farm)
    BY <1>5, <1>7, <2>2 DEF TallyWithin
  <2> QED BY <2>1, <2>2
<1> QED BY <1>6, <1>7 DEF KeepsTally, v

(* The tally of shares that leave is rounded down too, so that the tally of  *)
(* those that stay may be one unit more than they are worth.                 *)
LEMMA ReduceTallyKeeps ==
  ASSUME NEW s \in Accounts, NEW t \in Accounts, NEW shares \in Nat, Counted(s),
         t.farm.rewards = s.farm.rewards, t.farm.num_reward_tokens = s.farm.num_reward_tokens,
         t.user.rewards_tally = s.user.rewards_tally,
         s.user.active_stake = t.user.active_stake + shares
  PROVE  KeepsTally(s, ReduceTally(t, shares))
<1> DEFINE v == ReduceTally(t, shares)
           left == t.user.active_stake
           tally == [i \in RewardIndex |-> IF i \in InitialisedRewards(t.farm)
                       THEN t.user.rewards_tally[i]
                              - Least(t.user.rewards_tally[i], RewardValue(t.farm, shares, i))
                       ELSE t.user.rewards_tally[i]]
<1>1. /\ s.farm \in FarmAccount /\ t.farm \in FarmAccount /\ left \in Nat
      /\ t.user \in UserAccount /\ s.user.rewards_tally \in [RewardIndex -> Nat]
  BY DEF Accounts, UserAccount
<1>2. v = [t EXCEPT !.user.rewards_tally = tally]
  BY DEF ReduceTally
<1>3. v.farm = t.farm
  BY ReduceTallyTypes
<1>4. v.user.rewards_tally = tally /\ v.user.active_stake = left
  <2> HIDE DEF tally, v
  <2> QED BY <1>1, <1>2 DEF Accounts, UserAccount
<1> HIDE DEF v
<1>5. InitialisedRewards(t.farm) = InitialisedRewards(s.farm)
  BY DEF InitialisedRewards
<1>6. RewardsGrow(s.farm, v.farm)
  BY <1>1, <1>3, SameRewardsGrow
<1>7. ASSUME TallyWithin(s.farm, s.user) PROVE TallyWithin(v.farm, v.user)
  <2> SUFFICES ASSUME NEW i \in RewardIndex
               PROVE  tally[i] =< IF i \in InitialisedRewards(s.farm)
                                  THEN RewardValue(t.farm, left, i) + 1 ELSE 0
    BY <1>3, <1>4, <1>5 DEF TallyWithin
  <2>1. CASE i \in InitialisedRewards(s.farm)
    <3> DEFINE old == s.user.rewards_tally[i]
               part == RewardValue(t.farm, shares, i)
               rest == RewardValue(t.farm, left, i)
               whole == RewardValue(t.farm, left + shares, i)
    <3>1. tally[i] = old - Least(old, part)
      BY <1>5, <2>1
    <3>2. old =< whole
      BY <2>1, RewardValueSame DEF Counted, Entitlement
    <3>3. whole =< rest + part + 1
      BY <1>1, RewardValueOfSum
    <3>4. part \in Nat /\ rest \in Nat /\ whole \in Nat /\ old \in Nat
      BY <1>1, RewardValueNat
    <3> HIDE DEF tally, old, part, rest, whole
    <3>5. tally[i] =< rest + 1
      BY <3>1, <3>2, <3>3, <3>4 DEF Least
    <3> QED BY <2>1, <3>5 DEF rest
  <2>2. CASE i \notin InitialisedRewards(s.farm)
    BY <1>5, <1>7, <2>2 DEF TallyWithin
  <2> QED BY <2>1, <2>2
<1> QED BY <1>6, <1>7 DEF KeepsTally, v

(* A matured deposit is activated with its tally. *)
LEMMA UserRefreshStakeTally ==
  ASSUME NEW s \in Accounts, NEW e \in Environment, UserRefreshStakeOk(s, e)
  PROVE  KeepsTally(s, UserRefreshStake(s, e))
<1> DEFINE f == InitializeRewardTsIfNeeded(s.farm, e.ts)
           t == [s EXCEPT !.farm = f]
<1>1. f \in FarmAccount /\ OnlyIssues(s.farm, f) /\ RewardsGrow(s.farm, f)
  BY InitializeRewardTsIssues, InitializeRewardTsGrows DEF Accounts, Environment
<1> HIDE DEF f
<1>2. t \in Accounts /\ t.farm = f /\ t.user = s.user
  BY <1>1 DEF Accounts
<1>3. KeepsTally(s, t)
  BY <1>1, <1>2, StakeLeftAlone
<1>4. CASE DepositMatured(s.user, e.ts)
  <2> DEFINE v == ActivatePendingStake(t)
             shares == ActivatedShares(t)
  <2>1. ActivatePendingStakeOk(t)
    BY <1>1, <1>2, <1>4 DEF UserRefreshStakeOk, ActivatePendingStakeOk, ActivatedAmount, OnlyIssues
  <2>2. v \in Accounts
    BY <1>2, <2>1, ActivatePendingStakeBooks
  <2>3. shares \in Nat
    BY <1>2, SharesForNat, AmountForNat, FarmFields
    DEF ActivatedShares, ActivatedAmount, Accounts, UserAccount
  <2>4. UserRefreshStake(s, e) = IncreaseTally(v, shares)
    BY <1>4 DEF UserRefreshStake, f
  <2> HIDE DEF t
  <2>5. t.farm \in FarmAccount /\ t.user \in UserAccount
    BY <1>2 DEF Accounts
  <2>6. /\ v.farm.rewards = t.farm.rewards
        /\ v.farm.num_reward_tokens = t.farm.num_reward_tokens
    BY <2>5 DEF ActivatePendingStake, AddActiveStake, RemovePendingDepositStake, FarmAccount
  <2>7. /\ v.user.rewards_tally = t.user.rewards_tally
        /\ v.user.active_stake = t.user.active_stake + shares
    BY <2>5 DEF ActivatePendingStake, AddActiveStake, RemovePendingDepositStake, ActivatedShares,
                FarmAccount, UserAccount
  <2> HIDE DEF v, shares
  <2>8. KeepsTally(t, IncreaseTally(v, shares))
    BY <1>2, <2>2, <2>3, <2>6, <2>7, IncreaseTallyKeeps
  <2>9. IncreaseTally(v, shares) \in Accounts
    BY <2>2, <2>3, IncreaseTallyTypes
  <2> QED BY <1>2, <1>3, <2>4, <2>8, <2>9, KeepsTallyTransitive
<1>5. CASE ~DepositMatured(s.user, e.ts)
  <2>1. UserRefreshStake(s, e) = t
    BY <1>5 DEF UserRefreshStake, f
  <2> QED BY <1>3, <2>1
<1> QED BY <1>4, <1>5

(* refresh_user_state keeps the tallies. *)
LEMMA UserRefreshStateTally ==
  ASSUME NEW s \in Accounts, NEW e \in Environment, UserRefreshStateOk(s, e)
  PROVE  KeepsTally(s, UserRefreshState(s, e))
<1> DEFINE t == RefreshRewards(s, e)
<1>1. t \in Accounts /\ KeepsTally(s, t)
  BY RefreshRewardsIssues, RefreshRewardsTally DEF UserRefreshStateOk
<1>2. CASE Delegated
  BY <1>1, <1>2 DEF UserRefreshState
<1>3. CASE ~Delegated
  <2>1. UserRefreshStakeOk(t, e) /\ UserRefreshState(s, e) = UserRefreshStake(t, e)
    BY <1>3 DEF UserRefreshState, UserRefreshStateOk
  <2> HIDE DEF t
  <2>2. UserRefreshStake(t, e) \in Accounts /\ KeepsTally(t, UserRefreshStake(t, e))
    BY <1>1, <2>1, UserRefreshStakeBooks, UserRefreshStakeTally
  <2> QED BY <1>1, <2>1, <2>2, KeepsTallyTransitive
<1> QED BY <1>2, <1>3

(* A deposit that waits earns nothing; one that does not brings its tally. *)
LEMMA DepositTally ==
  ASSUME NEW s \in Accounts, NEW amount \in Nat, NEW ts \in Nat
  PROVE  KeepsTally(s, Deposit(s, amount, ts))
<1> DEFINE warmup == s.farm.config.deposit_warmup_period
           waits == [AddPendingDepositStake(s, amount) EXCEPT
                       !.user.pending_deposit_stake_ts = ts + warmup]
           shares == SharesFor(amount, s.farm.active)
           added == AddActiveStake(s, amount)
           starts == IncreaseTally(added, shares)
           t == IF warmup > 0 THEN waits ELSE starts
           v == Deposit(s, amount, ts)
<1>1. s.farm \in FarmAccount /\ s.user \in UserAccount
  BY DEF Accounts
<1>2. v \in Accounts /\ v = [t EXCEPT !.user.last_stake_ts = ts]
  BY DepositBooks DEF Deposit
<1>3. CASE warmup > 0
  <2>1. v = [waits EXCEPT !.user.last_stake_ts = ts]
    BY <1>2, <1>3
  <2>2. /\ waits.farm.rewards = s.farm.rewards
        /\ waits.farm.num_reward_tokens = s.farm.num_reward_tokens
        /\ waits.user.rewards_tally = s.user.rewards_tally
        /\ waits.user.active_stake = s.user.active_stake
    BY <1>1 DEF AddPendingDepositStake, FarmAccount, UserAccount
  <2>3. waits \in Accounts
    <3>1. ts + warmup \in Nat
      BY <1>1, FarmFields DEF FarmConfig
    <3> HIDE DEF warmup
    <3> QED BY <3>1, AddPendingDepositStakeBooks DEF Accounts, UserAccount
  <2> HIDE DEF v, waits
  <2>4. /\ v.farm = waits.farm
        /\ v.user.rewards_tally = waits.user.rewards_tally
        /\ v.user.active_stake = waits.user.active_stake
    BY <2>1, <2>3 DEF Accounts, UserAccount
  <2>5. RewardsGrow(s.farm, v.farm)
    BY <1>1, <1>2, <2>2, <2>4, SameRewardsGrow DEF Accounts
  <2>6. KeepsTally(s, v)
    BY <1>2, <2>2, <2>4, <2>5, StakeLeftAlone
  <2> QED BY <2>6 DEF v
<1>4. CASE ~(warmup > 0)
  <2>1. v = [starts EXCEPT !.user.last_stake_ts = ts]
    BY <1>2, <1>4
  <2>2. shares \in Nat
    BY <1>1, SharesForNat, FarmFields
  <2>3. added \in Accounts
    BY AddActiveStakeBooks
  <2>4. /\ added.farm.rewards = s.farm.rewards
        /\ added.farm.num_reward_tokens = s.farm.num_reward_tokens
        /\ added.user.rewards_tally = s.user.rewards_tally
        /\ added.user.active_stake = s.user.active_stake + shares
    BY <1>1 DEF AddActiveStake, FarmAccount, UserAccount
  <2> HIDE DEF added, shares
  <2>5. starts \in Accounts /\ KeepsTally(s, starts)
    BY <2>2, <2>3, <2>4, IncreaseTallyTypes, IncreaseTallyKeeps
  <2> HIDE DEF starts, v
  <2>6. /\ v.farm = starts.farm
        /\ v.user.rewards_tally = starts.user.rewards_tally
        /\ v.user.active_stake = starts.user.active_stake
    BY <2>1, <2>5 DEF Accounts, UserAccount
  <2>7. KeepsTally(starts, v)
    <3>1. RewardsGrow(starts.farm, v.farm)
      BY <1>2, <2>5, <2>6, SameRewardsGrow DEF Accounts
    <3> QED BY <1>2, <2>5, <2>6, <3>1, StakeLeftAlone
  <2>8. KeepsTally(s, v)
    BY <1>2, <2>5, <2>7, KeepsTallyTransitive
  <2> QED BY <2>8 DEF v
<1> QED BY <1>3, <1>4

(* stake keeps the tallies. *)
LEMMA StakeTally ==
  ASSUME NEW s \in Accounts, NEW amount \in Nat, NEW e \in Environment, StakeOk(s, amount, e)
  PROVE  KeepsTally(s, Stake(s, amount, e))
<1> DEFINE t == RefreshRewards(s, e)
           r == UserRefreshStake(t, e)
<1>1. t \in Accounts /\ KeepsTally(s, t)
  BY RefreshRewardsIssues, RefreshRewardsTally DEF StakeOk
<1>2. r \in Accounts /\ KeepsTally(t, r)
  BY <1>1, UserRefreshStakeBooks, UserRefreshStakeTally DEF StakeOk
<1>3. Stake(s, amount, e) = Deposit(r, amount, e.ts) /\ e.ts \in Nat
  BY DEF Stake, Environment
<1> HIDE DEF t, r
<1>4. Deposit(r, amount, e.ts) \in Accounts /\ KeepsTally(r, Deposit(r, amount, e.ts))
  BY <1>2, <1>3, DepositBooks, DepositTally
<1>5. KeepsTally(s, r)
  BY <1>1, <1>2, KeepsTallyTransitive
<1> QED BY <1>1, <1>2, <1>3, <1>4, <1>5, KeepsTallyTransitive

(* Shares of a user whose rewards are counted leave with their tally. *)
LEMMA MoveOutTally ==
  ASSUME NEW s \in Accounts, NEW shares \in Nat, NEW ts \in Nat, MoveOutOk(s, shares, ts),
         Counted(s)
  PROVE  KeepsTally(s, MoveOut(s, shares, ts))
<1> DEFINE penalty == UnstakePenalty(s, shares, ts)
           deadline == ts + s.farm.config.withdrawal_cooldown_period
           t == [s EXCEPT !.user.pending_withdrawal_unstake_ts = deadline]
           moved == MoveToPendingWithdrawal(t, shares, ts)
           booked == BookedPenalty(moved, penalty)
<1>1. deadline \in Nat
  BY FarmFields DEF Accounts, FarmConfig
<1> HIDE DEF deadline
<1>2. t \in Accounts /\ t.farm = s.farm
  BY <1>1 DEF Accounts, UserAccount
<1>3. /\ t.user.last_stake_ts = s.user.last_stake_ts /\ t.user.active_stake = s.user.active_stake
      /\ t.user.rewards_tally = s.user.rewards_tally
  BY DEF Accounts, UserAccount
<1>4. UnstakePenalty(t, shares, ts) = penalty
  BY <1>2, <1>3 DEF UnstakePenalty, LockBegin
<1>5. MoveToPendingWithdrawalOk(t, shares, ts)
  BY <1>2, <1>3, <1>4 DEF MoveOutOk, MoveToPendingWithdrawalOk, UnstakedAmount, LockBegin
<1> HIDE DEF t
<1>6. moved \in Accounts
  BY <1>2, <1>4, <1>5, MoveToPendingWithdrawalBooks
<1>7. t.farm \in FarmAccount /\ t.user \in UserAccount
  BY <1>2 DEF Accounts
<1>8. /\ moved.farm.rewards = s.farm.rewards
      /\ moved.farm.num_reward_tokens = s.farm.num_reward_tokens
  BY <1>2, <1>7 DEF MoveToPendingWithdrawal, AddPendingWithdrawalStake, RemoveActiveStake,
                    FarmAccount
<1>9. /\ moved.user.rewards_tally = s.user.rewards_tally
      /\ moved.user.active_stake = s.user.active_stake - shares
  BY <1>3, <1>7 DEF MoveToPendingWithdrawal, AddPendingWithdrawalStake, RemoveActiveStake,
                    UserAccount
<1>10. penalty \in Nat
  BY <1>2, <1>4, <1>5, UnstakePenaltyBound
<1> HIDE DEF moved, penalty
<1>11. /\ booked \in Accounts /\ booked.user = moved.user
       /\ booked.farm.rewards = moved.farm.rewards
       /\ booked.farm.num_reward_tokens = moved.farm.num_reward_tokens
  BY <1>6, <1>10, PenaltyBooked
<1>12. MoveOut(s, shares, ts) = ReduceTally(booked, shares)
  BY DEF MoveOut, booked, BookedPenalty, moved, t, penalty, deadline
<1> HIDE DEF booked
<1>13. s.user.active_stake = booked.user.active_stake + shares
  BY <1>9, <1>11 DEF Accounts, UserAccount
<1>14. KeepsTally(s, ReduceTally(booked, shares))
  BY <1>8, <1>9, <1>11, <1>13, ReduceTallyKeeps
<1> QED BY <1>12, <1>14

(* unstake keeps the tallies: it counts the rewards first. *)
LEMMA UnstakeTally ==
  ASSUME NEW s \in Accounts, NEW requested \in Nat, NEW e \in Environment,
         UnstakeOk(s, requested, e)
  PROVE  KeepsTally(s, Unstake(s, requested, e))
<1> DEFINE t == RefreshRewards(s, e)
           shares == SharesToUnstake(t, requested)
<1>1. /\ t \in Accounts /\ KeepsTally(s, t)
      /\ t.user.active_stake = s.user.active_stake
      /\ s.user.active_stake # 0 => Counted(t)
  BY RefreshRewardsIssues, RefreshRewardsTally DEF UnstakeOk
<1>2. Unstake(s, requested, e) = MoveOut(t, shares, e.ts) /\ MoveOutOk(t, shares, e.ts)
  BY DEF Unstake, UnstakeOk
<1> HIDE DEF t
<1>3. shares \in Nat /\ shares =< t.user.active_stake
  BY <1>1 DEF SharesToUnstake, Least, Accounts, UserAccount
<1> HIDE DEF shares
<1>4. e.ts \in Nat
  BY DEF Environment
<1>5. Counted(t)
  <2>1. shares > 0
    BY <1>2 DEF MoveOutOk
  <2> QED BY <1>1, <1>3, <2>1
<1>6. MoveOut(t, shares, e.ts) \in Accounts /\ KeepsTally(t, MoveOut(t, shares, e.ts))
  BY <1>1, <1>2, <1>3, <1>4, <1>5, MoveOutBooks, MoveOutTally
<1> QED BY <1>1, <1>2, <1>6, KeepsTallyTransitive

(* A withdrawal touches no tally. *)
LEMMA WithdrawUnstakedDepositsTally ==
  ASSUME NEW s \in Accounts, NEW ts \in Nat, WithdrawUnstakedDepositsOk(s, ts)
  PROVE  KeepsTally(s, WithdrawUnstakedDeposits(s))
<1> DEFINE t == WithdrawUnstakedDeposits(s)
<1>1. t \in Accounts
  BY WithdrawUnstakedDepositsBooks
<1>2. s.farm \in FarmAccount /\ s.user \in UserAccount
  BY DEF Accounts
<1>3. /\ t.farm.rewards = s.farm.rewards
      /\ t.farm.num_reward_tokens = s.farm.num_reward_tokens
      /\ t.user.rewards_tally = s.user.rewards_tally
      /\ t.user.active_stake = s.user.active_stake
  BY <1>2 DEF WithdrawUnstakedDeposits, RemovePendingWithdrawalStake, FarmAccount, UserAccount
<1> HIDE DEF t
<1>4. RewardsGrow(s.farm, t.farm)
  BY <1>1, <1>2, <1>3, SameRewardsGrow DEF Accounts
<1>5. KeepsTally(s, t)
  BY <1>1, <1>3, <1>4, StakeLeftAlone
<1> QED BY <1>5 DEF t

-----------------------------------------------------------------------------
(* Rewards that move *)

(* A reward updated otherwise is worth what it was worth per share. *)
LEMMA UpdatedRewardGrows ==
  ASSUME NEW f \in FarmAccount, NEW i \in RewardIndex, NEW q \in RewardInfo,
         q.reward_per_share_scaled = f.rewards[i].reward_per_share_scaled
  PROVE  RewardsGrow(f, [f EXCEPT !.rewards[i] = q])
<1> DEFINE g == [f EXCEPT !.rewards[i] = q]
<1>1. /\ g \in FarmAccount /\ g.num_reward_tokens = f.num_reward_tokens
      /\ g.rewards[i] = q /\ \A j \in RewardIndex \ {i} : g.rewards[j] = f.rewards[j]
  BY UpdatedReward
<1> HIDE DEF g
<1>2. \A j \in RewardIndex : f.rewards[j].reward_per_share_scaled \in Nat
  BY RewardFields
<1>3. RewardsGrow(f, g)
  BY <1>1, <1>2 DEF RewardsGrow, InitialisedRewards
<1> QED BY <1>3 DEF g

(* Funding, withdrawing and configuring a reward lower no reward per share. *)
LEMMA RewardOperationsGrow ==
  ASSUME NEW f \in FarmAccount, NEW i \in RewardIndex, NEW e \in Environment
  PROVE  /\ \A amount \in Nat : AddRewardOk(f, i, amount, e) =>
              RewardsGrow(f, AddReward(f, i, amount, e))
         /\ \A amount \in Nat : WithdrawRewardOk(f, i, amount, e) =>
              RewardsGrow(f, WithdrawReward(f, i, amount, e))
         /\ \A config \in RewardConfig : UpdateRewardConfigOk(f, i, config, e) =>
              RewardsGrow(f, UpdateRewardConfig(f, i, config, e))
<1> DEFINE r == RefreshGlobalRewards(f, e)
<1>1. ASSUME RefreshGlobalRewardsOk(f, e)
      PROVE  /\ r \in FarmAccount /\ RewardsGrow(f, r)
             /\ r.rewards \in [RewardIndex -> RewardInfo] /\ r.rewards[i] \in RewardInfo
             /\ r.rewards[i].rewards_available \in Nat
  BY <1>1, RefreshGlobalRewardsIssues, RefreshGlobalRewardsGrow, RewardFields, FarmFields
<1>2. ASSUME NEW amount \in Nat, AddRewardOk(f, i, amount, e)
      PROVE  RewardsGrow(f, AddReward(f, i, amount, e))
  <2> DEFINE q == [r.rewards[i] EXCEPT !.rewards_available = @ + amount]
  <2>1. RefreshGlobalRewardsOk(f, e)
    BY <1>2 DEF AddRewardOk
  <2>2. AddReward(f, i, amount, e) = [r EXCEPT !.rewards[i] = q]
    BY <1>1, <2>1 DEF AddReward, FarmAccount
  <2> HIDE DEF r
  <2>3. /\ q \in RewardInfo
        /\ q.reward_per_share_scaled = r.rewards[i].reward_per_share_scaled
    BY <1>1, <2>1 DEF RewardInfo
  <2> HIDE DEF q
  <2>4. [r EXCEPT !.rewards[i] = q] \in FarmAccount /\ RewardsGrow(r, [r EXCEPT !.rewards[i] = q])
    BY <1>1, <2>1, <2>3, UpdatedReward, UpdatedRewardGrows
  <2> QED BY <1>1, <2>1, <2>2, <2>4, GrowthTransitive
<1>3. ASSUME NEW amount \in Nat, WithdrawRewardOk(f, i, amount, e)
      PROVE  RewardsGrow(f, WithdrawReward(f, i, amount, e))
  <2> DEFINE paid == WithdrawableReward(f, i, amount, e)
             q == [r.rewards[i] EXCEPT !.rewards_available = @ - paid]
  <2>1. RefreshGlobalRewardsOk(f, e)
    BY <1>3 DEF WithdrawRewardOk
  <2>2. WithdrawReward(f, i, amount, e) = [r EXCEPT !.rewards[i] = q]
    BY <1>1, <2>1 DEF WithdrawReward, FarmAccount
  <2>3. paid = Least(r.rewards[i].rewards_available, amount)
    BY DEF WithdrawableReward
  <2> HIDE DEF r, paid
  <2>4. /\ q \in RewardInfo
        /\ q.reward_per_share_scaled = r.rewards[i].reward_per_share_scaled
    BY <1>1, <2>1, <2>3 DEF RewardInfo, Least
  <2> HIDE DEF q
  <2>5. [r EXCEPT !.rewards[i] = q] \in FarmAccount /\ RewardsGrow(r, [r EXCEPT !.rewards[i] = q])
    BY <1>1, <2>1, <2>4, UpdatedReward, UpdatedRewardGrows
  <2> QED BY <1>1, <2>1, <2>2, <2>5, GrowthTransitive
<1>4. ASSUME NEW config \in RewardConfig, UpdateRewardConfigOk(f, i, config, e)
      PROVE  RewardsGrow(f, UpdateRewardConfig(f, i, config, e))
  <2> DEFINE q == [r.rewards[i] EXCEPT !.config = config, !.last_issuance_ts = e.ts]
  <2>1. RefreshGlobalRewardsOk(f, e)
    BY <1>4 DEF UpdateRewardConfigOk
  <2>2. UpdateRewardConfig(f, i, config, e) = [r EXCEPT !.rewards[i] = q]
    BY <1>1, <2>1 DEF UpdateRewardConfig, FarmAccount, RewardInfo
  <2> HIDE DEF r
  <2>3. /\ q \in RewardInfo
        /\ q.reward_per_share_scaled = r.rewards[i].reward_per_share_scaled
    BY <1>1, <2>1 DEF RewardInfo, Environment
  <2> HIDE DEF q
  <2>4. [r EXCEPT !.rewards[i] = q] \in FarmAccount /\ RewardsGrow(r, [r EXCEPT !.rewards[i] = q])
    BY <1>1, <2>1, <2>3, UpdatedReward, UpdatedRewardGrows
  <2> QED BY <1>1, <2>1, <2>2, <2>4, GrowthTransitive
<1> QED BY <1>2, <1>3, <1>4

(* A reward that is initialised starts with what it had per share. *)
LEMMA InitializeRewardGrows ==
  ASSUME NEW f \in FarmAccount, NEW ts \in Nat, f.num_reward_tokens < MAX_REWARDS_TOKENS
  PROVE  RewardsGrow(f, InitializeReward(f, ts))
<1> DEFINE n == f.num_reward_tokens
           q == [f.rewards[n] EXCEPT !.rewards_available = 0, !.last_issuance_ts = ts]
           h == [f EXCEPT !.rewards[n] = q]
           g == InitializeReward(f, ts)
<1>1. n \in RewardIndex
  BY FarmStateAssumption DEF FarmAccount, RewardIndex
<1>2. /\ q \in RewardInfo
      /\ q.reward_per_share_scaled = f.rewards[n].reward_per_share_scaled
  BY <1>1, RewardFields DEF RewardInfo
<1>3. g = [h EXCEPT !.num_reward_tokens = n + 1] /\ n = f.num_reward_tokens
  BY <1>1, FarmFields DEF InitializeReward, FarmAccount, RewardInfo
<1> HIDE DEF q, n, g
<1>4. /\ h \in FarmAccount /\ h.num_reward_tokens = n
      /\ RewardsGrow(f, h)
  BY <1>1, <1>2, <1>3, UpdatedReward, UpdatedRewardGrows
<1> HIDE DEF h
<1>5. g.rewards = h.rewards /\ g.num_reward_tokens = n + 1
  BY <1>3, <1>4 DEF FarmAccount
<1>6. InitialisedRewards(f) \subseteq InitialisedRewards(g)
  BY <1>1, <1>3, <1>5 DEF InitialisedRewards, RewardIndex
<1>7. RewardsGrow(f, g)
  BY <1>4, <1>5, <1>6 DEF RewardsGrow
<1> QED BY <1>7 DEF g

(* A harvest refreshes one reward, and what it pays is no tally. *)
LEMMA HarvestTally ==
  ASSUME NEW s \in Accounts, NEW i \in RewardIndex, NEW e \in Environment, HarvestOk(s, i, e)
  PROVE  KeepsTally(s, Harvest(s, i, e))
<1> DEFINE v == Issued(s, e)
           r == RefreshOne(s, i, e)
           reward == HarvestedReward(s, i, e)
           t == Harvest(s, i, e)
<1>1. /\ RefreshGlobalRewards(s.farm, e) \in FarmAccount
      /\ RefreshGlobalRewards(s.farm, e).num_reward_tokens = s.farm.num_reward_tokens
      /\ RewardsGrow(s.farm, RefreshGlobalRewards(s.farm, e))
  BY RefreshGlobalRewardsIssues, RefreshGlobalRewardsGrow
  DEF HarvestOk, Accounts, OnlyIssues, KeepsPromises
<1>2. v \in Accounts /\ v.farm = RefreshGlobalRewards(s.farm, e) /\ v.user = s.user
  BY <1>1 DEF Issued, Accounts
<1>3. KeepsTally(s, v)
  BY <1>1, <1>2, StakeLeftAlone
<1>4. {i} \in SUBSET InitialisedRewards(v.farm)
  BY <1>1, <1>2 DEF HarvestOk, InitialisedRewards
<1>5. UserRefreshRewardOk(v, {i}) /\ r = UserRefreshReward(v, {i})
  BY DEF HarvestOk, RefreshOne
<1>6. r \in Accounts
  BY RefreshOneIssues
<1>7. t \in Accounts
  BY HarvestPromises
<1>8. t = IF reward = 0 THEN r
          ELSE [ r EXCEPT !.farm.rewards[i].rewards_issued_unclaimed = @ - reward,
                          !.user.rewards_issued_unclaimed[i] = 0,
                          !.user.last_claim_ts[i] = e.ts ]
  BY DEF Harvest
<1> HIDE DEF v, r, reward, t
<1>9. KeepsTally(v, r)
  BY <1>2, <1>4, <1>5, UserRefreshRewardTally
<1>10. KeepsTally(s, r)
  BY <1>2, <1>3, <1>6, <1>9, KeepsTallyTransitive
<1>11. CASE reward = 0
  BY <1>8, <1>10, <1>11 DEF t
<1>12. CASE reward # 0
  <2>1. r.farm \in FarmAccount /\ r.user \in UserAccount /\ r.farm.rewards[i] \in RewardInfo
    BY <1>6, RewardFields DEF Accounts
  <2> DEFINE q == [r.farm.rewards[i] EXCEPT !.rewards_issued_unclaimed = @ - reward]
             paid == [r EXCEPT !.farm.rewards[i].rewards_issued_unclaimed = @ - reward]
             cleared == [paid EXCEPT !.user.rewards_issued_unclaimed[i] = 0]
  <2>2. /\ paid.farm = [r.farm EXCEPT !.rewards[i] = q] /\ paid.user = r.user
        /\ paid = [farm |-> paid.farm, user |-> paid.user]
    BY <1>6, <2>1 DEF Accounts, FarmAccount
  <2>3. t = [cleared EXCEPT !.user.last_claim_ts[i] = e.ts]
    BY <1>6, <1>8, <1>12 DEF Accounts
  <2> HIDE DEF paid
  <2>4. cleared.farm = paid.farm /\ cleared.user = [r.user EXCEPT !.rewards_issued_unclaimed[i] = 0]
    BY <2>2
  <2>5. cleared = [farm |-> cleared.farm, user |-> cleared.user]
    BY <2>2
  <2> HIDE DEF cleared
  <2>6. /\ t.farm = [r.farm EXCEPT !.rewards[i] = q]
        /\ t.user = [cleared.user EXCEPT !.last_claim_ts[i] = e.ts]
    BY <2>2, <2>3, <2>4, <2>5
  <2>7. /\ t.user.rewards_tally = r.user.rewards_tally
        /\ t.user.active_stake = r.user.active_stake
    BY <2>1, <2>4, <2>6 DEF UserAccount
  <2>8. \A j \in RewardIndex :
          t.farm.rewards[j].reward_per_share_scaled = r.farm.rewards[j].reward_per_share_scaled
    <3>1. t.farm.rewards = [r.farm.rewards EXCEPT ![i] = q]
      BY <2>1, <2>6 DEF FarmAccount
    <3>2. q.reward_per_share_scaled = r.farm.rewards[i].reward_per_share_scaled
      BY <2>1 DEF RewardInfo
    <3>3. r.farm.rewards \in [RewardIndex -> RewardInfo]
      BY <2>1, FarmFields
    <3> HIDE DEF q
    <3> QED BY <3>1, <3>2, <3>3
  <2>9. t.farm.num_reward_tokens = r.farm.num_reward_tokens
    BY <2>1, <2>6 DEF FarmAccount
  <2>10. RewardsGrow(r.farm, t.farm)
    BY <2>1, <2>8, <2>9, RewardFields DEF RewardsGrow, InitialisedRewards
  <2>11. KeepsTally(r, t)
    BY <1>6, <1>7, <2>7, <2>10, StakeLeftAlone
  <2>12. KeepsTally(s, t)
    BY <1>6, <1>7, <1>10, <2>11, KeepsTallyTransitive
  <2> QED BY <2>12 DEF t
<1> QED BY <1>11, <1>12

(* reward_user_once touches no tally. *)
LEMMA RewardUserOnceTally ==
  ASSUME NEW s \in Accounts, NEW i \in RewardIndex, NEW amount \in Nat
  PROVE  KeepsTally(s, RewardUserOnce(s, i, amount))
<1> DEFINE t == RewardUserOnce(s, i, amount)
           q == CreditedReward(s, i, amount)
<1>1. t \in Accounts
  BY RewardUserOncePromises
<1>2. s.farm \in FarmAccount /\ s.user \in UserAccount /\ s.farm.rewards[i] \in RewardInfo
  BY RewardFields DEF Accounts
<1>3. /\ t.farm = [s.farm EXCEPT !.rewards[i] = q]
      /\ t.user = [s.user EXCEPT !.rewards_issued_unclaimed[i] = @ + amount]
      /\ q \in RewardInfo
      /\ q.reward_per_share_scaled = s.farm.rewards[i].reward_per_share_scaled
  BY RewardUserOnceCredits
<1> HIDE DEF t, q
<1>4. /\ t.user.rewards_tally = s.user.rewards_tally
      /\ t.user.active_stake = s.user.active_stake
  BY <1>2, <1>3 DEF UserAccount
<1>5. RewardsGrow(s.farm, t.farm)
  BY <1>2, <1>3, UpdatedRewardGrows
<1>6. KeepsTally(s, t)
  BY <1>1, <1>4, <1>5, StakeLeftAlone
<1> QED BY <1>6 DEF t

(* set_stake sets the tally to the value of the new stake, which on a        *)
(* delegated farm is no quotient.                                            *)
LEMMA SetStakeTally ==
  ASSUME NEW s \in Accounts, NEW new_stake \in Nat, NEW e \in Environment,
         Delegated, SetStakeOk(s, new_stake, e)
  PROVE  KeepsTally(s, SetStake(s, new_stake, e))
<1>1. CASE new_stake = s.user.active_stake
  <2>1. SetStake(s, new_stake, e) = s
    BY <1>1 DEF SetStake
  <2> QED BY <2>1, SameRewardsGrow, StakeLeftAlone DEF Accounts
<1>2. CASE new_stake # s.user.active_stake
  <2> DEFINE r == RefreshRewards(s, WithoutPrice(e))
             f == IF StakeIncreases(s, new_stake)
                  THEN InitializeRewardTsIfNeeded(r.farm, e.ts) ELSE r.farm
             old == s.user.active_stake
             g == [f EXCEPT !.active.stake = @ + new_stake - old,
                            !.active.amount = @ + new_stake - old]
             tally == [i \in RewardIndex |-> IF i \in InitialisedRewards(f)
                         THEN f.rewards[i].reward_per_share_scaled * new_stake
                         ELSE r.user.rewards_tally[i]]
             staked_at == IF StakeIncreases(s, new_stake) THEN e.ts ELSE r.user.last_stake_ts
             u == [r.user EXCEPT !.active_stake = new_stake, !.last_stake_ts = staked_at,
                                 !.rewards_tally = tally]
             t == SetStake(s, new_stake, e)
  <2>1. e.ts \in Nat /\ WithoutPrice(e) \in Environment
    BY DEF Environment, Price, WithoutPrice
  <2>2. RefreshRewardsOk(s, WithoutPrice(e))
    BY <1>2 DEF SetStakeOk
  <2>3. r \in Accounts /\ KeepsTally(s, r)
    BY <2>1, <2>2, RefreshRewardsIssues, RefreshRewardsTally
  <2>4. t = [farm |-> g, user |-> u]
    BY <1>2 DEF SetStake
  <2>5. t \in Accounts
    BY SetStakeTypes
  <2> HIDE DEF r, t
  <2>6. r.farm \in FarmAccount /\ r.user \in UserAccount
    BY <2>3 DEF Accounts
  <2>7. /\ f \in FarmAccount /\ RewardsGrow(r.farm, f)
        /\ f.num_reward_tokens = r.farm.num_reward_tokens
    BY <2>1, <2>6, InitializeRewardTsIssues, InitializeRewardTsGrows, SameRewardsGrow
    DEF OnlyIssues, KeepsPromises
  <2> HIDE DEF f, staked_at
  <2>8. t.farm.rewards = f.rewards /\ t.farm.num_reward_tokens = f.num_reward_tokens
    BY <2>4, <2>7 DEF FarmAccount
  <2>9. t.user.rewards_tally = tally /\ t.user.active_stake = new_stake
    <3> HIDE DEF tally
    <3> QED BY <2>4, <2>6 DEF UserAccount
  <2>10. t.farm \in FarmAccount
    BY <2>5 DEF Accounts
  <2>11. RewardsGrow(s.farm, t.farm)
    <3>1. RewardsGrow(f, t.farm) /\ RewardsGrow(s.farm, r.farm)
      BY <2>3, <2>7, <2>8, <2>10, SameRewardsGrow DEF KeepsTally
    <3>2. RewardsGrow(r.farm, t.farm)
      BY <2>6, <2>7, <2>10, <3>1, GrowthTransitive
    <3> QED BY <2>6, <2>10, <3>1, <3>2, GrowthTransitive DEF Accounts
  <2>12. ASSUME TallyWithin(s.farm, s.user) PROVE TallyWithin(t.farm, t.user)
    <3>1. TallyWithin(r.farm, r.user)
      BY <2>3, <2>12 DEF KeepsTally
    <3> SUFFICES ASSUME NEW i \in RewardIndex
                 PROVE  tally[i] =< IF i \in InitialisedRewards(f)
                                    THEN RewardValue(f, new_stake, i) + 1 ELSE 0
      BY <2>8, <2>9, RewardValueSame DEF TallyWithin, InitialisedRewards
    <3>2. CASE i \in InitialisedRewards(f)
      <4> DEFINE p == f.rewards[i].reward_per_share_scaled
      <4>1. p \in Nat
        BY <2>7, RewardFields
      <4>2. RewardValue(f, new_stake, i) = (new_stake * p) \div 1
        BY DEF RewardValue, MulDiv, StakeScale
      <4>3. tally[i] = p * new_stake
        BY <3>2
      <4> HIDE DEF p, tally
      <4>4. new_stake * p \in Nat /\ p * new_stake = new_stake * p
        BY <4>1
      <4>5. (new_stake * p) \div 1 = new_stake * p
        BY <4>4
      <4> QED BY <3>2, <4>2, <4>3, <4>4, <4>5
    <3>3. CASE i \notin InitialisedRewards(f)
      <4>1. i \notin InitialisedRewards(r.farm)
        BY <2>7, <3>3 DEF InitialisedRewards
      <4> QED BY <3>1, <3>3, <4>1 DEF TallyWithin
    <3> QED BY <3>2, <3>3
  <2> QED BY <2>11, <2>12 DEF KeepsTally, t
<1> QED BY <1>1, <1>2

-----------------------------------------------------------------------------
(* Each instruction keeps the tallies within bounds *)

TalliesWithin == \A u \in Users : TallyWithin(farm, users[u])

(* Inductive together with the types. *)
TallyInv == TypeOK /\ TalliesWithin

(* An instruction that keeps the tally of its user keeps those of all. *)
LEMMA BecomesTally ==
  ASSUME TallyInv, NEW u \in Users, NEW s \in Accounts, Becomes(u, s), KeepsTally(Of(u), s)
  PROVE  TalliesWithin'
<1>1. farm \in FarmAccount /\ users \in [Users -> UserAccount] /\ s.farm \in FarmAccount
  BY DEF TallyInv, TypeOK, Accounts
<1>2. farm' = s.farm /\ users' = [users EXCEPT ![u] = s.user]
  BY DEF Becomes
<1>3. RewardsGrow(farm, s.farm) /\ (TallyWithin(farm, users[u]) => TallyWithin(s.farm, s.user))
  BY DEF KeepsTally, Of
<1>4. ASSUME NEW v \in Users PROVE TallyWithin(farm', users'[v])
  <2>1. TallyWithin(farm, users[v]) /\ users[v] \in UserAccount
    BY <1>1 DEF TallyInv, TalliesWithin
  <2>2. CASE v = u
    BY <1>1, <1>2, <1>3, <2>1, <2>2
  <2>3. CASE v # u
    <3>1. TallyWithin(s.farm, users[v])
      BY <1>1, <1>3, <2>1, GrowthKeepsTally
    <3> QED BY <1>1, <1>2, <2>3, <3>1
  <2> QED BY <2>2, <2>3
<1> QED BY <1>4 DEF TalliesWithin, TallyWithin

(* So does one that changes the farm only and lowers no reward per share. *)
LEMMA FarmGrowsTally ==
  ASSUME TallyInv, farm' \in FarmAccount, RewardsGrow(farm, farm'), UNCHANGED users
  PROVE  TalliesWithin'
<1>1. farm \in FarmAccount /\ users \in [Users -> UserAccount]
  BY DEF TallyInv, TypeOK
<1>2. ASSUME NEW v \in Users PROVE TallyWithin(farm', users'[v])
  <2>1. TallyWithin(farm, users[v]) /\ users[v] \in UserAccount
    BY <1>1 DEF TallyInv, TalliesWithin
  <2> QED BY <1>1, <2>1, GrowthKeepsTally
<1> QED BY <1>2 DEF TalliesWithin, TallyWithin

(* And one that changes neither. *)
LEMMA UntouchedTally ==
  ASSUME TallyInv, UNCHANGED <<farm, users>>
  PROVE  TalliesWithin'
BY DEF TallyInv, TalliesWithin, TallyWithin, InitialisedRewards, RewardValue

(* The instructions of a user on the user's own account. *)
LEMMA UserInstructionTally ==
  ASSUME TallyInv, NEW u \in Users,
         \/ HandleInitializeUser(u)
         \/ HandleRefreshUserState(u)
         \/ \E amount \in StakeAmounts : HandleStake(u, amount)
         \/ \E shares \in UnstakeShares : HandleUnstake(u, shares)
         \/ HandleWithdrawUnstakedDeposits(u)
         \/ \E stake \in DelegatedStakes : HandleSetStakeDelegated(u, stake)
  PROVE  TalliesWithin'
<1>1. /\ TypeOK /\ Of(u) \in Accounts /\ env \in Environment
      /\ Of(u).farm = farm /\ Of(u).user = users[u] /\ now \in Nat
  BY OfTypes DEF TallyInv, TypeOK
<1>2. CASE HandleInitializeUser(u)
  <2> DEFINE user == InitializeUser(users[u], now)
             s == [farm |-> farm, user |-> user]
  <2>1. user \in UserAccount /\ farm \in FarmAccount
    BY <1>1 DEF TypeOK, InitializeUser, UserAccount
  <2>2. user.rewards_tally = users[u].rewards_tally /\ user.active_stake = users[u].active_stake
    BY <1>1 DEF TypeOK, InitializeUser, UserAccount
  <2>3. users' = [users EXCEPT ![u] = user] /\ farm' = farm
    BY <1>2 DEF HandleInitializeUser
  <2> HIDE DEF user
  <2>4. s \in Accounts /\ Becomes(u, s)
    BY <2>1, <2>3 DEF Accounts, Becomes
  <2>5. KeepsTally(Of(u), s)
    BY <1>1, <2>1, <2>2, <2>4, SameRewardsGrow, StakeLeftAlone
  <2> HIDE DEF s
  <2> QED BY <2>4, <2>5, BecomesTally
<1>3. CASE HandleRefreshUserState(u)
  <2> DEFINE s == UserRefreshState(Of(u), env)
  <2>1. UserRefreshStateOk(Of(u), env) /\ Becomes(u, s)
    BY <1>3 DEF HandleRefreshUserState
  <2>2. s \in Accounts /\ KeepsTally(Of(u), s)
    BY <1>1, <2>1, UserRefreshStateBooks, UserRefreshStateTally
  <2> HIDE DEF s
  <2> QED BY <2>1, <2>2, BecomesTally
<1>4. ASSUME NEW amount \in StakeAmounts, HandleStake(u, amount) PROVE TalliesWithin'
  <2> DEFINE tokens == StakedTokens(u, amount)
             s == Stake(Of(u), tokens, env)
  <2>1. StakeOk(Of(u), tokens, env) /\ Becomes(u, s)
    BY <1>4 DEF HandleStake
  <2>2. tokens \in Nat
    BY <1>1, StakedTokensNat
  <2> HIDE DEF tokens
  <2>3. s \in Accounts /\ KeepsTally(Of(u), s)
    BY <1>1, <2>1, <2>2, StakeBooks, StakeTally
  <2> HIDE DEF s
  <2> QED BY <2>1, <2>3, BecomesTally
<1>5. ASSUME NEW shares \in UnstakeShares, HandleUnstake(u, shares) PROVE TalliesWithin'
  <2> DEFINE s == Unstake(Of(u), shares, env)
  <2>1. UnstakeOk(Of(u), shares, env) /\ Becomes(u, s)
    BY <1>5 DEF HandleUnstake
  <2>2. shares \in Nat
    BY FarmAssumption
  <2>3. s \in Accounts /\ KeepsTally(Of(u), s)
    BY <1>1, <2>1, <2>2, UnstakeBooks, UnstakeTally
  <2> HIDE DEF s
  <2> QED BY <2>1, <2>3, BecomesTally
<1>6. CASE HandleWithdrawUnstakedDeposits(u)
  <2> DEFINE s == WithdrawUnstakedDeposits(Of(u))
  <2>1. WithdrawUnstakedDepositsOk(Of(u), now) /\ Becomes(u, s)
    BY <1>6 DEF HandleWithdrawUnstakedDeposits
  <2>2. s \in Accounts /\ KeepsTally(Of(u), s)
    BY <1>1, <2>1, WithdrawUnstakedDepositsBooks, WithdrawUnstakedDepositsTally
  <2> HIDE DEF s
  <2> QED BY <2>1, <2>2, BecomesTally
<1>7. ASSUME NEW stake \in DelegatedStakes, HandleSetStakeDelegated(u, stake) PROVE TalliesWithin'
  <2> DEFINE s == SetStake(Of(u), stake, env)
  <2>1. Delegated /\ SetStakeOk(Of(u), stake, env) /\ Becomes(u, s)
    BY <1>7 DEF HandleSetStakeDelegated
  <2>2. stake \in Nat
    BY FarmAssumption
  <2>3. s \in Accounts /\ KeepsTally(Of(u), s)
    BY <1>1, <2>1, <2>2, SetStakeTypes, SetStakeTally
  <2> HIDE DEF s
  <2> QED BY <2>1, <2>3, BecomesTally
<1> QED BY <1>2, <1>3, <1>4, <1>5, <1>6, <1>7

(* transfer_ownership: the old owner's tally shrinks, the new owner's grows. *)
LEMMA TransferOwnershipTally ==
  ASSUME TallyInv, NEW old \in Users, NEW new \in Users, HandleTransferOwnership(old, new)
  PROVE  TalliesWithin'
<1> DEFINE s == Of(old)
           shares == users[old].active_stake
           out == TransferUnstaked(old)
           paid == TransferWithdrawn(old)
           amount == TransferredAmount(old)
           heir == [farm |-> paid.farm, user |-> Heir(new)]
           moved == Stake(heir, amount, env)
<1>1. TypeOK /\ now \in Nat /\ farm \in FarmAccount /\ users \in [Users -> UserAccount]
  BY DEF TallyInv, TypeOK
<1>2. s \in Accounts /\ env \in Environment /\ s.farm = farm /\ s.user = users[old]
  BY <1>1, OfTypes
<1>3. /\ UnstakeOk(s, shares, env)
      /\ WithdrawUnstakedDepositsOk(out, now)
      /\ StakeOk(heir, amount, env)
      /\ old # new
      /\ farm' = moved.farm
      /\ users' = [users EXCEPT ![old] = paid.user, ![new] = moved.user]
  BY DEF HandleTransferOwnership
<1>4. /\ out = Unstake(s, shares, env)
      /\ paid = WithdrawUnstakedDeposits(out) /\ amount = AmountToWithdraw(out)
  BY DEF TransferUnstaked, TransferWithdrawn, TransferredAmount
<1>5. shares \in Nat
  BY <1>1 DEF UserAccount
<1> HIDE DEF s, shares, out, paid, amount
<1>6. out \in Accounts /\ KeepsTally(s, out)
  BY <1>2, <1>3, <1>4, <1>5, UnstakeBooks, UnstakeTally
<1>7. paid \in Accounts /\ amount \in Nat /\ KeepsTally(out, paid)
  BY <1>1, <1>3, <1>4, <1>6, WithdrawUnstakedDepositsBooks, WithdrawUnstakedDepositsTally
<1>8. /\ Heir(new) \in UserAccount
      /\ Heir(new).rewards_tally = users[new].rewards_tally
      /\ Heir(new).active_stake = users[new].active_stake
  BY <1>1 DEF Heir, InitializeUser, UserAccount
<1>9. heir \in Accounts /\ heir.farm = paid.farm /\ heir.user = Heir(new)
  BY <1>7, <1>8 DEF Accounts
<1> HIDE DEF heir
<1>10. moved \in Accounts /\ KeepsTally(heir, moved)
  BY <1>2, <1>3, <1>7, <1>9, StakeBooks, StakeTally
<1> HIDE DEF moved
<1>11. KeepsTally(s, paid)
  BY <1>2, <1>6, <1>7, KeepsTallyTransitive
<1>12. paid.farm \in FarmAccount /\ paid.user \in UserAccount /\ moved.farm \in FarmAccount
  BY <1>7, <1>10 DEF Accounts
<1>13. RewardsGrow(farm, paid.farm) /\ RewardsGrow(paid.farm, moved.farm)
  BY <1>2, <1>9, <1>10, <1>11 DEF KeepsTally
<1>14. RewardsGrow(farm, moved.farm)
  BY <1>1, <1>12, <1>13, GrowthTransitive
<1>15. \A v \in Users : TallyWithin(farm, users[v]) /\ users[v] \in UserAccount
  BY <1>1 DEF TallyInv, TalliesWithin
<1>16. TallyWithin(moved.farm, paid.user)
  <2>1. TallyWithin(paid.farm, paid.user)
    BY <1>2, <1>11, <1>15 DEF KeepsTally
  <2> QED BY <1>12, <1>13, <2>1, GrowthKeepsTally
<1>17. TallyWithin(moved.farm, moved.user)
  <2>1. TallyWithin(paid.farm, users[new])
    BY <1>1, <1>12, <1>13, <1>15, GrowthKeepsTally
  <2>2. TallyWithin(heir.farm, heir.user)
    BY <1>8, <1>9, <2>1 DEF TallyWithin
  <2> QED BY <1>10, <2>2 DEF KeepsTally
<1>18. ASSUME NEW v \in Users PROVE TallyWithin(farm', users'[v])
  <2>1. CASE v = new
    BY <1>1, <1>3, <1>17, <2>1
  <2>2. CASE v = old
    BY <1>1, <1>3, <1>16, <2>2
  <2>3. CASE v # new /\ v # old
    <3>1. TallyWithin(moved.farm, users[v])
      BY <1>1, <1>12, <1>14, <1>15, GrowthKeepsTally
    <3> QED BY <1>1, <1>3, <2>3, <3>1
  <2> QED BY <2>1, <2>2, <2>3
<1> QED BY <1>18 DEF TalliesWithin, TallyWithin

(* The instructions on the farm alone. *)
LEMMA FarmInstructionTally ==
  ASSUME TallyInv, TypeOK', FarmInstruction
  PROVE  TalliesWithin'
<1>1. /\ farm \in FarmAccount /\ farm' \in FarmAccount /\ env \in Environment /\ now \in Nat
  BY DEF TallyInv, TypeOK, env, Environment
<1>2. CASE HandleRefreshFarm
  BY <1>1, <1>2, RefreshGlobalRewardsGrow, FarmGrowsTally DEF HandleRefreshFarm
<1>3. CASE HandleInitializeReward
  BY <1>1, <1>3, InitializeRewardGrows, FarmGrowsTally DEF HandleInitializeReward
<1>4. CASE \/ HandleWithdrawSlashedAmount
           \/ \E config \in FarmConfigs : HandleUpdateFarmConfig(config)
           \/ \E amount \in VaultDeposits : HandleDepositToFarmVault(amount)
           \/ \E amount \in VaultWithdrawals : HandleWithdrawFromFarmVault(amount)
  <2>1. /\ farm'.rewards = farm.rewards /\ farm'.num_reward_tokens = farm.num_reward_tokens
        /\ UNCHANGED users
    BY <1>1, <1>4
    DEF HandleWithdrawSlashedAmount, HandleUpdateFarmConfig, HandleDepositToFarmVault,
        IncreaseTotalAmount, HandleWithdrawFromFarmVault, WithdrawFarm, FarmAccount
  <2> QED BY <1>1, <2>1, SameRewardsGrow, FarmGrowsTally
<1> QED BY <1>2, <1>3, <1>4 DEF FarmInstruction

(* The instructions on one reward. *)
LEMMA RewardInstructionTally ==
  ASSUME TallyInv, TypeOK', NEW i \in RewardIndex, RewardInstruction(i)
  PROVE  TalliesWithin'
<1>1. /\ TypeOK /\ farm \in FarmAccount /\ farm' \in FarmAccount /\ env \in Environment
  BY DEF TallyInv, TypeOK, env, Environment
<1>2. ASSUME NEW u \in Users, HandleHarvestReward(u, i) PROVE TalliesWithin'
  <2> DEFINE s == Harvest(Of(u), i, env)
  <2>1. HarvestOk(Of(u), i, env) /\ Becomes(u, s)
    BY <1>2 DEF HandleHarvestReward
  <2>2. Of(u) \in Accounts
    BY <1>1, OfTypes
  <2>3. s \in Accounts /\ KeepsTally(Of(u), s)
    BY <1>1, <2>1, <2>2, HarvestPromises, HarvestTally
  <2> HIDE DEF s
  <2> QED BY <2>1, <2>3, BecomesTally
<1>3. ASSUME NEW u \in Users, NEW amount \in CreditAmounts, HandleRewardUserOnce(u, i, amount)
      PROVE  TalliesWithin'
  <2> DEFINE s == RewardUserOnce(Of(u), i, amount)
  <2>1. Becomes(u, s) /\ amount \in Nat
    BY <1>3, FarmAssumption DEF HandleRewardUserOnce
  <2>2. Of(u) \in Accounts
    BY <1>1, OfTypes
  <2>3. s \in Accounts /\ KeepsTally(Of(u), s)
    BY <2>1, <2>2, RewardUserOncePromises, RewardUserOnceTally
  <2> HIDE DEF s
  <2> QED BY <2>1, <2>3, BecomesTally
<1>4. ASSUME NEW amount \in RewardAmounts, HandleAddReward(i, amount) PROVE TalliesWithin'
  <2>1. RewardsGrow(farm, farm') /\ UNCHANGED users
    BY <1>1, <1>4, FarmAssumption, RewardOperationsGrow DEF HandleAddReward
  <2> QED BY <1>1, <2>1, FarmGrowsTally
<1>5. ASSUME NEW amount \in RewardAmounts, HandleWithdrawReward(i, amount) PROVE TalliesWithin'
  <2>1. RewardsGrow(farm, farm') /\ UNCHANGED users
    BY <1>1, <1>5, FarmAssumption, RewardOperationsGrow DEF HandleWithdrawReward
  <2> QED BY <1>1, <2>1, FarmGrowsTally
<1>6. ASSUME NEW config \in RewardConfigs, HandleUpdateRewardConfig(i, config)
      PROVE  TalliesWithin'
  <2>1. RewardsGrow(farm, farm') /\ UNCHANGED users
    BY <1>1, <1>6, FarmAssumption, RewardOperationsGrow DEF HandleUpdateRewardConfig
  <2> QED BY <1>1, <2>1, FarmGrowsTally
<1>7. ASSUME NEW amount \in RewardAmounts, HandleWithdrawTreasury(i, amount)
      PROVE  TalliesWithin'
  BY <1>7, UntouchedTally DEF HandleWithdrawTreasury
<1> QED BY <1>2, <1>3, <1>4, <1>5, <1>6, <1>7 DEF RewardInstruction

(* New users have no tallies. *)
LEMMA InitTally == Init => TallyInv
<1> SUFFICES ASSUME Init PROVE TallyInv
  OBVIOUS
<1>1. TypeOK
  BY InitCustody DEF Custody
<1>2. farm \in FarmAccount
  BY <1>1 DEF TypeOK
<1>3. ASSUME NEW u \in Users PROVE TallyWithin(farm, users[u])
  <2>1. users[u] = NewUser
    BY DEF Init
  <2>2. /\ NewUser.active_stake = 0 /\ \A i \in RewardIndex : NewUser.rewards_tally[i] = 0
    BY DEF NewUser
  <2>3. \A i \in RewardIndex : RewardValue(farm, 0, i) \in Nat
    BY <1>2, RewardValueNat
  <2> QED BY <2>1, <2>2, <2>3 DEF TallyWithin
<1> QED BY <1>1, <1>3 DEF TallyInv, TalliesWithin

(* Whatever happens keeps the tallies within bounds. *)
LEMMA NextTally == TallyInv /\ TypeOK' /\ [Next]_vars => TallyInv'
<1> SUFFICES ASSUME TallyInv, TypeOK', [Next]_vars PROVE TalliesWithin'
  BY DEF TallyInv
<1>1. ASSUME NEW u \in Users, UserInstruction(u) PROVE TalliesWithin'
  BY <1>1, UserInstructionTally, TransferOwnershipTally DEF UserInstruction
<1>2. CASE FarmInstruction
  BY <1>2, FarmInstructionTally
<1>3. ASSUME NEW i \in RewardIndex, RewardInstruction(i) PROVE TalliesWithin'
  BY <1>3, RewardInstructionTally
<1>4. CASE GlobalInstruction \/ Tick \/ UpdatePrice \/ UNCHANGED vars
  <2>1. UNCHANGED <<farm, users>>
    BY <1>4 DEF GlobalInstruction, HandleUpdateGlobalConfig, Tick, UpdatePrice, vars
  <2> QED BY <2>1, UntouchedTally
<1> QED BY <1>1, <1>2, <1>3, <1>4 DEF Next

(* Whatever users stake, unstake and claim in whatever order, a tally is     *)
(* ahead of the value it is compared with by one unit of the last decimal at *)
(* most: the roundings of partial unstakes do not add up.                    *)
THEOREM TallyOvershoot == Spec => []TallyOvershootsByOneUnit
<1>1. TallyInv => TallyOvershootsByOneUnit
  BY DEF TallyInv, TalliesWithin, TallyWithin, TallyOvershootsByOneUnit, Entitlement, Of,
         InitialisedRewards
<1>2. Spec => []TallyInv
  BY InitTally, NextTally, TypeCorrect, PTL DEF Spec
<1> QED BY <1>1, <1>2, PTL

-----------------------------------------------------------------------------
(* The rewards' books are solvent, for every number of users and rewards and *)
(* every scale of the decimals: what all users together can claim was issued.*)

(* What was issued of a reward, less what the shares have earned in all, and *)
(* what a user's tally adds to it, less what is counted for the user: both   *)
(* in the smallest unit of the decimals, before any division.                *)
FarmSlack(f, i) ==
  WAD * StakeScale * f.rewards[i].rewards_issued_unclaimed
    - f.active.stake * f.rewards[i].reward_per_share_scaled

UserSlack(user, i) ==
  StakeScale * user.rewards_tally[i] - WAD * StakeScale * user.rewards_issued_unclaimed[i]

Slack(s, i) == FarmSlack(s.farm, i) + UserSlack(s.user, i)

(* A reward that is not initialised has earned nothing for any share. *)
RewardsUnset(f) ==
  \A i \in RewardIndex : i \notin InitialisedRewards(f) => f.rewards[i].reward_per_share_scaled = 0

(* The farm keeps its slack. *)
FarmCovers(f, g) ==
  /\ g.num_reward_tokens = f.num_reward_tokens
  /\ \A i \in RewardIndex :
       /\ i \notin InitialisedRewards(f) =>
            g.rewards[i].reward_per_share_scaled = f.rewards[i].reward_per_share_scaled
       /\ FarmSlack(f, i) =< FarmSlack(g, i)

(* The farm and the user keep theirs together, but for n roundings. *)
Covers(s, t, n) ==
  /\ t.farm.num_reward_tokens = s.farm.num_reward_tokens
  /\ \A i \in RewardIndex :
       /\ i \notin InitialisedRewards(s.farm) =>
            t.farm.rewards[i].reward_per_share_scaled = s.farm.rewards[i].reward_per_share_scaled
       /\ Slack(s, i) =< Slack(t, i) + StakeScale * n

-----------------------------------------------------------------------------
(* Arithmetic of the slack *)

(* Slack is a number, which may be negative. *)
LEMMA SlackInt ==
  ASSUME NEW f \in FarmAccount, NEW user \in UserAccount, NEW i \in RewardIndex
  PROVE  FarmSlack(f, i) \in Int /\ UserSlack(user, i) \in Int
<1>1. /\ f.rewards[i].rewards_issued_unclaimed \in Nat
      /\ f.rewards[i].reward_per_share_scaled \in Nat /\ f.active.stake \in Nat
  BY RewardFields, FarmFields
<1>2. user.rewards_tally[i] \in Nat /\ user.rewards_issued_unclaimed[i] \in Nat
  BY DEF UserAccount
<1>3. WAD \in Nat /\ StakeScale \in Nat
  BY MathAssumption, StakeScalePositive
<1> QED BY <1>1, <1>2, <1>3 DEF FarmSlack, UserSlack

(* What an account's owner and the farm have together is a number too. *)
LEMMA AccountsSlackInt ==
  ASSUME NEW s \in Accounts, NEW i \in RewardIndex
  PROVE  Slack(s, i) \in Int
<1>1. s.farm \in FarmAccount /\ s.user \in UserAccount
  BY DEF Accounts
<1> QED BY <1>1, SlackInt DEF Slack

(* Slack kept and kept again is kept. *)
LEMMA CoversTransitive ==
  ASSUME NEW s \in Accounts, NEW t \in Accounts, NEW v \in Accounts, NEW m \in Nat, NEW n \in Nat,
         Covers(s, t, m), Covers(t, v, n)
  PROVE  Covers(s, v, m + n)
<1>1. InitialisedRewards(s.farm) = InitialisedRewards(t.farm)
  BY DEF Covers, InitialisedRewards
<1>2. ASSUME NEW i \in RewardIndex PROVE Slack(s, i) =< Slack(v, i) + StakeScale * (m + n)
  <2>1. Slack(s, i) \in Int /\ Slack(t, i) \in Int /\ Slack(v, i) \in Int
    BY AccountsSlackInt
  <2>2. StakeScale * (m + n) = StakeScale * m + StakeScale * n
    BY StakeScalePositive
  <2>3. StakeScale * m \in Nat /\ StakeScale * n \in Nat
    BY StakeScalePositive
  <2>4. Slack(s, i) =< Slack(t, i) + StakeScale * m /\ Slack(t, i) =< Slack(v, i) + StakeScale * n
    BY DEF Covers
  <2> QED BY <2>1, <2>2, <2>3, <2>4
<1> QED BY <1>1, <1>2 DEF Covers

(* A farm that covers alone covers with a user whose tally and counted       *)
(* rewards are left alone.                                                   *)
LEMMA FarmCoversCovers ==
  ASSUME NEW s \in Accounts, NEW t \in Accounts, FarmCovers(s.farm, t.farm),
         t.user.rewards_tally = s.user.rewards_tally,
         t.user.rewards_issued_unclaimed = s.user.rewards_issued_unclaimed
  PROVE  Covers(s, t, 0)
<1>1. s.farm \in FarmAccount /\ s.user \in UserAccount /\ t.farm \in FarmAccount
      /\ t.user \in UserAccount
  BY DEF Accounts
<1>2. ASSUME NEW i \in RewardIndex PROVE Slack(s, i) =< Slack(t, i) + StakeScale * 0
  <2>1. UserSlack(t.user, i) = UserSlack(s.user, i)
    BY DEF UserSlack
  <2>2. /\ FarmSlack(s.farm, i) \in Int /\ FarmSlack(t.farm, i) \in Int
        /\ UserSlack(s.user, i) \in Int
    BY <1>1, SlackInt
  <2>3. StakeScale * 0 = 0
    BY StakeScalePositive
  <2> QED BY <2>1, <2>2, <2>3 DEF FarmCovers, Slack
<1> QED BY <1>2 DEF Covers, FarmCovers

(* A farm whose stake and rewards are left alone covers. *)
LEMMA SameClaimsCover ==
  ASSUME NEW f \in FarmAccount, NEW g \in FarmAccount,
         g.num_reward_tokens = f.num_reward_tokens, g.active.stake = f.active.stake,
         \A i \in RewardIndex :
           /\ g.rewards[i].reward_per_share_scaled = f.rewards[i].reward_per_share_scaled
           /\ g.rewards[i].rewards_issued_unclaimed = f.rewards[i].rewards_issued_unclaimed
  PROVE  FarmCovers(f, g)
<1>1. ASSUME NEW i \in RewardIndex PROVE FarmSlack(f, i) =< FarmSlack(g, i)
  <2>1. FarmSlack(g, i) = FarmSlack(f, i)
    BY DEF FarmSlack
  <2>2. FarmSlack(f, i) \in Int
    <3>1. /\ f.rewards[i].rewards_issued_unclaimed \in Nat
          /\ f.rewards[i].reward_per_share_scaled \in Nat /\ f.active.stake \in Nat
          /\ WAD \in Nat /\ StakeScale \in Nat
      BY RewardFields, FarmFields, MathAssumption, StakeScalePositive
    <3> QED BY <3>1 DEF FarmSlack
  <2> QED BY <2>1, <2>2
<1> QED BY <1>1 DEF FarmCovers

(* refresh_global_rewards *)
LEMMA RefreshGlobalRewardsCover ==
  ASSUME NEW f \in FarmAccount, NEW e \in Environment, RefreshGlobalRewardsOk(f, e)
  PROVE  FarmCovers(f, RefreshGlobalRewards(f, e))
<1> DEFINE g == RefreshGlobalRewards(f, e)
<1>1. g.active = f.active /\ g.num_reward_tokens = f.num_reward_tokens /\ g \in FarmAccount
  BY RefreshGlobalRewardsIssues DEF OnlyIssues, KeepsPromises
<1>2. \A i \in RewardIndex : g.rewards[i] = IF i \in InitialisedRewards(f)
                                           THEN RefreshGlobalReward(f, f.rewards[i], e)
                                           ELSE f.rewards[i]
  BY DEF RefreshGlobalRewards, FarmAccount
<1> HIDE DEF g
<1>3. ASSUME NEW i \in RewardIndex PROVE FarmSlack(f, i) =< FarmSlack(g, i)
  <2>1. f.rewards[i] \in RewardInfo
    BY RewardFields
  <2>2. CASE i \in InitialisedRewards(f)
    <3>1. RefreshGlobalRewardOk(f, f.rewards[i], e)
      BY <2>2 DEF RefreshGlobalRewardsOk
    <3>2. g.rewards[i] = RefreshGlobalReward(f, f.rewards[i], e)
      BY <1>2, <2>2
    <3> QED BY <1>1, <2>1, <3>1, <3>2, RefreshGlobalRewardSlack DEF FarmSlack
  <2>3. CASE i \notin InitialisedRewards(f)
    <3>1. g.rewards[i] = f.rewards[i]
      BY <1>2, <2>3
    <3>2. FarmSlack(g, i) = FarmSlack(f, i)
      BY <1>1, <3>1 DEF FarmSlack
    <3>3. /\ f.rewards[i].rewards_issued_unclaimed \in Nat
          /\ f.rewards[i].reward_per_share_scaled \in Nat /\ f.active.stake \in Nat
          /\ WAD \in Nat /\ StakeScale \in Nat
      BY RewardFields, FarmFields, MathAssumption, StakeScalePositive
    <3>4. FarmSlack(f, i) \in Int
      BY <3>3 DEF FarmSlack
    <3> QED BY <3>2, <3>4
  <2> QED BY <2>2, <2>3
<1>4. FarmCovers(f, g)
  BY <1>1, <1>2, <1>3 DEF FarmCovers
<1> QED BY <1>4 DEF g

-----------------------------------------------------------------------------
(* What a refresh counts leaves the tally. *)
LEMMA UserRefreshRewardCovers ==
  ASSUME NEW s \in Accounts, NEW indices \in SUBSET RewardIndex, UserRefreshRewardOk(s, indices)
  PROVE  Covers(s, UserRefreshReward(s, indices), 0)
<1> DEFINE t == UserRefreshReward(s, indices)
           tally == [i \in RewardIndex |-> IF i \in indices
                       THEN s.user.rewards_tally[i] + RewardDue(s, i) * WAD
                       ELSE s.user.rewards_tally[i]]
           counted == [i \in RewardIndex |-> IF i \in indices
                         THEN s.user.rewards_issued_unclaimed[i] + RewardDue(s, i)
                         ELSE s.user.rewards_issued_unclaimed[i]]
<1>1. t \in Accounts /\ t.farm = s.farm
  BY UserRefreshRewardTypes
<1>2. t.user.rewards_tally = tally /\ t.user.rewards_issued_unclaimed = counted
  BY DEF UserRefreshReward, Accounts, UserAccount
<1>3. s.farm \in FarmAccount /\ s.user \in UserAccount /\ s.user.active_stake \in Nat
  BY DEF Accounts, UserAccount
<1>4. ASSUME NEW i \in RewardIndex PROVE UserSlack(t.user, i) = UserSlack(s.user, i)
  <2>1. CASE i \in indices
    <3> DEFINE d == RewardDue(s, i)
               T == s.user.rewards_tally[i]
               U == s.user.rewards_issued_unclaimed[i]
    <3>1. d \in Nat
      <4> DEFINE x == Entitlement(s, i) - T
      <4>1. Entitlement(s, i) \in Nat /\ T \in Nat /\ T =< Entitlement(s, i)
        BY <1>3, <2>1, RewardValueNat DEF Entitlement, UserRefreshRewardOk, UserAccount
      <4>2. x \in Nat
        BY <4>1
      <4> HIDE DEF x
      <4>3. x \div WAD \in Nat
        BY <4>2, MathAssumption
      <4> QED BY <4>3 DEF x, RewardDue
    <3>2. T \in Nat /\ U \in Nat /\ WAD \in Nat /\ StakeScale \in Nat
      BY <1>3, MathAssumption, StakeScalePositive DEF UserAccount
    <3>3. tally[i] = T + d * WAD /\ counted[i] = U + d
      BY <2>1
    <3> HIDE DEF d, T, U, tally, counted
    <3>4. /\ StakeScale * (T + d * WAD) = StakeScale * T + WAD * StakeScale * d
          /\ WAD * StakeScale * (U + d) = WAD * StakeScale * U + WAD * StakeScale * d
      BY <3>1, <3>2
    <3>5. /\ StakeScale * T \in Nat /\ WAD * StakeScale * U \in Nat
          /\ WAD * StakeScale * d \in Nat
      BY <3>1, <3>2
    <3>6. StakeScale * tally[i] - WAD * StakeScale * counted[i]
            = StakeScale * T - WAD * StakeScale * U
      BY <3>3, <3>4, <3>5
    <3> QED BY <1>2, <3>6 DEF UserSlack, T, U
  <2>2. CASE i \notin indices
    BY <1>2, <2>2 DEF UserSlack
  <2> QED BY <2>1, <2>2
<1> HIDE DEF t
<1>5. ASSUME NEW i \in RewardIndex PROVE Slack(s, i) =< Slack(t, i) + StakeScale * 0
  <2>1. Slack(t, i) = Slack(s, i) /\ Slack(s, i) \in Int
    BY <1>1, <1>4, AccountsSlackInt DEF Slack
  <2>2. StakeScale * 0 = 0
    BY StakeScalePositive
  <2> QED BY <2>1, <2>2
<1>6. Covers(s, t, 0)
  BY <1>1, <1>5 DEF Covers
<1> QED BY <1>6 DEF t

(* Issuing and counting one reward or all. *)
LEMMA CountingCovers ==
  ASSUME NEW s \in Accounts, NEW e \in Environment, NEW indices \in SUBSET RewardIndex,
         RefreshGlobalRewardsOk(s.farm, e), UserRefreshRewardOk(Issued(s, e), indices)
  PROVE  Covers(s, UserRefreshReward(Issued(s, e), indices), 0)
<1> DEFINE v == Issued(s, e)
<1>1. /\ RefreshGlobalRewards(s.farm, e) \in FarmAccount
      /\ FarmCovers(s.farm, RefreshGlobalRewards(s.farm, e))
  BY RefreshGlobalRewardsIssues, RefreshGlobalRewardsCover DEF Accounts
<1>2. v \in Accounts /\ v.farm = RefreshGlobalRewards(s.farm, e) /\ v.user = s.user
  BY <1>1 DEF Issued, Accounts
<1>3. UserRefreshRewardOk(v, indices)
  OBVIOUS
<1> HIDE DEF v
<1>4. Covers(s, v, 0)
  BY <1>1, <1>2, FarmCoversCovers
<1>5. UserRefreshReward(v, indices) \in Accounts /\ Covers(v, UserRefreshReward(v, indices), 0)
  BY <1>2, <1>3, UserRefreshRewardTypes, UserRefreshRewardCovers
<1>6. Covers(s, UserRefreshReward(v, indices), 0 + 0)
  BY <1>2, <1>4, <1>5, CoversTransitive
<1> QED BY <1>6 DEF v

(* The refresh most instructions begin with. *)
LEMMA RefreshRewardsCovers ==
  ASSUME NEW s \in Accounts, NEW e \in Environment, RefreshRewardsOk(s, e)
  PROVE  Covers(s, RefreshRewards(s, e), 0)
<1>1. RefreshedIndices(s) \in SUBSET RewardIndex
  BY DEF RefreshedIndices, InitialisedRewards
<1> QED BY <1>1, CountingCovers DEF RefreshRewards, RefreshRewardsOk

-----------------------------------------------------------------------------
(* Shares that come and go *)

(* New shares bring a tally that is rounded down, by less than one unit.     *)
LEMMA IncreaseTallyCovers ==
  ASSUME NEW s \in Accounts, NEW t \in Accounts, NEW shares \in Nat, RewardsUnset(s.farm),
         t.farm.rewards = s.farm.rewards, t.farm.num_reward_tokens = s.farm.num_reward_tokens,
         t.farm.active.stake = s.farm.active.stake + shares,
         t.user.rewards_tally = s.user.rewards_tally,
         t.user.rewards_issued_unclaimed = s.user.rewards_issued_unclaimed
  PROVE  Covers(s, IncreaseTally(t, shares),
                IF s.farm.num_reward_tokens > 0 /\ shares > 0 THEN 1 ELSE 0)
<1> DEFINE v == IncreaseTally(t, shares)
           n == IF s.farm.num_reward_tokens > 0 /\ shares > 0 THEN 1 ELSE 0
           tally == [i \in RewardIndex |-> IF i \in InitialisedRewards(t.farm)
                       THEN t.user.rewards_tally[i] + RewardValue(t.farm, shares, i)
                       ELSE t.user.rewards_tally[i]]
<1>1. v \in Accounts /\ v.farm = t.farm
  BY IncreaseTallyTypes
<1>2. /\ v.user.rewards_tally = tally
      /\ v.user.rewards_issued_unclaimed = s.user.rewards_issued_unclaimed
  BY DEF IncreaseTally, Accounts, UserAccount
<1>3. s.farm \in FarmAccount /\ s.user \in UserAccount
  BY DEF Accounts
<1>4. InitialisedRewards(t.farm) = InitialisedRewards(s.farm)
  BY DEF InitialisedRewards
<1>5. ASSUME NEW i \in RewardIndex PROVE Slack(s, i) =< Slack(v, i) + StakeScale * n
  <2> DEFINE r == s.farm.rewards[i].reward_per_share_scaled
             U == s.farm.rewards[i].rewards_issued_unclaimed
             T == s.user.rewards_tally[i]
             c == s.user.rewards_issued_unclaimed[i]
             stake == s.farm.active.stake
             more == IF i \in InitialisedRewards(s.farm) THEN RewardValue(t.farm, shares, i) ELSE 0
  <2>1. /\ r \in Nat /\ U \in Nat /\ stake \in Nat /\ T \in Nat /\ c \in Nat
        /\ WAD \in Nat /\ StakeScale \in Nat \ {0}
    BY <1>3, RewardFields, FarmFields, MathAssumption, StakeScalePositive DEF UserAccount
  <2>2. more \in Nat /\ shares * r =< StakeScale * more + StakeScale * n
    <3>1. CASE i \in InitialisedRewards(s.farm) /\ shares > 0
      <4>1. n = 1
        BY <1>3, <3>1 DEF InitialisedRewards, FarmAccount, RewardIndex
      <4>2. more = (shares * r) \div StakeScale
        BY <3>1 DEF RewardValue, MulDiv
      <4> DEFINE a == shares * r
      <4>3. a \in Nat
        BY <2>1
      <4> HIDE DEF a, r, more, n
      <4>4. a \div StakeScale \in Nat /\ a < StakeScale * (a \div StakeScale) + StakeScale
        BY <2>1, <4>3
      <4>5. StakeScale * 1 = StakeScale
        BY <2>1
      <4> QED BY <2>1, <4>1, <4>2, <4>3, <4>4, <4>5 DEF a
    <3>2. CASE i \in InitialisedRewards(s.farm) /\ shares = 0
      <4>1. more = (0 * r) \div StakeScale /\ n = 0
        BY <3>2 DEF RewardValue, MulDiv
      <4> HIDE DEF r, more, n
      <4>2. 0 * r = 0 /\ 0 \div StakeScale = 0 /\ StakeScale * 0 = 0
        BY <2>1
      <4>3. more = 0
        BY <4>1, <4>2
      <4> QED BY <3>2, <4>1, <4>2, <4>3
    <3>3. CASE i \notin InitialisedRewards(s.farm)
      <4>1. r = 0 /\ more = 0 /\ n \in Nat
        BY <3>3 DEF RewardsUnset
      <4> HIDE DEF r, more, n
      <4>2. shares * 0 = 0 /\ StakeScale * 0 = 0 /\ StakeScale * n \in Nat
        BY <2>1, <4>1
      <4> QED BY <4>1, <4>2
    <3> QED BY <3>1, <3>2, <3>3
  <2>3. tally[i] = T + more
    BY <1>4, <2>1
  <2>4. Slack(s, i) = WAD * StakeScale * U - stake * r + (StakeScale * T - WAD * StakeScale * c)
    BY DEF Slack, FarmSlack, UserSlack
  <2>5. Slack(v, i) = WAD * StakeScale * U - (stake + shares) * r
                        + (StakeScale * (T + more) - WAD * StakeScale * c)
    BY <1>1, <1>2, <2>3 DEF Slack, FarmSlack, UserSlack
  <2>6. n \in Nat
    OBVIOUS
  <2> HIDE DEF v, n, tally, r, U, T, c, stake, more
  <2>7. /\ (stake + shares) * r = stake * r + shares * r
        /\ StakeScale * (T + more) = StakeScale * T + StakeScale * more
    BY <2>1, <2>2
  <2>8. /\ WAD * StakeScale * U \in Nat /\ WAD * StakeScale * c \in Nat /\ stake * r \in Nat
        /\ shares * r \in Nat /\ StakeScale * T \in Nat /\ StakeScale * more \in Nat
        /\ StakeScale * n \in Nat
    BY <2>1, <2>2, <2>6
  <2> QED BY <2>2, <2>4, <2>5, <2>7, <2>8
<1> HIDE DEF v, n
<1>6. Covers(s, v, n)
  BY <1>1, <1>5 DEF Covers
<1> QED BY <1>6 DEF v, n

(* Shares that leave take a tally that is rounded down too, and what is cut  *)
(* off stays.                                                                *)
LEMMA ReduceTallyCovers ==
  ASSUME NEW s \in Accounts, NEW t \in Accounts, NEW shares \in Nat, RewardsUnset(s.farm),
         t.farm.rewards = s.farm.rewards, t.farm.num_reward_tokens = s.farm.num_reward_tokens,
         s.farm.active.stake = t.farm.active.stake + shares,
         t.user.rewards_tally = s.user.rewards_tally,
         t.user.rewards_issued_unclaimed = s.user.rewards_issued_unclaimed
  PROVE  Covers(s, ReduceTally(t, shares), 0)
<1> DEFINE v == ReduceTally(t, shares)
           tally == [i \in RewardIndex |-> IF i \in InitialisedRewards(t.farm)
                       THEN t.user.rewards_tally[i]
                              - Least(t.user.rewards_tally[i], RewardValue(t.farm, shares, i))
                       ELSE t.user.rewards_tally[i]]
<1>1. v \in Accounts /\ v.farm = t.farm
  BY ReduceTallyTypes
<1>2. /\ v.user.rewards_tally = tally
      /\ v.user.rewards_issued_unclaimed = s.user.rewards_issued_unclaimed
  BY DEF ReduceTally, Accounts, UserAccount
<1>3. /\ s.farm \in FarmAccount /\ s.user \in UserAccount
      /\ t.farm \in FarmAccount /\ t.farm.active.stake \in Nat
  BY FarmFields DEF Accounts
<1>4. InitialisedRewards(t.farm) = InitialisedRewards(s.farm)
  BY DEF InitialisedRewards
<1>5. ASSUME NEW i \in RewardIndex PROVE Slack(s, i) =< Slack(v, i) + StakeScale * 0
  <2> DEFINE r == s.farm.rewards[i].reward_per_share_scaled
             U == s.farm.rewards[i].rewards_issued_unclaimed
             T == s.user.rewards_tally[i]
             c == s.user.rewards_issued_unclaimed[i]
             left == t.farm.active.stake
             less == IF i \in InitialisedRewards(s.farm)
                     THEN Least(T, RewardValue(t.farm, shares, i)) ELSE 0
  <2>1. /\ r \in Nat /\ U \in Nat /\ left \in Nat /\ T \in Nat /\ c \in Nat
        /\ WAD \in Nat /\ StakeScale \in Nat \ {0}
    BY <1>3, RewardFields, FarmFields, MathAssumption, StakeScalePositive DEF UserAccount
  <2>2. less \in Nat /\ less =< T /\ StakeScale * less =< shares * r
    <3>1. CASE i \in InitialisedRewards(s.farm)
      <4> DEFINE a == shares * r
                 value == RewardValue(t.farm, shares, i)
      <4>1. less = Least(T, value) /\ value = a \div StakeScale
        BY <3>1 DEF RewardValue, MulDiv
      <4>2. a \in Nat
        BY <2>1
      <4> HIDE DEF a, r, T, less, value
      <4>3. a \div StakeScale \in Nat /\ StakeScale * (a \div StakeScale) =< a
        BY <2>1, <4>2
      <4>4. value \in Nat /\ StakeScale * value =< a
        BY <4>1, <4>3
      <4>5. less \in Nat /\ less =< T /\ less =< value
        BY <2>1, <4>1, <4>4, LeastNat
      <4>6. StakeScale * less =< StakeScale * value
        BY <2>1, <4>4, <4>5
      <4>7. StakeScale * less \in Nat /\ StakeScale * value \in Nat
        BY <2>1, <4>4, <4>5
      <4>8. StakeScale * less =< a
        BY <4>2, <4>4, <4>6, <4>7
      <4> QED BY <4>5, <4>8 DEF a
    <3>2. CASE i \notin InitialisedRewards(s.farm)
      <4>1. less = 0
        BY <3>2
      <4> HIDE DEF r, T, less
      <4>2. StakeScale * 0 = 0 /\ shares * r \in Nat
        BY <2>1
      <4> QED BY <2>1, <4>1, <4>2
    <3> QED BY <3>1, <3>2
  <2>3. tally[i] = T - less
    <3>1. i \in InitialisedRewards(s.farm) =>
            tally[i] = T - Least(T, RewardValue(t.farm, shares, i))
      BY <1>4
    <3>2. i \notin InitialisedRewards(s.farm) => tally[i] = T /\ less = 0
      BY <1>4
    <3> QED BY <2>1, <3>1, <3>2
  <2>4. Slack(s, i) = WAD * StakeScale * U - (left + shares) * r
                        + (StakeScale * T - WAD * StakeScale * c)
    BY DEF Slack, FarmSlack, UserSlack
  <2>5. Slack(v, i) = WAD * StakeScale * U - left * r
                        + (StakeScale * (T - less) - WAD * StakeScale * c)
    BY <1>1, <1>2, <2>3 DEF Slack, FarmSlack, UserSlack
  <2> HIDE DEF v, tally, r, U, T, c, left, less
  <2>6. /\ (left + shares) * r = left * r + shares * r
        /\ StakeScale * (T - less) = StakeScale * T - StakeScale * less
        /\ StakeScale * 0 = 0
    BY <2>1, <2>2
  <2>7. /\ WAD * StakeScale * U \in Nat /\ WAD * StakeScale * c \in Nat /\ left * r \in Nat
        /\ shares * r \in Nat /\ StakeScale * T \in Nat /\ StakeScale * less \in Nat
    BY <2>1, <2>2
  <2> QED BY <2>2, <2>4, <2>5, <2>6, <2>7
<1> HIDE DEF v
<1>6. Covers(s, v, 0)
  BY <1>1, <1>5 DEF Covers
<1> QED BY <1>6 DEF v

-----------------------------------------------------------------------------
(* The instructions of a user *)

(* A stake that grows rounds k times at most, one that does not never.       *)
Rounded(s, t, k) ==
  /\ s.user.active_stake =< t.user.active_stake
  /\ Covers(s, t, IF /\ s.farm.num_reward_tokens > 0
                     /\ t.user.active_stake > s.user.active_stake THEN k ELSE 0)

(* Rewards that are not initialised stay so. *)
LEMMA StillUnset ==
  ASSUME NEW s, NEW t, NEW n, Covers(s, t, n), RewardsUnset(s.farm)
  PROVE  RewardsUnset(t.farm)
BY DEF Covers, RewardsUnset, InitialisedRewards

(* A stake left alone rounds nothing. *)
LEMMA StillRounded ==
  ASSUME NEW s \in Accounts, NEW t, NEW k, Covers(s, t, 0),
         t.user.active_stake = s.user.active_stake
  PROVE  Rounded(s, t, k)
<1>1. s.user.active_stake \in Nat
  BY DEF Accounts, UserAccount
<1> QED BY <1>1 DEF Rounded

(* Slack covers fewer roundings if it covers more. *)
LEMMA CoversMore ==
  ASSUME NEW s \in Accounts, NEW t \in Accounts, NEW m \in Nat, NEW n \in Nat, m =< n,
         Covers(s, t, m)
  PROVE  Covers(s, t, n)
<1>1. ASSUME NEW i \in RewardIndex PROVE Slack(s, i) =< Slack(t, i) + StakeScale * n
  <2>1. Slack(s, i) \in Int /\ Slack(t, i) \in Int
    BY AccountsSlackInt
  <2>2. /\ StakeScale * m =< StakeScale * n
        /\ StakeScale * m \in Nat /\ StakeScale * n \in Nat
    BY StakeScalePositive
  <2>3. Slack(s, i) =< Slack(t, i) + StakeScale * m
    BY DEF Covers
  <2> QED BY <2>1, <2>2, <2>3
<1> QED BY <1>1 DEF Covers

(* The roundings of two steps add up. *)
LEMMA RoundedTransitive ==
  ASSUME NEW s \in Accounts, NEW t \in Accounts, NEW v \in Accounts, NEW j \in Nat, NEW k \in Nat,
         Rounded(s, t, j), Rounded(t, v, k)
  PROVE  Rounded(s, v, j + k)
<1> DEFINE a == s.user.active_stake
           b == t.user.active_stake
           c == v.user.active_stake
           staked == s.farm.num_reward_tokens > 0
           m == IF staked /\ b > a THEN j ELSE 0
           n == IF staked /\ c > b THEN k ELSE 0
           sum == IF staked /\ c > a THEN j + k ELSE 0
<1>1. a \in Nat /\ b \in Nat /\ c \in Nat
  BY DEF Accounts, UserAccount
<1>2. a =< b /\ b =< c
  BY DEF Rounded
<1>3. Covers(s, t, m) /\ Covers(t, v, n)
  BY DEF Rounded, Covers
<1>4. m \in Nat /\ n \in Nat /\ sum \in Nat /\ m + n =< sum
  <2> HIDE DEF a, b, c, staked
  <2> QED BY <1>1, <1>2
<1> HIDE DEF m, n, sum
<1>5. Covers(s, v, m + n)
  BY <1>3, <1>4, CoversTransitive
<1>6. Covers(s, v, sum)
  BY <1>4, <1>5, CoversMore
<1>7. a =< c
  BY <1>1, <1>2
<1> QED BY <1>6, <1>7 DEF Rounded, sum

(* The activation of a matured deposit rounds once. *)
LEMMA UserRefreshStakeRounded ==
  ASSUME NEW s \in Accounts, NEW e \in Environment, UserRefreshStakeOk(s, e), RewardsUnset(s.farm)
  PROVE  Rounded(s, UserRefreshStake(s, e), 1)
<1> DEFINE f == InitializeRewardTsIfNeeded(s.farm, e.ts)
           t == [s EXCEPT !.farm = f]
<1>1. f \in FarmAccount /\ OnlyIssues(s.farm, f)
  BY InitializeRewardTsIssues DEF Accounts, Environment
<1>2. FarmCovers(s.farm, f)
  <2>1. s.farm \in FarmAccount /\ s.farm.rewards \in [RewardIndex -> RewardInfo]
    BY FarmFields DEF Accounts
  <2>2. \A i \in RewardIndex :
          /\ f.rewards[i].reward_per_share_scaled = s.farm.rewards[i].reward_per_share_scaled
          /\ f.rewards[i].rewards_issued_unclaimed = s.farm.rewards[i].rewards_issued_unclaimed
    BY <2>1 DEF InitializeRewardTsIfNeeded, FarmAccount, RewardInfo
  <2> HIDE DEF f
  <2> QED BY <1>1, <2>1, <2>2, SameClaimsCover DEF OnlyIssues, KeepsPromises
<1> HIDE DEF f
<1>3. t \in Accounts /\ t.farm = f /\ t.user = s.user
  BY <1>1 DEF Accounts
<1>4. Rounded(s, t, 0)
  BY <1>2, <1>3, FarmCoversCovers, StillRounded
<1>5. RewardsUnset(t.farm)
  BY <1>2, <1>3 DEF FarmCovers, RewardsUnset, InitialisedRewards
<1>6. CASE DepositMatured(s.user, e.ts)
  <2> DEFINE v == ActivatePendingStake(t)
             shares == ActivatedShares(t)
             w == IncreaseTally(v, shares)
  <2>1. ActivatePendingStakeOk(t)
    BY <1>1, <1>3, <1>6 DEF UserRefreshStakeOk, ActivatePendingStakeOk, ActivatedAmount, OnlyIssues
  <2>2. v \in Accounts
    BY <1>3, <2>1, ActivatePendingStakeBooks
  <2>3. shares \in Nat
    BY <1>3, SharesForNat, AmountForNat, FarmFields
    DEF ActivatedShares, ActivatedAmount, Accounts, UserAccount
  <2>4. UserRefreshStake(s, e) = w
    BY <1>6 DEF UserRefreshStake, f
  <2> HIDE DEF t
  <2>5. t.farm \in FarmAccount /\ t.user \in UserAccount
    BY <1>3 DEF Accounts
  <2>6. /\ v.farm.rewards = t.farm.rewards
        /\ v.farm.num_reward_tokens = t.farm.num_reward_tokens
        /\ v.farm.active.stake = t.farm.active.stake + shares
    BY <2>5 DEF ActivatePendingStake, AddActiveStake, RemovePendingDepositStake, FarmAccount,
                AddAmount, ActivatedShares
  <2>7. /\ v.user.rewards_tally = t.user.rewards_tally
        /\ v.user.rewards_issued_unclaimed = t.user.rewards_issued_unclaimed
        /\ v.user.active_stake = t.user.active_stake + shares
    BY <2>5 DEF ActivatePendingStake, AddActiveStake, RemovePendingDepositStake, ActivatedShares,
                FarmAccount, UserAccount
  <2> HIDE DEF v, shares
  <2>8. Covers(t, w, IF t.farm.num_reward_tokens > 0 /\ shares > 0 THEN 1 ELSE 0)
    BY <1>3, <1>5, <2>2, <2>3, <2>6, <2>7, IncreaseTallyCovers
  <2>9. w \in Accounts /\ w.user.active_stake = t.user.active_stake + shares
    BY <2>2, <2>3, <2>7, IncreaseTallyTypes, TallyLeavesShares DEF LeavesShares, SameShares
  <2> HIDE DEF w
  <2>10. t.user.active_stake \in Nat
    BY <2>5 DEF UserAccount
  <2>11. Rounded(t, w, 1)
    <3>1. t.user.active_stake =< w.user.active_stake
      BY <2>3, <2>9, <2>10
    <3>2. w.user.active_stake > t.user.active_stake <=> shares > 0
      BY <2>3, <2>9, <2>10
    <3> QED BY <2>8, <3>1, <3>2, Zenon DEF Rounded
  <2>12. Rounded(s, w, 0 + 1)
    BY <1>3, <1>4, <2>9, <2>11, RoundedTransitive
  <2> QED BY <2>4, <2>12
<1>7. CASE ~DepositMatured(s.user, e.ts)
  <2>1. UserRefreshStake(s, e) = t
    BY <1>7 DEF UserRefreshStake, f
  <2>2. Rounded(s, t, 1)
    BY <1>2, <1>3, FarmCoversCovers, StillRounded
  <2> QED BY <2>1, <2>2
<1> QED BY <1>6, <1>7

(* refresh_user_state *)
LEMMA UserRefreshStateRounded ==
  ASSUME NEW s \in Accounts, NEW e \in Environment, UserRefreshStateOk(s, e), RewardsUnset(s.farm)
  PROVE  Rounded(s, UserRefreshState(s, e), 1)
<1> DEFINE t == RefreshRewards(s, e)
<1>1. t \in Accounts /\ Covers(s, t, 0) /\ t.user.active_stake = s.user.active_stake
  BY RefreshRewardsIssues, RefreshRewardsCovers, RefreshRewardsTally DEF UserRefreshStateOk
<1>2. CASE Delegated
  <2>1. UserRefreshState(s, e) = t
    BY <1>2 DEF UserRefreshState
  <2> QED BY <1>1, <2>1, StillRounded
<1>3. CASE ~Delegated
  <2>1. UserRefreshStakeOk(t, e) /\ UserRefreshState(s, e) = UserRefreshStake(t, e)
    BY <1>3 DEF UserRefreshState, UserRefreshStateOk
  <2> HIDE DEF t
  <2>2. RewardsUnset(t.farm) /\ Rounded(s, t, 0)
    BY <1>1, StillUnset, StillRounded
  <2>3. UserRefreshStake(t, e) \in Accounts /\ Rounded(t, UserRefreshStake(t, e), 1)
    BY <1>1, <2>1, <2>2, UserRefreshStakeBooks, UserRefreshStakeRounded
  <2>4. Rounded(s, UserRefreshStake(t, e), 0 + 1)
    BY <1>1, <2>2, <2>3, RoundedTransitive
  <2> QED BY <2>1, <2>4
<1> QED BY <1>2, <1>3

(* A deposit that waits rounds nothing, one that does not rounds once. *)
LEMMA DepositRounded ==
  ASSUME NEW s \in Accounts, NEW amount \in Nat, NEW ts \in Nat, RewardsUnset(s.farm)
  PROVE  Rounded(s, Deposit(s, amount, ts), 1)
<1> DEFINE warmup == s.farm.config.deposit_warmup_period
           waits == [AddPendingDepositStake(s, amount) EXCEPT
                       !.user.pending_deposit_stake_ts = ts + warmup]
           shares == SharesFor(amount, s.farm.active)
           added == AddActiveStake(s, amount)
           starts == IncreaseTally(added, shares)
           t == IF warmup > 0 THEN waits ELSE starts
           v == Deposit(s, amount, ts)
<1>1. s.farm \in FarmAccount /\ s.user \in UserAccount
  BY DEF Accounts
<1>2. v \in Accounts /\ v = [t EXCEPT !.user.last_stake_ts = ts]
  BY DepositBooks DEF Deposit
<1>3. CASE warmup > 0
  <2>1. v = [waits EXCEPT !.user.last_stake_ts = ts]
    BY <1>2, <1>3
  <2>2. /\ waits.farm.rewards = s.farm.rewards /\ waits.farm.active = s.farm.active
        /\ waits.farm.num_reward_tokens = s.farm.num_reward_tokens
        /\ waits.user.rewards_tally = s.user.rewards_tally
        /\ waits.user.rewards_issued_unclaimed = s.user.rewards_issued_unclaimed
        /\ waits.user.active_stake = s.user.active_stake
    BY <1>1 DEF AddPendingDepositStake, FarmAccount, UserAccount
  <2>3. waits \in Accounts
    <3>1. ts + warmup \in Nat
      BY <1>1, FarmFields DEF FarmConfig
    <3> HIDE DEF warmup
    <3> QED BY <3>1, AddPendingDepositStakeBooks DEF Accounts, UserAccount
  <2> HIDE DEF v, waits
  <2>4. /\ v.farm = waits.farm
        /\ v.user.rewards_tally = waits.user.rewards_tally
        /\ v.user.rewards_issued_unclaimed = waits.user.rewards_issued_unclaimed
        /\ v.user.active_stake = waits.user.active_stake
    BY <2>1, <2>3 DEF Accounts, UserAccount
  <2>5. FarmCovers(s.farm, v.farm)
    BY <1>1, <1>2, <2>2, <2>4, SameClaimsCover DEF Accounts
  <2>6. Rounded(s, v, 1)
    BY <1>2, <2>2, <2>4, <2>5, FarmCoversCovers, StillRounded
  <2> QED BY <2>6 DEF v
<1>4. CASE ~(warmup > 0)
  <2>1. v = [starts EXCEPT !.user.last_stake_ts = ts]
    BY <1>2, <1>4
  <2>2. shares \in Nat
    BY <1>1, SharesForNat, FarmFields
  <2>3. added \in Accounts
    BY AddActiveStakeBooks
  <2>4. /\ added.farm.rewards = s.farm.rewards
        /\ added.farm.num_reward_tokens = s.farm.num_reward_tokens
        /\ added.farm.active.stake = s.farm.active.stake + shares
        /\ added.user.rewards_tally = s.user.rewards_tally
        /\ added.user.rewards_issued_unclaimed = s.user.rewards_issued_unclaimed
        /\ added.user.active_stake = s.user.active_stake + shares
    BY <1>1 DEF AddActiveStake, FarmAccount, UserAccount, AddAmount
  <2> HIDE DEF added, shares
  <2>5. starts \in Accounts
        /\ Covers(s, starts, IF s.farm.num_reward_tokens > 0 /\ shares > 0 THEN 1 ELSE 0)
    BY <2>2, <2>3, <2>4, IncreaseTallyTypes, IncreaseTallyCovers
  <2>6. starts.user.active_stake = s.user.active_stake + shares
    BY <2>3, <2>4, TallyLeavesShares DEF LeavesShares, SameShares
  <2> HIDE DEF starts, v
  <2>7. Rounded(s, starts, 1)
    <3>1. s.user.active_stake \in Nat
      BY <1>1 DEF UserAccount
    <3>2. s.user.active_stake =< starts.user.active_stake
      BY <2>2, <2>6, <3>1
    <3>3. starts.user.active_stake > s.user.active_stake <=> shares > 0
      BY <2>2, <2>6, <3>1
    <3> QED BY <2>5, <3>2, <3>3, Zenon DEF Rounded
  <2>8. /\ v.farm = starts.farm
        /\ v.user.rewards_tally = starts.user.rewards_tally
        /\ v.user.rewards_issued_unclaimed = starts.user.rewards_issued_unclaimed
        /\ v.user.active_stake = starts.user.active_stake
    BY <2>1, <2>5 DEF Accounts, UserAccount
  <2>9. FarmCovers(starts.farm, v.farm)
    BY <1>2, <2>5, <2>8, SameClaimsCover DEF Accounts
  <2>10. Rounded(starts, v, 0)
    BY <1>2, <2>5, <2>8, <2>9, FarmCoversCovers, StillRounded
  <2>11. Rounded(s, v, 1 + 0)
    BY <1>2, <2>5, <2>7, <2>10, RoundedTransitive
  <2> QED BY <2>11 DEF v
<1> QED BY <1>3, <1>4

(* stake: the activation of a matured deposit and the new one. *)
LEMMA StakeRounded ==
  ASSUME NEW s \in Accounts, NEW amount \in Nat, NEW e \in Environment, StakeOk(s, amount, e),
         RewardsUnset(s.farm)
  PROVE  Rounded(s, Stake(s, amount, e), 2)
<1> DEFINE t == RefreshRewards(s, e)
           r == UserRefreshStake(t, e)
           v == Deposit(r, amount, e.ts)
<1>1. t \in Accounts /\ Covers(s, t, 0) /\ t.user.active_stake = s.user.active_stake
  BY RefreshRewardsIssues, RefreshRewardsCovers, RefreshRewardsTally DEF StakeOk
<1>2. UserRefreshStakeOk(t, e) /\ Stake(s, amount, e) = v /\ e.ts \in Nat
  BY DEF Stake, StakeOk, Environment
<1> HIDE DEF t
<1>3. RewardsUnset(t.farm) /\ Rounded(s, t, 0)
  BY <1>1, StillUnset, StillRounded
<1>4. r \in Accounts /\ Rounded(t, r, 1)
  BY <1>1, <1>2, <1>3, UserRefreshStakeBooks, UserRefreshStakeRounded
<1> HIDE DEF r
<1>5. RewardsUnset(r.farm)
  BY <1>3, <1>4, StillUnset DEF Rounded
<1>6. v \in Accounts /\ Rounded(r, v, 1)
  BY <1>2, <1>4, <1>5, DepositBooks, DepositRounded
<1> HIDE DEF v
<1>7. Rounded(s, r, 0 + 1)
  BY <1>1, <1>3, <1>4, RoundedTransitive
<1>8. Rounded(s, v, (0 + 1) + 1)
  BY <1>4, <1>6, <1>7, RoundedTransitive
<1>9. (0 + 1) + 1 = 2
  OBVIOUS
<1> QED BY <1>2, <1>8, <1>9

(* unstake, once the rewards are refreshed. *)
LEMMA MoveOutCovers ==
  ASSUME NEW s \in Accounts, NEW shares \in Nat, NEW ts \in Nat, MoveOutOk(s, shares, ts),
         RewardsUnset(s.farm)
  PROVE  Covers(s, MoveOut(s, shares, ts), 0)
<1> DEFINE penalty == UnstakePenalty(s, shares, ts)
           deadline == ts + s.farm.config.withdrawal_cooldown_period
           t == [s EXCEPT !.user.pending_withdrawal_unstake_ts = deadline]
           moved == MoveToPendingWithdrawal(t, shares, ts)
           booked == BookedPenalty(moved, penalty)
<1>1. deadline \in Nat
  BY FarmFields DEF Accounts, FarmConfig
<1> HIDE DEF deadline
<1>2. t \in Accounts /\ t.farm = s.farm
  BY <1>1 DEF Accounts, UserAccount
<1>3. /\ t.user.last_stake_ts = s.user.last_stake_ts /\ t.user.active_stake = s.user.active_stake
      /\ t.user.rewards_tally = s.user.rewards_tally
      /\ t.user.rewards_issued_unclaimed = s.user.rewards_issued_unclaimed
  BY DEF Accounts, UserAccount
<1>4. UnstakePenalty(t, shares, ts) = penalty
  BY <1>2, <1>3 DEF UnstakePenalty, LockBegin
<1>5. MoveToPendingWithdrawalOk(t, shares, ts)
  BY <1>2, <1>3, <1>4 DEF MoveOutOk, MoveToPendingWithdrawalOk, UnstakedAmount, LockBegin
<1> HIDE DEF t
<1>6. moved \in Accounts
  BY <1>2, <1>4, <1>5, MoveToPendingWithdrawalBooks
<1>7. t.farm \in FarmAccount /\ t.user \in UserAccount
  BY <1>2 DEF Accounts
<1>8. /\ moved.farm.rewards = s.farm.rewards
      /\ moved.farm.num_reward_tokens = s.farm.num_reward_tokens
      /\ moved.farm.active.stake = s.farm.active.stake - shares
  BY <1>2, <1>7 DEF MoveToPendingWithdrawal, AddPendingWithdrawalStake, RemoveActiveStake,
                    FarmAccount, RemoveShares
<1>9. /\ moved.user.rewards_tally = s.user.rewards_tally
      /\ moved.user.rewards_issued_unclaimed = s.user.rewards_issued_unclaimed
  BY <1>3, <1>7 DEF MoveToPendingWithdrawal, AddPendingWithdrawalStake, RemoveActiveStake,
                    UserAccount
<1>10. penalty \in Nat
  BY <1>2, <1>4, <1>5, UnstakePenaltyBound
<1> HIDE DEF moved, penalty
<1>11. /\ booked \in Accounts /\ booked.user = moved.user
       /\ booked.farm.rewards = moved.farm.rewards /\ booked.farm.active = moved.farm.active
       /\ booked.farm.num_reward_tokens = moved.farm.num_reward_tokens
  BY <1>6, <1>10, PenaltyBooked
<1>12. MoveOut(s, shares, ts) = ReduceTally(booked, shares)
  BY DEF MoveOut, booked, BookedPenalty, moved, t, penalty, deadline
<1> HIDE DEF booked
<1>13. s.farm.active.stake = booked.farm.active.stake + shares
  <2>1. s.farm.active.stake \in Nat
    BY <1>2, <1>7, FarmFields
  <2> QED BY <1>8, <1>11, <2>1
<1>14. Covers(s, ReduceTally(booked, shares), 0)
  BY <1>8, <1>9, <1>11, <1>13, ReduceTallyCovers
<1> QED BY <1>12, <1>14

(* unstake never takes more off a tally than the shares have earned. *)
LEMMA UnstakeCovers ==
  ASSUME NEW s \in Accounts, NEW requested \in Nat, NEW e \in Environment,
         UnstakeOk(s, requested, e), RewardsUnset(s.farm)
  PROVE  Covers(s, Unstake(s, requested, e), 0)
<1> DEFINE t == RefreshRewards(s, e)
           shares == SharesToUnstake(t, requested)
<1>1. t \in Accounts /\ Covers(s, t, 0)
  BY RefreshRewardsIssues, RefreshRewardsCovers DEF UnstakeOk
<1>2. Unstake(s, requested, e) = MoveOut(t, shares, e.ts) /\ MoveOutOk(t, shares, e.ts)
  BY DEF Unstake, UnstakeOk
<1> HIDE DEF t
<1>3. shares \in Nat
  BY <1>1 DEF SharesToUnstake, Least, Accounts, UserAccount
<1> HIDE DEF shares
<1>4. e.ts \in Nat
  BY DEF Environment
<1>5. RewardsUnset(t.farm)
  BY <1>1, StillUnset
<1>6. MoveOut(t, shares, e.ts) \in Accounts /\ Covers(t, MoveOut(t, shares, e.ts), 0)
  BY <1>1, <1>2, <1>3, <1>4, <1>5, MoveOutBooks, MoveOutCovers
<1>7. Covers(s, MoveOut(t, shares, e.ts), 0 + 0)
  BY <1>1, <1>6, CoversTransitive
<1> QED BY <1>2, <1>7

(* A withdrawal touches no reward. *)
LEMMA WithdrawUnstakedDepositsCovers ==
  ASSUME NEW s \in Accounts, NEW ts \in Nat, WithdrawUnstakedDepositsOk(s, ts)
  PROVE  Covers(s, WithdrawUnstakedDeposits(s), 0)
<1> DEFINE t == WithdrawUnstakedDeposits(s)
<1>1. t \in Accounts
  BY WithdrawUnstakedDepositsBooks
<1>2. s.farm \in FarmAccount /\ s.user \in UserAccount
  BY DEF Accounts
<1>3. /\ t.farm.rewards = s.farm.rewards
      /\ t.farm.num_reward_tokens = s.farm.num_reward_tokens
      /\ t.farm.active = s.farm.active
      /\ t.user.rewards_tally = s.user.rewards_tally
      /\ t.user.rewards_issued_unclaimed = s.user.rewards_issued_unclaimed
  BY <1>2 DEF WithdrawUnstakedDeposits, RemovePendingWithdrawalStake, FarmAccount, UserAccount
<1> HIDE DEF t
<1>4. FarmCovers(s.farm, t.farm)
  BY <1>1, <1>2, <1>3, SameClaimsCover DEF Accounts
<1>5. Covers(s, t, 0)
  BY <1>1, <1>3, <1>4, FarmCoversCovers
<1> QED BY <1>5 DEF t

-----------------------------------------------------------------------------
(* Rewards that move *)

(* The farm and the user book the same amount of one reward, up or down. *)
BookedAlike(s, t, i, amount) ==
  \A j \in RewardIndex :
    /\ t.farm.rewards[j].reward_per_share_scaled = s.farm.rewards[j].reward_per_share_scaled
    /\ t.farm.rewards[j].rewards_issued_unclaimed
         = s.farm.rewards[j].rewards_issued_unclaimed + (IF j = i THEN amount ELSE 0)
    /\ t.user.rewards_issued_unclaimed[j]
         = s.user.rewards_issued_unclaimed[j] + (IF j = i THEN amount ELSE 0)

(* Then the slack they have together is left alone. *)
LEMMA BookedAlikeCovers ==
  ASSUME NEW s \in Accounts, NEW t \in Accounts, NEW i \in RewardIndex, NEW amount \in Int,
         t.farm.num_reward_tokens = s.farm.num_reward_tokens,
         t.farm.active.stake = s.farm.active.stake,
         t.user.rewards_tally = s.user.rewards_tally,
         BookedAlike(s, t, i, amount)
  PROVE  Covers(s, t, 0)
<1>1. s.farm \in FarmAccount /\ s.user \in UserAccount
  BY DEF Accounts
<1>2. ASSUME NEW j \in RewardIndex PROVE Slack(s, j) =< Slack(t, j) + StakeScale * 0
  <2> DEFINE booked == IF j = i THEN amount ELSE 0
             c == WAD * StakeScale
             a == s.farm.rewards[j].rewards_issued_unclaimed
             b == s.user.rewards_issued_unclaimed[j]
  <2>1. /\ booked \in Int /\ c \in Int /\ a \in Int /\ b \in Int
        /\ StakeScale * 0 = 0
    <3>1. WAD \in Nat /\ StakeScale \in Nat
      BY MathAssumption, StakeScalePositive
    <3>2. a \in Nat /\ b \in Nat
      BY <1>1, RewardFields DEF UserAccount
    <3> QED BY <3>1, <3>2
  <2>2. /\ t.farm.rewards[j].rewards_issued_unclaimed = a + booked
        /\ t.user.rewards_issued_unclaimed[j] = b + booked
        /\ t.farm.rewards[j].reward_per_share_scaled = s.farm.rewards[j].reward_per_share_scaled
    BY DEF BookedAlike
  <2> DEFINE p == s.farm.active.stake * s.farm.rewards[j].reward_per_share_scaled
             q == StakeScale * s.user.rewards_tally[j]
  <2>3. p \in Int /\ q \in Int
    <3>1. /\ s.farm.active.stake \in Nat /\ s.farm.rewards[j].reward_per_share_scaled \in Nat
          /\ s.user.rewards_tally[j] \in Nat /\ StakeScale \in Nat
      BY <1>1, FarmFields, RewardFields, StakeScalePositive DEF UserAccount
    <3> QED BY <3>1
  <2>4. /\ Slack(s, j) = (c * a - p) + (q - c * b)
        /\ Slack(t, j) = (c * (a + booked) - p) + (q - c * (b + booked))
    BY <2>2 DEF Slack, FarmSlack, UserSlack
  <2> HIDE DEF booked, c, a, b, p, q
  <2>5. c * (a + booked) = c * a + c * booked /\ c * (b + booked) = c * b + c * booked
    BY <2>1
  <2>6. c * a \in Int /\ c * b \in Int /\ c * booked \in Int
    BY <2>1
  <2> QED BY <2>1, <2>3, <2>4, <2>5, <2>6
<1>3. \A j \in RewardIndex :
        t.farm.rewards[j].reward_per_share_scaled = s.farm.rewards[j].reward_per_share_scaled
  BY DEF BookedAlike
<1> QED BY <1>2, <1>3 DEF Covers

(* reward_user_once counts for the user what it counts as issued. *)
LEMMA RewardUserOnceCovers ==
  ASSUME NEW s \in Accounts, NEW i \in RewardIndex, NEW amount \in Nat
  PROVE  Covers(s, RewardUserOnce(s, i, amount), 0)
<1> DEFINE t == RewardUserOnce(s, i, amount)
           q == CreditedReward(s, i, amount)
<1>1. t \in Accounts
  BY RewardUserOncePromises
<1>2. s.farm \in FarmAccount /\ s.user \in UserAccount /\ s.farm.rewards[i] \in RewardInfo
  BY RewardFields DEF Accounts
<1>3. /\ t.farm = [s.farm EXCEPT !.rewards[i] = q]
      /\ t.user = [s.user EXCEPT !.rewards_issued_unclaimed[i] = @ + amount]
      /\ q.reward_per_share_scaled = s.farm.rewards[i].reward_per_share_scaled
      /\ q.rewards_issued_unclaimed = s.farm.rewards[i].rewards_issued_unclaimed + amount
  BY RewardUserOnceCredits
<1> HIDE DEF t, q
<1>4. /\ t.farm.rewards = [s.farm.rewards EXCEPT ![i] = q]
      /\ t.farm.num_reward_tokens = s.farm.num_reward_tokens
      /\ t.farm.active = s.farm.active
      /\ t.user.rewards_tally = s.user.rewards_tally
      /\ t.user.rewards_issued_unclaimed
           = [s.user.rewards_issued_unclaimed EXCEPT ![i] = @ + amount]
  BY <1>2, <1>3 DEF UserAccount, FarmAccount
<1>5. BookedAlike(s, t, i, amount)
  <2> SUFFICES ASSUME NEW j \in RewardIndex
               PROVE  /\ t.farm.rewards[j].reward_per_share_scaled
                           = s.farm.rewards[j].reward_per_share_scaled
                      /\ t.farm.rewards[j].rewards_issued_unclaimed
                           = s.farm.rewards[j].rewards_issued_unclaimed
                               + (IF j = i THEN amount ELSE 0)
                      /\ t.user.rewards_issued_unclaimed[j]
                           = s.user.rewards_issued_unclaimed[j] + (IF j = i THEN amount ELSE 0)
    BY DEF BookedAlike
  <2>1. /\ s.farm.rewards \in [RewardIndex -> RewardInfo]
        /\ s.user.rewards_issued_unclaimed \in [RewardIndex -> Nat]
        /\ s.farm.rewards[j].rewards_issued_unclaimed \in Nat
    BY <1>2, FarmFields, RewardFields DEF UserAccount
  <2>2. CASE j = i
    BY <1>3, <1>4, <2>1, <2>2
  <2>3. CASE j # i
    <3>1. t.farm.rewards[j] = s.farm.rewards[j]
      BY <1>4, <2>1, <2>3
    <3>2. t.user.rewards_issued_unclaimed[j] = s.user.rewards_issued_unclaimed[j]
      BY <1>4, <2>1, <2>3
    <3>3. s.user.rewards_issued_unclaimed[j] \in Nat
      BY <2>1
    <3> QED BY <2>1, <2>3, <3>1, <3>2, <3>3
  <2> QED BY <2>2, <2>3
<1>6. Covers(s, t, 0)
  <2>1. amount \in Int
    OBVIOUS
  <2> QED BY <1>1, <1>4, <1>5, <2>1, BookedAlikeCovers
<1> QED BY <1>6 DEF t

(* harvest takes off both counts what it pays. *)
LEMMA HarvestCovers ==
  ASSUME NEW s \in Accounts, NEW i \in RewardIndex, NEW e \in Environment, HarvestOk(s, i, e)
  PROVE  Covers(s, Harvest(s, i, e), 0)
<1> DEFINE r == RefreshOne(s, i, e)
           reward == HarvestedReward(s, i, e)
           t == Harvest(s, i, e)
<1>1. r \in Accounts /\ Covers(s, r, 0)
  <2>1. /\ {i} \in SUBSET RewardIndex /\ r = UserRefreshReward(Issued(s, e), {i})
        /\ RefreshGlobalRewardsOk(s.farm, e) /\ UserRefreshRewardOk(Issued(s, e), {i})
    BY DEF HarvestOk, RefreshOne
  <2> QED BY <2>1, RefreshOneIssues, CountingCovers
<1>2. t \in Accounts
  BY HarvestPromises
<1>3. t = IF reward = 0 THEN r
          ELSE [ r EXCEPT !.farm.rewards[i].rewards_issued_unclaimed = @ - reward,
                          !.user.rewards_issued_unclaimed[i] = 0,
                          !.user.last_claim_ts[i] = e.ts ]
  BY DEF Harvest
<1>4. reward = r.user.rewards_issued_unclaimed[i]
  BY DEF HarvestedReward
<1> HIDE DEF r, reward, t
<1>5. CASE reward = 0
  BY <1>1, <1>3, <1>5 DEF t
<1>6. CASE reward # 0
  <2>1. /\ r.farm \in FarmAccount /\ r.user \in UserAccount
        /\ r.farm.rewards[i] \in RewardInfo /\ r.farm.rewards \in [RewardIndex -> RewardInfo]
        /\ r.user.rewards_issued_unclaimed \in [RewardIndex -> Nat]
    BY <1>1, RewardFields, FarmFields DEF Accounts, UserAccount
  <2> DEFINE q == [r.farm.rewards[i] EXCEPT !.rewards_issued_unclaimed = @ - reward]
             counted == [r.user.rewards_issued_unclaimed EXCEPT ![i] = 0]
             u == [r.user EXCEPT !.rewards_issued_unclaimed = counted,
                                 !.last_claim_ts = [@ EXCEPT ![i] = e.ts]]
  <2>2. t.farm = [r.farm EXCEPT !.rewards[i] = q] /\ t.user = u
    BY <1>1, <1>3, <1>6, <2>1 DEF Accounts, FarmAccount, UserAccount
  <2>3. /\ q.reward_per_share_scaled = r.farm.rewards[i].reward_per_share_scaled
        /\ q.rewards_issued_unclaimed = r.farm.rewards[i].rewards_issued_unclaimed - reward
    BY <2>1 DEF RewardInfo
  <2> HIDE DEF q
  <2>4. \A j \in RewardIndex : counted[j] = IF j = i THEN 0 ELSE r.user.rewards_issued_unclaimed[j]
    BY <2>1
  <2> HIDE DEF counted
  <2>5. /\ t.farm.rewards = [r.farm.rewards EXCEPT ![i] = q]
        /\ t.farm.num_reward_tokens = r.farm.num_reward_tokens
        /\ t.farm.active = r.farm.active
        /\ t.user.rewards_tally = r.user.rewards_tally
        /\ t.user.rewards_issued_unclaimed = counted
    BY <2>1, <2>2 DEF FarmAccount, UserAccount
  <2>6. reward \in Nat /\ -reward \in Int
    BY <1>4, <2>1
  <2>7. BookedAlike(r, t, i, -reward)
    <3> SUFFICES ASSUME NEW j \in RewardIndex
                 PROVE  /\ t.farm.rewards[j].reward_per_share_scaled
                             = r.farm.rewards[j].reward_per_share_scaled
                        /\ t.farm.rewards[j].rewards_issued_unclaimed
                             = r.farm.rewards[j].rewards_issued_unclaimed
                                 + (IF j = i THEN -reward ELSE 0)
                        /\ t.user.rewards_issued_unclaimed[j]
                             = r.user.rewards_issued_unclaimed[j]
                                 + (IF j = i THEN -reward ELSE 0)
      BY DEF BookedAlike
    <3>1. /\ r.farm.rewards[j].rewards_issued_unclaimed \in Nat
          /\ r.user.rewards_issued_unclaimed[j] \in Nat
      BY <2>1, RewardFields
    <3>2. t.farm.rewards[j] = IF j = i THEN q ELSE r.farm.rewards[j]
      BY <2>1, <2>5
    <3>3. t.user.rewards_issued_unclaimed[j]
            = IF j = i THEN 0 ELSE r.user.rewards_issued_unclaimed[j]
      BY <2>4, <2>5
    <3>4. CASE j = i
      BY <1>4, <2>3, <2>6, <3>1, <3>2, <3>3, <3>4
    <3>5. CASE j # i
      BY <3>1, <3>2, <3>3, <3>5
    <3> QED BY <3>4, <3>5
  <2>8. Covers(r, t, 0)
    BY <1>1, <1>2, <2>5, <2>6, <2>7, BookedAlikeCovers
  <2>9. Covers(s, t, 0 + 0)
    BY <1>1, <1>2, <2>8, CoversTransitive
  <2> QED BY <2>9 DEF t
<1> QED BY <1>5, <1>6

(* A farm that covers one that covers another covers it. *)
LEMMA FarmCoversTransitive ==
  ASSUME NEW f \in FarmAccount, NEW g \in FarmAccount, NEW h \in FarmAccount,
         FarmCovers(f, g), FarmCovers(g, h)
  PROVE  FarmCovers(f, h)
<1>1. InitialisedRewards(f) = InitialisedRewards(g)
  BY DEF FarmCovers, InitialisedRewards
<1>2. \A i \in RewardIndex :
        FarmSlack(f, i) \in Int /\ FarmSlack(g, i) \in Int /\ FarmSlack(h, i) \in Int
  <2>1. NewUser \in UserAccount
    BY DEF NewUser, UserAccount
  <2> QED BY <2>1, SlackInt
<1>3. ASSUME NEW i \in RewardIndex PROVE FarmSlack(f, i) =< FarmSlack(h, i)
  BY <1>2 DEF FarmCovers
<1> QED BY <1>1, <1>3 DEF FarmCovers

(* A reward whose counts are left alone covers, whatever else is set. *)
LEMMA UpdatedRewardCovers ==
  ASSUME NEW f \in FarmAccount, NEW i \in RewardIndex, NEW q \in RewardInfo,
         q.reward_per_share_scaled = f.rewards[i].reward_per_share_scaled,
         q.rewards_issued_unclaimed = f.rewards[i].rewards_issued_unclaimed
  PROVE  FarmCovers(f, [f EXCEPT !.rewards[i] = q])
<1> DEFINE g == [f EXCEPT !.rewards[i] = q]
<1>1. /\ g \in FarmAccount /\ g.num_reward_tokens = f.num_reward_tokens
      /\ g.rewards[i] = q /\ \A j \in RewardIndex \ {i} : g.rewards[j] = f.rewards[j]
  BY UpdatedReward
<1>2. g.active = f.active
  BY DEF FarmAccount
<1> HIDE DEF g
<1>3. \A j \in RewardIndex :
        /\ g.rewards[j].reward_per_share_scaled = f.rewards[j].reward_per_share_scaled
        /\ g.rewards[j].rewards_issued_unclaimed = f.rewards[j].rewards_issued_unclaimed
  BY <1>1
<1>4. FarmCovers(f, g)
  BY <1>1, <1>2, <1>3, SameClaimsCover
<1> QED BY <1>4 DEF g

(* Funding, withdrawing and configuring a reward leave what was issued of it *)
(* with the users.                                                           *)
LEMMA RewardOperationsCover ==
  ASSUME NEW f \in FarmAccount, NEW i \in RewardIndex, NEW e \in Environment
  PROVE  /\ \A amount \in Nat : AddRewardOk(f, i, amount, e) =>
              FarmCovers(f, AddReward(f, i, amount, e))
         /\ \A amount \in Nat : WithdrawRewardOk(f, i, amount, e) =>
              FarmCovers(f, WithdrawReward(f, i, amount, e))
         /\ \A config \in RewardConfig : UpdateRewardConfigOk(f, i, config, e) =>
              FarmCovers(f, UpdateRewardConfig(f, i, config, e))
<1> DEFINE r == RefreshGlobalRewards(f, e)
<1>1. ASSUME RefreshGlobalRewardsOk(f, e)
      PROVE  /\ r \in FarmAccount /\ FarmCovers(f, r)
             /\ r.rewards \in [RewardIndex -> RewardInfo] /\ r.rewards[i] \in RewardInfo
             /\ r.rewards[i].rewards_available \in Nat
  BY <1>1, RefreshGlobalRewardsIssues, RefreshGlobalRewardsCover, RewardFields, FarmFields
<1>2. ASSUME NEW q \in RewardInfo, RefreshGlobalRewardsOk(f, e),
             q.reward_per_share_scaled = r.rewards[i].reward_per_share_scaled,
             q.rewards_issued_unclaimed = r.rewards[i].rewards_issued_unclaimed
      PROVE  FarmCovers(f, [r EXCEPT !.rewards[i] = q])
  <2> HIDE DEF r
  <2>1. [r EXCEPT !.rewards[i] = q] \in FarmAccount /\ FarmCovers(r, [r EXCEPT !.rewards[i] = q])
    BY <1>1, <1>2, UpdatedReward, UpdatedRewardCovers
  <2> QED BY <1>1, <1>2, <2>1, FarmCoversTransitive
<1>3. ASSUME NEW amount \in Nat, AddRewardOk(f, i, amount, e)
      PROVE  FarmCovers(f, AddReward(f, i, amount, e))
  <2> DEFINE q == [r.rewards[i] EXCEPT !.rewards_available = @ + amount]
  <2>1. RefreshGlobalRewardsOk(f, e)
    BY <1>3 DEF AddRewardOk
  <2>2. AddReward(f, i, amount, e) = [r EXCEPT !.rewards[i] = q]
    BY <1>1, <2>1 DEF AddReward, FarmAccount
  <2> HIDE DEF r
  <2>3. /\ q \in RewardInfo
        /\ q.reward_per_share_scaled = r.rewards[i].reward_per_share_scaled
        /\ q.rewards_issued_unclaimed = r.rewards[i].rewards_issued_unclaimed
    BY <1>1, <2>1 DEF RewardInfo
  <2> HIDE DEF q
  <2> QED BY <1>2, <2>1, <2>2, <2>3
<1>4. ASSUME NEW amount \in Nat, WithdrawRewardOk(f, i, amount, e)
      PROVE  FarmCovers(f, WithdrawReward(f, i, amount, e))
  <2> DEFINE paid == WithdrawableReward(f, i, amount, e)
             q == [r.rewards[i] EXCEPT !.rewards_available = @ - paid]
  <2>1. RefreshGlobalRewardsOk(f, e)
    BY <1>4 DEF WithdrawRewardOk
  <2>2. WithdrawReward(f, i, amount, e) = [r EXCEPT !.rewards[i] = q]
    BY <1>1, <2>1 DEF WithdrawReward, FarmAccount
  <2>3. paid = Least(r.rewards[i].rewards_available, amount)
    BY DEF WithdrawableReward
  <2> HIDE DEF r, paid
  <2>4. /\ q \in RewardInfo
        /\ q.reward_per_share_scaled = r.rewards[i].reward_per_share_scaled
        /\ q.rewards_issued_unclaimed = r.rewards[i].rewards_issued_unclaimed
    BY <1>1, <2>1, <2>3 DEF RewardInfo, Least
  <2> HIDE DEF q
  <2> QED BY <1>2, <2>1, <2>2, <2>4
<1>5. ASSUME NEW config \in RewardConfig, UpdateRewardConfigOk(f, i, config, e)
      PROVE  FarmCovers(f, UpdateRewardConfig(f, i, config, e))
  <2> DEFINE q == [r.rewards[i] EXCEPT !.config = config, !.last_issuance_ts = e.ts]
  <2>1. RefreshGlobalRewardsOk(f, e)
    BY <1>5 DEF UpdateRewardConfigOk
  <2>2. UpdateRewardConfig(f, i, config, e) = [r EXCEPT !.rewards[i] = q]
    BY <1>1, <2>1 DEF UpdateRewardConfig, FarmAccount, RewardInfo
  <2> HIDE DEF r
  <2>3. /\ q \in RewardInfo
        /\ q.reward_per_share_scaled = r.rewards[i].reward_per_share_scaled
        /\ q.rewards_issued_unclaimed = r.rewards[i].rewards_issued_unclaimed
    BY <1>1, <2>1 DEF RewardInfo, Environment
  <2> HIDE DEF q
  <2> QED BY <1>2, <2>1, <2>2, <2>3
<1> QED BY <1>3, <1>4, <1>5

(* initialize_reward adds a reward nothing of which was issued. *)
LEMMA InitializeRewardCovers ==
  ASSUME NEW f \in FarmAccount, NEW ts \in Nat, f.num_reward_tokens < MAX_REWARDS_TOKENS,
         RewardsUnset(f)
  PROVE  LET g == InitializeReward(f, ts)
         IN  RewardsUnset(g) /\ \A i \in RewardIndex : FarmSlack(g, i) = FarmSlack(f, i)
<1> DEFINE n == f.num_reward_tokens
           q == [f.rewards[n] EXCEPT !.rewards_available = 0, !.last_issuance_ts = ts]
           g == InitializeReward(f, ts)
<1>1. n \in RewardIndex
  BY FarmStateAssumption DEF FarmAccount, RewardIndex
<1>2. /\ q.reward_per_share_scaled = f.rewards[n].reward_per_share_scaled
      /\ q.rewards_issued_unclaimed = f.rewards[n].rewards_issued_unclaimed
  BY <1>1, RewardFields DEF RewardInfo
<1>3. /\ g.rewards = [f.rewards EXCEPT ![n] = q] /\ g.num_reward_tokens = n + 1
      /\ g.active = f.active /\ n = f.num_reward_tokens
  BY <1>1, FarmFields DEF InitializeReward, FarmAccount, RewardInfo
<1>4. f.rewards \in [RewardIndex -> RewardInfo]
  BY FarmFields
<1> HIDE DEF q, n, g
<1>5. \A i \in RewardIndex :
        /\ g.rewards[i].reward_per_share_scaled = f.rewards[i].reward_per_share_scaled
        /\ g.rewards[i].rewards_issued_unclaimed = f.rewards[i].rewards_issued_unclaimed
  BY <1>2, <1>3, <1>4
<1>6. InitialisedRewards(f) \subseteq InitialisedRewards(g)
  BY <1>1, <1>3 DEF InitialisedRewards, RewardIndex
<1>7. RewardsUnset(g)
  BY <1>5, <1>6 DEF RewardsUnset
<1>8. \A i \in RewardIndex : FarmSlack(g, i) = FarmSlack(f, i)
  BY <1>3, <1>5 DEF FarmSlack
<1> QED BY <1>7, <1>8 DEF g

-----------------------------------------------------------------------------
(* A delegated farm: set_stake sets a tally to what the new stake has earned *)
(* and forgets what the tally had not counted, never the other way round.    *)

TallyEarned(f, user) ==
  \A i \in RewardIndex : user.rewards_tally[i] =< RewardValue(f, user.active_stake, i)

KeepsEarned(s, t) ==
  /\ RewardsGrow(s.farm, t.farm)
  /\ RewardsUnset(s.farm) /\ TallyEarned(s.farm, s.user) => TallyEarned(t.farm, t.user)

(* A delegated farm's stake is not scaled, so that nothing is rounded. *)
LEMMA DelegatedRewardValue ==
  ASSUME Delegated, NEW f \in FarmAccount, NEW i \in RewardIndex, NEW x \in Nat
  PROVE  RewardValue(f, x, i) = x * f.rewards[i].reward_per_share_scaled
<1> DEFINE p == f.rewards[i].reward_per_share_scaled
<1>1. p \in Nat
  BY RewardFields
<1>2. RewardValue(f, x, i) = (x * p) \div 1
  BY DEF RewardValue, MulDiv, StakeScale
<1> HIDE DEF p
<1>3. x * p \in Nat
  BY <1>1
<1>4. (x * p) \div 1 = x * p
  BY <1>3
<1> QED BY <1>2, <1>4 DEF p

(* Rewards that grow lower no tally's bound. *)
LEMMA GrowthKeepsEarned ==
  ASSUME NEW f \in FarmAccount, NEW g \in FarmAccount, NEW user \in UserAccount,
         RewardsGrow(f, g), TallyEarned(f, user)
  PROVE  TallyEarned(g, user)
<1> SUFFICES ASSUME NEW i \in RewardIndex
             PROVE  user.rewards_tally[i] =< RewardValue(g, user.active_stake, i)
  BY DEF TallyEarned
<1>1. user.active_stake \in Nat /\ user.rewards_tally[i] \in Nat
  BY DEF UserAccount
<1>2. RewardValue(f, user.active_stake, i) =< RewardValue(g, user.active_stake, i)
  BY <1>1, RewardValueGrows DEF RewardsGrow
<1>3. RewardValue(f, user.active_stake, i) \in Nat /\ RewardValue(g, user.active_stake, i) \in Nat
  BY <1>1, RewardValueNat
<1> QED BY <1>1, <1>2, <1>3 DEF TallyEarned

(* Whatever leaves the user's stake and tally alone. *)
LEMMA EarnedLeftAlone ==
  ASSUME NEW s \in Accounts, NEW t \in Accounts, RewardsGrow(s.farm, t.farm),
         t.user.rewards_tally = s.user.rewards_tally, t.user.active_stake = s.user.active_stake
  PROVE  KeepsEarned(s, t)
<1>1. s.farm \in FarmAccount /\ t.farm \in FarmAccount /\ s.user \in UserAccount
  BY DEF Accounts
<1>2. TallyEarned(s.farm, s.user) => TallyEarned(t.farm, s.user)
  BY <1>1, GrowthKeepsEarned
<1> QED BY <1>2 DEF KeepsEarned, TallyEarned

(* Counting rewards adds to a tally at most what was earned. *)
LEMMA CountingEarned ==
  ASSUME NEW s \in Accounts, NEW e \in Environment,
         NEW indices \in SUBSET InitialisedRewards(s.farm),
         RefreshGlobalRewardsOk(s.farm, e), UserRefreshRewardOk(Issued(s, e), indices)
  PROVE  /\ KeepsEarned(s, UserRefreshReward(Issued(s, e), indices))
         /\ UserRefreshReward(Issued(s, e), indices) \in Accounts
         /\ UserRefreshReward(Issued(s, e), indices).user.active_stake = s.user.active_stake
<1> DEFINE v == Issued(s, e)
           t == UserRefreshReward(v, indices)
<1>1. /\ RefreshGlobalRewards(s.farm, e) \in FarmAccount
      /\ RefreshGlobalRewards(s.farm, e).num_reward_tokens = s.farm.num_reward_tokens
      /\ RewardsGrow(s.farm, RefreshGlobalRewards(s.farm, e))
  BY RefreshGlobalRewardsIssues, RefreshGlobalRewardsGrow DEF Accounts, OnlyIssues, KeepsPromises
<1>2. v \in Accounts /\ v.farm = RefreshGlobalRewards(s.farm, e) /\ v.user = s.user
  BY <1>1 DEF Issued, Accounts
<1>3. indices \in SUBSET InitialisedRewards(v.farm) /\ UserRefreshRewardOk(v, indices)
  BY <1>1, <1>2 DEF InitialisedRewards
<1> HIDE DEF v
<1>4. /\ KeepsTally(v, t) /\ t.user.active_stake = v.user.active_stake
      /\ \A i \in RewardIndex \ indices : t.user.rewards_tally[i] = v.user.rewards_tally[i]
      /\ \A i \in indices : t.user.rewards_tally[i] =< Entitlement(v, i)
  BY <1>2, <1>3, UserRefreshRewardTally
<1>5. t.farm = v.farm
  BY <1>2 DEF UserRefreshReward, Accounts
<1>6. t \in Accounts
  <2>1. indices \in SUBSET RewardIndex
    BY DEF InitialisedRewards
  <2> QED BY <1>2, <1>3, <2>1, UserRefreshRewardTypes
<1> HIDE DEF t
<1>7. ASSUME TallyEarned(s.farm, s.user) PROVE TallyEarned(t.farm, t.user)
  <2>1. TallyEarned(v.farm, v.user)
    BY <1>1, <1>2, <1>7, GrowthKeepsEarned DEF Accounts
  <2> SUFFICES ASSUME NEW i \in RewardIndex
               PROVE  t.user.rewards_tally[i] =< RewardValue(t.farm, t.user.active_stake, i)
    BY DEF TallyEarned
  <2>2. CASE i \in indices
    BY <1>4, <1>5, <2>2 DEF Entitlement
  <2>3. CASE i \notin indices
    BY <1>4, <1>5, <2>1, <2>3 DEF TallyEarned
  <2> QED BY <2>2, <2>3
<1>8. KeepsEarned(s, t) /\ t.user.active_stake = s.user.active_stake
  BY <1>1, <1>2, <1>4, <1>5, <1>7 DEF KeepsEarned
<1> QED BY <1>6, <1>8 DEF t, v

(* The refresh most instructions begin with. *)
LEMMA RefreshRewardsEarned ==
  ASSUME NEW s \in Accounts, NEW e \in Environment, RefreshRewardsOk(s, e)
  PROVE  KeepsEarned(s, RefreshRewards(s, e))
<1> DEFINE v == Issued(s, e)
           indices == RefreshedIndices(s)
<1>1. indices \in SUBSET InitialisedRewards(s.farm)
  BY DEF RefreshedIndices
<1> HIDE DEF indices
<1>2. /\ RefreshGlobalRewardsOk(s.farm, e) /\ UserRefreshRewardOk(v, indices)
      /\ RefreshRewards(s, e) = UserRefreshReward(v, indices)
  BY DEF RefreshRewardsOk, RefreshRewards, indices
<1> QED BY <1>1, <1>2, CountingEarned

(* harvest *)
LEMMA HarvestEarned ==
  ASSUME NEW s \in Accounts, NEW i \in RewardIndex, NEW e \in Environment, HarvestOk(s, i, e)
  PROVE  KeepsEarned(s, Harvest(s, i, e))
<1> DEFINE r == RefreshOne(s, i, e)
           reward == HarvestedReward(s, i, e)
           t == Harvest(s, i, e)
<1>1. r \in Accounts /\ KeepsEarned(s, r)
  <2>1. /\ {i} \in SUBSET InitialisedRewards(s.farm)
        /\ r = UserRefreshReward(Issued(s, e), {i})
        /\ RefreshGlobalRewardsOk(s.farm, e) /\ UserRefreshRewardOk(Issued(s, e), {i})
    BY DEF HarvestOk, RefreshOne
  <2> QED BY <2>1, CountingEarned
<1>2. t = IF reward = 0 THEN r
          ELSE [ r EXCEPT !.farm.rewards[i].rewards_issued_unclaimed = @ - reward,
                          !.user.rewards_issued_unclaimed[i] = 0,
                          !.user.last_claim_ts[i] = e.ts ]
  BY DEF Harvest
<1>3. t \in Accounts /\ KeepsTally(s, t)
  BY HarvestPromises, HarvestTally
<1> HIDE DEF r, reward, t
<1>4. CASE reward = 0
  BY <1>1, <1>2, <1>4 DEF t
<1>5. CASE reward # 0
  <2>1. /\ r.farm \in FarmAccount /\ r.user \in UserAccount
        /\ r.farm.rewards[i] \in RewardInfo /\ r.farm.rewards \in [RewardIndex -> RewardInfo]
    BY <1>1, RewardFields, FarmFields DEF Accounts
  <2> DEFINE q == [r.farm.rewards[i] EXCEPT !.rewards_issued_unclaimed = @ - reward]
             u == [r.user EXCEPT !.rewards_issued_unclaimed = [@ EXCEPT ![i] = 0],
                                 !.last_claim_ts = [@ EXCEPT ![i] = e.ts]]
  <2>2. t.farm = [r.farm EXCEPT !.rewards[i] = q] /\ t.user = u
    BY <1>1, <1>2, <1>5, <2>1 DEF Accounts, FarmAccount, UserAccount
  <2>3. q.reward_per_share_scaled = r.farm.rewards[i].reward_per_share_scaled
    BY <2>1 DEF RewardInfo
  <2> HIDE DEF q
  <2>4. /\ t.farm.rewards = [r.farm.rewards EXCEPT ![i] = q]
        /\ t.user.rewards_tally = r.user.rewards_tally
        /\ t.user.active_stake = r.user.active_stake
    BY <2>1, <2>2 DEF FarmAccount, UserAccount
  <2>5. \A j \in RewardIndex :
          t.farm.rewards[j].reward_per_share_scaled = r.farm.rewards[j].reward_per_share_scaled
    BY <2>1, <2>3, <2>4
  <2>6. \A j \in RewardIndex : \A x : RewardValue(t.farm, x, j) = RewardValue(r.farm, x, j)
    BY <2>5 DEF RewardValue
  <2>7. TallyEarned(r.farm, r.user) => TallyEarned(t.farm, t.user)
    BY <2>4, <2>6 DEF TallyEarned
  <2>8. KeepsEarned(s, t)
    BY <1>1, <1>3, <2>7 DEF KeepsEarned, KeepsTally
  <2> QED BY <2>8 DEF t
<1> QED BY <1>4, <1>5

(* reward_user_once *)
LEMMA RewardUserOnceEarned ==
  ASSUME NEW s \in Accounts, NEW i \in RewardIndex, NEW amount \in Nat
  PROVE  KeepsEarned(s, RewardUserOnce(s, i, amount))
<1> DEFINE t == RewardUserOnce(s, i, amount)
<1>1. t \in Accounts /\ RewardsGrow(s.farm, t.farm)
  BY RewardUserOncePromises, RewardUserOnceTally DEF KeepsTally
<1>2. t.user = [s.user EXCEPT !.rewards_issued_unclaimed[i] = @ + amount] /\ s.user \in UserAccount
  BY RewardUserOnceCredits DEF Accounts
<1> HIDE DEF t
<1>3. t.user.rewards_tally = s.user.rewards_tally /\ t.user.active_stake = s.user.active_stake
  BY <1>2 DEF UserAccount
<1>4. KeepsEarned(s, t)
  BY <1>1, <1>3, EarnedLeftAlone
<1> QED BY <1>4 DEF t

(* The difference of a user's stake is that of the farm's, and the tally     *)
(* becomes the value of the new one.                                         *)
LEMMA DictatedSlack ==
  ASSUME NEW r \in Nat, NEW c \in Nat, NEW issued \in Nat, NEW counted \in Nat, NEW tally \in Nat,
         NEW staked \in Nat, NEW old \in Nat, NEW new \in Nat, tally =< old * r
  PROVE  (c * issued - staked * r) + (1 * tally - c * counted)
           =< (c * issued - (staked + new - old) * r) + (1 * (r * new) - c * counted)
<1>1. (staked + new - old) * r = staked * r + new * r - old * r /\ r * new = new * r
  OBVIOUS
<1>2. /\ staked * r \in Int /\ new * r \in Int /\ old * r \in Int
      /\ c * issued \in Int /\ c * counted \in Int
  OBVIOUS
<1> QED BY <1>1, <1>2

(* set_stake *)
LEMMA SetStakeCovers ==
  ASSUME NEW s \in Accounts, NEW new_stake \in Nat, NEW e \in Environment, Delegated,
         SetStakeOk(s, new_stake, e), RewardsUnset(s.farm), TallyEarned(s.farm, s.user)
  PROVE  /\ Covers(s, SetStake(s, new_stake, e), 0)
         /\ KeepsEarned(s, SetStake(s, new_stake, e))
<1>1. CASE new_stake = s.user.active_stake
  <2>1. SetStake(s, new_stake, e) = s
    BY <1>1 DEF SetStake
  <2>2. s.farm \in FarmAccount
    BY DEF Accounts
  <2>3. RewardsGrow(s.farm, s.farm) /\ FarmCovers(s.farm, s.farm)
    BY <2>2, SameRewardsGrow, SameClaimsCover
  <2> QED BY <2>1, <2>3, EarnedLeftAlone, FarmCoversCovers
<1>2. CASE new_stake # s.user.active_stake
  <2> DEFINE r == RefreshRewards(s, WithoutPrice(e))
             f == IF StakeIncreases(s, new_stake)
                  THEN InitializeRewardTsIfNeeded(r.farm, e.ts) ELSE r.farm
             old == s.user.active_stake
             g == [f EXCEPT !.active.stake = @ + new_stake - old,
                            !.active.amount = @ + new_stake - old]
             tally == [i \in RewardIndex |-> IF i \in InitialisedRewards(f)
                         THEN f.rewards[i].reward_per_share_scaled * new_stake
                         ELSE r.user.rewards_tally[i]]
             staked_at == IF StakeIncreases(s, new_stake) THEN e.ts ELSE r.user.last_stake_ts
             u == [r.user EXCEPT !.active_stake = new_stake, !.last_stake_ts = staked_at,
                                 !.rewards_tally = tally]
             v == [farm |-> f, user |-> r.user]
             t == SetStake(s, new_stake, e)
  <2>1. e.ts \in Nat /\ WithoutPrice(e) \in Environment
    BY DEF Environment, Price, WithoutPrice
  <2>2. RefreshRewardsOk(s, WithoutPrice(e))
    BY <1>2 DEF SetStakeOk
  <2>3. /\ r \in Accounts /\ Covers(s, r, 0) /\ KeepsEarned(s, r) /\ KeepsTally(s, r)
        /\ r.user.active_stake = old
    BY <2>1, <2>2, RefreshRewardsIssues, RefreshRewardsCovers, RefreshRewardsEarned,
       RefreshRewardsTally
  <2>4. t = [farm |-> g, user |-> u]
    BY <1>2 DEF SetStake
  <2>5. t \in Accounts /\ KeepsTally(s, t)
    BY SetStakeTypes, SetStakeTally
  <2> HIDE DEF r, t
  <2>6. r.farm \in FarmAccount /\ r.user \in UserAccount
    BY <2>3 DEF Accounts
  <2>7. /\ f \in FarmAccount /\ RewardsGrow(r.farm, f)
        /\ f.num_reward_tokens = r.farm.num_reward_tokens
        /\ FarmCovers(r.farm, f)
    <3> DEFINE h == InitializeRewardTsIfNeeded(r.farm, e.ts)
    <3>1. /\ h \in FarmAccount /\ RewardsGrow(r.farm, h)
          /\ h.num_reward_tokens = r.farm.num_reward_tokens /\ h.active.stake = r.farm.active.stake
      BY <2>1, <2>6, InitializeRewardTsIssues, InitializeRewardTsGrows
      DEF OnlyIssues, KeepsPromises
    <3>2. \A i \in RewardIndex :
            /\ h.rewards[i].reward_per_share_scaled = r.farm.rewards[i].reward_per_share_scaled
            /\ h.rewards[i].rewards_issued_unclaimed = r.farm.rewards[i].rewards_issued_unclaimed
      <4>1. r.farm.rewards \in [RewardIndex -> RewardInfo]
        BY <2>6, FarmFields
      <4> QED BY <2>6, <4>1 DEF InitializeRewardTsIfNeeded, FarmAccount, RewardInfo
    <3> HIDE DEF h
    <3>3. FarmCovers(r.farm, h)
      BY <2>6, <3>1, <3>2, SameClaimsCover
    <3>4. RewardsGrow(r.farm, r.farm) /\ FarmCovers(r.farm, r.farm)
      BY <2>6, SameRewardsGrow, SameClaimsCover
    <3> QED BY <2>6, <3>1, <3>3, <3>4 DEF h
  <2> HIDE DEF f
  <2>8. v \in Accounts /\ v.farm = f /\ v.user = r.user
    BY <2>6, <2>7 DEF Accounts
  <2> HIDE DEF v, staked_at
  <2>9. Covers(s, v, 0)
    <3>1. Covers(r, v, 0)
      BY <2>3, <2>7, <2>8, FarmCoversCovers
    <3>2. Covers(s, v, 0 + 0)
      BY <2>3, <2>8, <3>1, CoversTransitive
    <3> QED BY <3>2
  <2>10. RewardsUnset(f) /\ TallyEarned(f, r.user)
    <3>1. TallyEarned(r.farm, r.user)
      BY <2>3 DEF KeepsEarned
    <3> QED BY <2>6, <2>7, <2>8, <2>9, <3>1, StillUnset, GrowthKeepsEarned
  <2>11. /\ t.farm.rewards = f.rewards /\ t.farm.num_reward_tokens = f.num_reward_tokens
         /\ t.farm.active.stake = f.active.stake + new_stake - old
    BY <2>4, <2>7 DEF FarmAccount, Pool
  <2>12. /\ t.user.rewards_tally = tally /\ t.user.active_stake = new_stake
         /\ t.user.rewards_issued_unclaimed = r.user.rewards_issued_unclaimed
    <3> HIDE DEF tally
    <3> QED BY <2>4, <2>6 DEF UserAccount
  <2>13. ASSUME NEW i \in RewardIndex
         PROVE  /\ tally[i] = f.rewards[i].reward_per_share_scaled * new_stake
                /\ r.user.rewards_tally[i] =< old * f.rewards[i].reward_per_share_scaled
    <3>1. /\ r.user.rewards_tally[i] =< RewardValue(f, old, i) /\ old \in Nat
          /\ r.user.rewards_tally[i] \in Nat /\ f.rewards[i].reward_per_share_scaled \in Nat
      BY <2>3, <2>6, <2>7, <2>10, RewardFields DEF TallyEarned, UserAccount
    <3>2. r.user.rewards_tally[i] =< old * f.rewards[i].reward_per_share_scaled
      BY <2>7, <3>1, DelegatedRewardValue
    <3>3. CASE i \in InitialisedRewards(f)
      BY <3>2, <3>3
    <3>4. CASE i \notin InitialisedRewards(f)
      <4>1. f.rewards[i].reward_per_share_scaled = 0
        BY <2>10, <3>4 DEF RewardsUnset
      <4>2. old * 0 = 0 /\ 0 * new_stake = 0
        BY <3>1
      <4>3. r.user.rewards_tally[i] = 0
        BY <3>1, <3>2, <4>1, <4>2
      <4> QED BY <3>2, <3>4, <4>1, <4>2, <4>3
    <3> QED BY <3>3, <3>4
  <2> HIDE DEF tally, old
  <2>14. ASSUME NEW i \in RewardIndex PROVE Slack(v, i) =< Slack(t, i) + StakeScale * 0
    <3> DEFINE p == f.rewards[i].reward_per_share_scaled
               c == WAD * StakeScale
               issued == f.rewards[i].rewards_issued_unclaimed
               counted == r.user.rewards_issued_unclaimed[i]
               before == r.user.rewards_tally[i]
               staked == f.active.stake
    <3>1. /\ Slack(v, i) = (c * issued - staked * p) + (StakeScale * before - c * counted)
          /\ Slack(t, i) = (c * issued - (staked + new_stake - old) * p)
                             + (StakeScale * (p * new_stake) - c * counted)
      BY <2>8, <2>11, <2>12, <2>13 DEF Slack, FarmSlack, UserSlack
    <3>2. /\ p \in Nat /\ c \in Nat /\ issued \in Nat /\ counted \in Nat /\ before \in Nat
          /\ staked \in Nat /\ old \in Nat
      <4>1. WAD \in Nat /\ StakeScale \in Nat
        BY MathAssumption, StakeScalePositive
      <4>2. c \in Nat
        BY <4>1
      <4> QED BY <2>6, <2>7, <4>2, RewardFields, FarmFields DEF UserAccount, old, Accounts
    <3>3. before =< old * p
      BY <2>13
    <3>4. StakeScale = 1
      BY DEF StakeScale
    <3>5. StakeScale * 0 = 0
      BY <3>4
    <3>6. Slack(v, i) \in Int /\ Slack(t, i) \in Int
      BY <2>5, <2>8, AccountsSlackInt
    <3> HIDE DEF p, c, issued, counted, before, staked
    <3>7. Slack(v, i) =< Slack(t, i)
      BY <3>1, <3>2, <3>3, <3>4, DictatedSlack
    <3> QED BY <3>5, <3>6, <3>7
  <2>15. Covers(v, t, 0)
    BY <2>8, <2>11, <2>14 DEF Covers
  <2>16. Covers(s, t, 0 + 0)
    BY <2>5, <2>8, <2>9, <2>15, CoversTransitive
  <2>17. TallyEarned(t.farm, t.user)
    <3> SUFFICES ASSUME NEW i \in RewardIndex
                 PROVE  t.user.rewards_tally[i] =< RewardValue(t.farm, t.user.active_stake, i)
      BY DEF TallyEarned
    <3> DEFINE p == f.rewards[i].reward_per_share_scaled
    <3>1. RewardValue(t.farm, new_stake, i) = new_stake * p
      BY <2>5, <2>11, DelegatedRewardValue DEF Accounts
    <3>2. t.user.rewards_tally[i] = p * new_stake /\ p \in Nat
      BY <2>7, <2>12, <2>13, RewardFields
    <3> HIDE DEF p
    <3>3. p * new_stake = new_stake * p /\ new_stake * p \in Nat
      BY <3>2
    <3> QED BY <2>12, <3>1, <3>2, <3>3
  <2> QED BY <2>5, <2>16, <2>17 DEF KeepsEarned, KeepsTally, t
<1> QED BY <1>1, <1>2

-----------------------------------------------------------------------------
(* Each instruction keeps the rewards' books solvent *)

UserSlacks(us, i) == SumFunction([u \in Users |-> UserSlack(us[u], i)])

(* The farm's slack and that of all users together is not negative, but for  *)
(* n roundings: in the shares' scale, what ClaimsWithinIssued says.          *)
Covered(f, us, n) ==
  /\ RewardsUnset(f)
  /\ \A i \in RewardIndex : 0 =< FarmSlack(f, i) + UserSlacks(us, i) + StakeScale * n

EarnedByAll(f, us) == Delegated => \A u \in Users : TallyEarned(f, us[u])

(* Inductive together with the types. *)
ClaimInv == TypeOK /\ Covered(farm, users, tally_roundings) /\ EarnedByAll(farm, users)

KeepsClaims == Covered(farm', users', tally_roundings') /\ EarnedByAll(farm', users')

(* What the users' slack adds up to is a number. *)
LEMMA UserSlacksInt ==
  ASSUME NEW us \in [Users -> UserAccount], NEW i \in RewardIndex, NEW f \in FarmAccount
  PROVE  UserSlacks(us, i) \in Int
<1> DEFINE a == [u \in Users |-> UserSlack(us[u], i)]
<1>1. IsFiniteSet(Users) /\ \A u \in Users : a[u] \in Int
  BY FarmAssumption, SlackInt
<1>2. UserSlacks(us, i) = SumFunctionOnSet(a, Users)
  BY DEF UserSlacks, SumFunction
<1> HIDE DEF a
<1> QED BY <1>1, <1>2, SumInt

(* An operation on one user's account changes the sum by that user's share.  *)
LEMMA CoveredStep ==
  ASSUME NEW us \in [Users -> UserAccount], NEW u \in Users, NEW s \in Accounts,
         NEW t \in Accounts, NEW m \in Nat, NEW n \in Nat,
         us[u].rewards_tally = s.user.rewards_tally,
         us[u].rewards_issued_unclaimed = s.user.rewards_issued_unclaimed,
         Covered(s.farm, us, m), Covers(s, t, n)
  PROVE  Covered(t.farm, [us EXCEPT ![u] = t.user], m + n)
<1> DEFINE vs == [us EXCEPT ![u] = t.user]
<1>1. s.farm \in FarmAccount /\ t.farm \in FarmAccount /\ s.user \in UserAccount
      /\ t.user \in UserAccount
  BY DEF Accounts
<1>2. vs \in [Users -> UserAccount] /\ vs[u] = t.user /\ \A x \in Users \ {u} : vs[x] = us[x]
  BY <1>1
<1> HIDE DEF vs
<1>3. RewardsUnset(t.farm)
  BY StillUnset DEF Covered
<1>4. ASSUME NEW i \in RewardIndex
      PROVE  0 =< FarmSlack(t.farm, i) + UserSlacks(vs, i) + StakeScale * (m + n)
  <2> DEFINE a == [x \in Users |-> UserSlack(us[x], i)]
             b == [x \in Users |-> UserSlack(vs[x], i)]
  <2>1. /\ \A x \in Users : a[x] \in Int /\ b[x] \in Int
        /\ a[u] = UserSlack(s.user, i) /\ b[u] = UserSlack(t.user, i)
        /\ \A x \in Users \ {u} : b[x] = a[x]
    <3>1. \A x \in Users : UserSlack(us[x], i) \in Int /\ UserSlack(vs[x], i) \in Int
      BY <1>1, <1>2, SlackInt
    <3>2. UserSlack(us[u], i) = UserSlack(s.user, i)
      BY DEF UserSlack
    <3> QED BY <1>2, <3>1, <3>2
  <2>2. UserSlacks(us, i) = SumFunctionOnSet(a, Users)
        /\ UserSlacks(vs, i) = SumFunctionOnSet(b, Users)
    BY DEF UserSlacks, SumFunction
  <2>3. UserSlacks(us, i) \in Int /\ UserSlacks(vs, i) \in Int
    BY <1>1, <1>2, UserSlacksInt
  <2> HIDE DEF a, b
  <2>4. UserSlacks(vs, i) = UserSlacks(us, i) + UserSlack(t.user, i) - UserSlack(s.user, i)
    <3>1. IsFiniteSet(Users)
      BY FarmAssumption
    <3>2. SumFunctionOnSet(b, Users) = SumFunctionOnSet(a, Users) + b[u] - a[u]
      BY <2>1, <3>1, SumUpdate
    <3> QED BY <2>1, <2>2, <2>3, <3>2
  <2>5. /\ FarmSlack(s.farm, i) \in Int /\ FarmSlack(t.farm, i) \in Int
        /\ UserSlack(s.user, i) \in Int /\ UserSlack(t.user, i) \in Int
    BY <1>1, SlackInt
  <2>6. /\ 0 =< FarmSlack(s.farm, i) + UserSlacks(us, i) + StakeScale * m
        /\ FarmSlack(s.farm, i) + UserSlack(s.user, i)
             =< FarmSlack(t.farm, i) + UserSlack(t.user, i) + StakeScale * n
    BY DEF Covered, Covers, Slack
  <2>7. /\ StakeScale * (m + n) = StakeScale * m + StakeScale * n
        /\ StakeScale * m \in Nat /\ StakeScale * n \in Nat
    BY StakeScalePositive
  <2> QED BY <2>3, <2>4, <2>5, <2>6, <2>7
<1>5. Covered(t.farm, vs, m + n)
  BY <1>3, <1>4 DEF Covered
<1> QED BY <1>5 DEF vs

(* A farm with no less slack. *)
LEMMA CoveredFarm ==
  ASSUME NEW f \in FarmAccount, NEW g \in FarmAccount, NEW us \in [Users -> UserAccount],
         NEW n \in Nat, Covered(f, us, n), RewardsUnset(g),
         \A i \in RewardIndex : FarmSlack(f, i) =< FarmSlack(g, i)
  PROVE  Covered(g, us, n)
<1>1. NewUser \in UserAccount
  BY DEF NewUser, UserAccount
<1>2. ASSUME NEW i \in RewardIndex
      PROVE  0 =< FarmSlack(g, i) + UserSlacks(us, i) + StakeScale * n
  <2>1. FarmSlack(f, i) \in Int /\ FarmSlack(g, i) \in Int /\ UserSlacks(us, i) \in Int
    BY <1>1, SlackInt, UserSlacksInt
  <2>2. StakeScale * n \in Nat
    BY StakeScalePositive
  <2>3. 0 =< FarmSlack(f, i) + UserSlacks(us, i) + StakeScale * n
    BY DEF Covered
  <2> QED BY <2>1, <2>2, <2>3
<1> QED BY <1>2 DEF Covered

(* An operation of one user keeps every tally earned if it keeps that user's.*)
LEMMA EarnedStep ==
  ASSUME NEW us \in [Users -> UserAccount], NEW u \in Users, NEW f \in FarmAccount,
         NEW t \in Accounts, EarnedByAll(f, us), RewardsGrow(f, t.farm),
         Delegated => TallyEarned(t.farm, t.user)
  PROVE  EarnedByAll(t.farm, [us EXCEPT ![u] = t.user])
<1> SUFFICES ASSUME Delegated, NEW x \in Users
             PROVE  TallyEarned(t.farm, [us EXCEPT ![u] = t.user][x])
  BY DEF EarnedByAll
<1>1. CASE x = u
  BY <1>1
<1>2. CASE x # u
  <2>1. TallyEarned(f, us[x]) /\ us[x] \in UserAccount
    BY DEF EarnedByAll
  <2>2. TallyEarned(t.farm, us[x])
    BY <2>1, GrowthKeepsEarned DEF Accounts
  <2> QED BY <1>2, <2>2
<1> QED BY <1>1, <1>2

(* An instruction on one user's account. *)
LEMMA OwnStepClaims ==
  ASSUME ClaimInv, NEW u \in Users, NEW t \in Accounts, NEW n \in Nat, Becomes(u, t),
         Covers(Of(u), t, n), RewardsGrow(farm, t.farm), Delegated => KeepsEarned(Of(u), t),
         tally_roundings' = tally_roundings + n
  PROVE  KeepsClaims
<1>1. /\ users \in [Users -> UserAccount] /\ farm \in FarmAccount /\ tally_roundings \in Nat
      /\ Of(u) \in Accounts /\ Of(u).farm = farm /\ Of(u).user = users[u]
  BY OfTypes DEF ClaimInv, TypeOK
<1>2. farm' = t.farm /\ users' = [users EXCEPT ![u] = t.user]
  BY DEF Becomes
<1>3. Covered(t.farm, [users EXCEPT ![u] = t.user], tally_roundings + n)
  BY <1>1, CoveredStep DEF ClaimInv
<1>4. Delegated => TallyEarned(t.farm, t.user)
  BY <1>1 DEF ClaimInv, EarnedByAll, KeepsEarned, Covered
<1>5. EarnedByAll(t.farm, [users EXCEPT ![u] = t.user])
  BY <1>1, <1>4, EarnedStep DEF ClaimInv
<1> QED BY <1>2, <1>3, <1>5 DEF KeepsClaims

(* One whose roundings the history counts. *)
LEMMA RoundedStepClaims ==
  ASSUME ClaimInv, NEW u \in Users, NEW t \in Accounts, NEW k \in 1 .. 2, Becomes(u, t),
         Rounded(Of(u), t, k), CountRoundings(u), RewardsGrow(farm, t.farm),
         Delegated => KeepsEarned(Of(u), t)
  PROVE  KeepsClaims
<1> DEFINE rounds == farm.num_reward_tokens > 0 /\ t.user.active_stake > users[u].active_stake
           m == IF rounds THEN k ELSE 0
           n == IF rounds THEN 2 ELSE 0
<1>1. /\ Of(u) \in Accounts /\ Of(u).farm = farm /\ Of(u).user = users[u]
      /\ tally_roundings \in Nat /\ users \in [Users -> UserAccount]
  BY OfTypes DEF ClaimInv, TypeOK
<1>2. users'[u] = t.user
  BY <1>1 DEF Becomes
<1>3. tally_roundings' = tally_roundings + n
  BY <1>1, <1>2 DEF CountRoundings
<1>4. Covers(Of(u), t, m)
  BY <1>1 DEF Rounded
<1>5. m \in Nat /\ n \in Nat /\ m =< n
  <2> HIDE DEF rounds
  <2> QED OBVIOUS
<1> HIDE DEF m, n
<1>6. Covers(Of(u), t, n)
  BY <1>1, <1>4, <1>5, CoversMore
<1> QED BY <1>3, <1>5, <1>6, OwnStepClaims

(* One that rounds nothing. *)
LEMMA ExactStepClaims ==
  ASSUME ClaimInv, NEW u \in Users, NEW t \in Accounts, Becomes(u, t), Covers(Of(u), t, 0),
         RewardsGrow(farm, t.farm), Delegated => KeepsEarned(Of(u), t),
         UNCHANGED tally_roundings
  PROVE  KeepsClaims
<1>1. tally_roundings' = tally_roundings + 0
  BY DEF ClaimInv, TypeOK
<1> QED BY <1>1, OwnStepClaims

(* An instruction on the farm alone. *)
LEMMA FarmStepClaims ==
  ASSUME ClaimInv, farm' \in FarmAccount, RewardsGrow(farm, farm'), RewardsUnset(farm'),
         \A i \in RewardIndex : FarmSlack(farm, i) =< FarmSlack(farm', i),
         UNCHANGED <<users, tally_roundings>>
  PROVE  KeepsClaims
<1>1. users \in [Users -> UserAccount] /\ farm \in FarmAccount /\ tally_roundings \in Nat
  BY DEF ClaimInv, TypeOK
<1>2. Covered(farm', users, tally_roundings)
  BY <1>1, CoveredFarm DEF ClaimInv
<1>3. EarnedByAll(farm', users)
  BY <1>1, GrowthKeepsEarned DEF ClaimInv, EarnedByAll
<1> QED BY <1>2, <1>3 DEF KeepsClaims

(* One that leaves the farm's claims alone. *)
LEMMA FarmCoversClaims ==
  ASSUME ClaimInv, farm' \in FarmAccount, RewardsGrow(farm, farm'), FarmCovers(farm, farm'),
         UNCHANGED <<users, tally_roundings>>
  PROVE  KeepsClaims
<1>1. RewardsUnset(farm')
  BY DEF ClaimInv, Covered, RewardsUnset, FarmCovers, InitialisedRewards
<1> QED BY <1>1, FarmStepClaims DEF FarmCovers

(* The instructions of a user on the user's own account. *)
LEMMA UserInstructionClaims ==
  ASSUME ClaimInv, NEW u \in Users,
         \/ HandleInitializeUser(u)
         \/ HandleRefreshUserState(u)
         \/ \E amount \in StakeAmounts : HandleStake(u, amount)
         \/ \E shares \in UnstakeShares : HandleUnstake(u, shares)
         \/ HandleWithdrawUnstakedDeposits(u)
         \/ \E stake \in DelegatedStakes : HandleSetStakeDelegated(u, stake)
  PROVE  KeepsClaims
<1>1. /\ TypeOK /\ Of(u) \in Accounts /\ env \in Environment /\ Of(u).farm = farm /\ now \in Nat
      /\ Of(u).user = users[u] /\ users[u] \in UserAccount /\ farm \in FarmAccount
      /\ RewardsUnset(Of(u).farm)
  BY OfTypes DEF ClaimInv, TypeOK, Covered
<1>2. CASE HandleInitializeUser(u)
  <2> DEFINE user == InitializeUser(users[u], now)
             t == [farm |-> farm, user |-> user]
  <2>1. /\ user \in UserAccount /\ user.rewards_tally = users[u].rewards_tally
        /\ user.active_stake = users[u].active_stake
        /\ user.rewards_issued_unclaimed = users[u].rewards_issued_unclaimed
    BY <1>1 DEF InitializeUser, UserAccount
  <2>2. users' = [users EXCEPT ![u] = user] /\ farm' = farm /\ UNCHANGED tally_roundings
    BY <1>2 DEF HandleInitializeUser, history
  <2> HIDE DEF user
  <2>3. t \in Accounts /\ Becomes(u, t) /\ t.farm = farm /\ t.user = user
    BY <1>1, <2>1, <2>2 DEF Accounts, Becomes
  <2> HIDE DEF t
  <2>4. RewardsGrow(farm, t.farm) /\ FarmCovers(farm, t.farm)
    BY <1>1, <2>3, SameRewardsGrow, SameClaimsCover
  <2>5. Covers(Of(u), t, 0) /\ KeepsEarned(Of(u), t)
    BY <1>1, <2>1, <2>3, <2>4, FarmCoversCovers, EarnedLeftAlone
  <2> QED BY <2>2, <2>3, <2>4, <2>5, ExactStepClaims
<1>3. CASE HandleRefreshUserState(u)
  <2> DEFINE t == UserRefreshState(Of(u), env)
  <2>1. UserRefreshStateOk(Of(u), env) /\ Becomes(u, t) /\ CountRoundings(u)
    BY <1>3 DEF HandleRefreshUserState
  <2>2. /\ t \in Accounts /\ Rounded(Of(u), t, 1) /\ RewardsGrow(farm, t.farm)
    BY <1>1, <2>1, UserRefreshStateBooks, UserRefreshStateRounded, UserRefreshStateTally
    DEF KeepsTally
  <2>3. Delegated => KeepsEarned(Of(u), t)
    BY <1>1, <2>1, RefreshRewardsEarned DEF UserRefreshState, UserRefreshStateOk
  <2> HIDE DEF t
  <2>4. 1 \in 1 .. 2
    OBVIOUS
  <2> QED BY <2>1, <2>2, <2>3, <2>4, RoundedStepClaims
<1>4. ASSUME NEW amount \in StakeAmounts, HandleStake(u, amount) PROVE KeepsClaims
  <2> DEFINE tokens == StakedTokens(u, amount)
             t == Stake(Of(u), tokens, env)
  <2>1. StakeOk(Of(u), tokens, env) /\ Becomes(u, t) /\ CountRoundings(u) /\ ~Delegated
    BY <1>4 DEF HandleStake
  <2>2. tokens \in Nat
    BY <1>1, StakedTokensNat
  <2> HIDE DEF tokens
  <2>3. t \in Accounts /\ Rounded(Of(u), t, 2) /\ RewardsGrow(farm, t.farm)
    BY <1>1, <2>1, <2>2, StakeBooks, StakeRounded, StakeTally DEF KeepsTally
  <2> HIDE DEF t
  <2>4. 2 \in 1 .. 2
    OBVIOUS
  <2> QED BY <2>1, <2>3, <2>4, RoundedStepClaims
<1>5. ASSUME NEW shares \in UnstakeShares, HandleUnstake(u, shares) PROVE KeepsClaims
  <2> DEFINE t == Unstake(Of(u), shares, env)
  <2>1. /\ UnstakeOk(Of(u), shares, env) /\ Becomes(u, t) /\ ~Delegated
        /\ UNCHANGED tally_roundings
    BY <1>5 DEF HandleUnstake, history
  <2>2. shares \in Nat
    BY FarmAssumption
  <2>3. t \in Accounts /\ Covers(Of(u), t, 0) /\ RewardsGrow(farm, t.farm)
    BY <1>1, <2>1, <2>2, UnstakeBooks, UnstakeCovers, UnstakeTally DEF KeepsTally
  <2> HIDE DEF t
  <2> QED BY <2>1, <2>3, ExactStepClaims
<1>6. CASE HandleWithdrawUnstakedDeposits(u)
  <2> DEFINE t == WithdrawUnstakedDeposits(Of(u))
  <2>1. /\ WithdrawUnstakedDepositsOk(Of(u), now) /\ Becomes(u, t) /\ ~Delegated
        /\ UNCHANGED tally_roundings
    BY <1>6 DEF HandleWithdrawUnstakedDeposits, history
  <2>2. t \in Accounts /\ Covers(Of(u), t, 0) /\ RewardsGrow(farm, t.farm)
    BY <1>1, <2>1, WithdrawUnstakedDepositsBooks, WithdrawUnstakedDepositsCovers,
       WithdrawUnstakedDepositsTally DEF KeepsTally
  <2> HIDE DEF t
  <2> QED BY <2>1, <2>2, ExactStepClaims
<1>7. ASSUME NEW stake \in DelegatedStakes, HandleSetStakeDelegated(u, stake) PROVE KeepsClaims
  <2> DEFINE t == SetStake(Of(u), stake, env)
  <2>1. /\ Delegated /\ SetStakeOk(Of(u), stake, env) /\ Becomes(u, t)
        /\ UNCHANGED tally_roundings
    BY <1>7 DEF HandleSetStakeDelegated, history
  <2>2. stake \in Nat
    BY FarmAssumption
  <2>3. TallyEarned(Of(u).farm, Of(u).user)
    BY <1>1, <2>1 DEF ClaimInv, EarnedByAll
  <2>4. /\ t \in Accounts /\ Covers(Of(u), t, 0) /\ KeepsEarned(Of(u), t)
        /\ RewardsGrow(farm, t.farm)
    BY <1>1, <2>1, <2>2, <2>3, SetStakeTypes, SetStakeCovers DEF KeepsEarned
  <2> HIDE DEF t
  <2> QED BY <2>1, <2>4, ExactStepClaims
<1> QED BY <1>2, <1>3, <1>4, <1>5, <1>6, <1>7

(* transfer_ownership: the tallies of two users change, and only the new     *)
(* owner's is rounded.                                                       *)
LEMMA TransferOwnershipClaims ==
  ASSUME ClaimInv, NEW old \in Users, NEW new \in Users, HandleTransferOwnership(old, new)
  PROVE  KeepsClaims
<1> DEFINE s == Of(old)
           shares == users[old].active_stake
           out == TransferUnstaked(old)
           paid == TransferWithdrawn(old)
           amount == TransferredAmount(old)
           heir == [farm |-> paid.farm, user |-> Heir(new)]
           moved == Stake(heir, amount, env)
           mid == [users EXCEPT ![old] = paid.user]
           rounds == farm.num_reward_tokens > 0
                       /\ moved.user.active_stake > users[new].active_stake
           n == IF rounds THEN 2 ELSE 0
<1>1. /\ TypeOK /\ now \in Nat /\ farm \in FarmAccount /\ users \in [Users -> UserAccount]
      /\ tally_roundings \in Nat /\ Covered(farm, users, tally_roundings)
  BY DEF ClaimInv, TypeOK
<1>2. s \in Accounts /\ env \in Environment /\ s.farm = farm /\ s.user = users[old]
  BY <1>1, OfTypes
<1>3. /\ old # new /\ ~Delegated
      /\ UnstakeOk(s, shares, env)
      /\ WithdrawUnstakedDepositsOk(out, now)
      /\ StakeOk(heir, amount, env)
      /\ farm' = moved.farm
      /\ users' = [users EXCEPT ![old] = paid.user, ![new] = moved.user]
      /\ CountRoundings(new)
  BY DEF HandleTransferOwnership
<1>4. /\ out = Unstake(s, shares, env)
      /\ paid = WithdrawUnstakedDeposits(out) /\ amount = AmountToWithdraw(out)
  BY DEF TransferUnstaked, TransferWithdrawn, TransferredAmount
<1>5. shares \in Nat /\ RewardsUnset(s.farm)
  BY <1>1, <1>2 DEF UserAccount, Covered
<1>6. /\ Heir(new) \in UserAccount
      /\ Heir(new).rewards_tally = users[new].rewards_tally
      /\ Heir(new).rewards_issued_unclaimed = users[new].rewards_issued_unclaimed
      /\ Heir(new).active_stake = users[new].active_stake
  BY <1>1 DEF Heir, InitializeUser, UserAccount
<1> HIDE DEF s, shares, out, paid, amount
<1>7. out \in Accounts /\ Covers(s, out, 0)
  BY <1>2, <1>3, <1>4, <1>5, UnstakeBooks, UnstakeCovers
<1>8. paid \in Accounts /\ amount \in Nat /\ Covers(out, paid, 0)
  BY <1>1, <1>3, <1>4, <1>7, WithdrawUnstakedDepositsBooks, WithdrawUnstakedDepositsCovers
<1>9. Covers(s, paid, 0)
  <2>1. Covers(s, paid, 0 + 0)
    BY <1>2, <1>7, <1>8, CoversTransitive
  <2> QED BY <2>1
<1>10. heir \in Accounts /\ heir.farm = paid.farm /\ heir.user = Heir(new)
  BY <1>6, <1>8 DEF Accounts
<1> HIDE DEF heir
<1>11. RewardsUnset(heir.farm)
  BY <1>5, <1>9, <1>10, StillUnset
<1>12. moved \in Accounts /\ Rounded(heir, moved, 2)
  BY <1>2, <1>3, <1>8, <1>10, <1>11, StakeBooks, StakeRounded
<1> HIDE DEF moved
<1>13. paid.user \in UserAccount /\ moved.user \in UserAccount
  BY <1>8, <1>12 DEF Accounts
<1>14. /\ mid \in [Users -> UserAccount] /\ mid[new] = users[new]
       /\ users' = [mid EXCEPT ![new] = moved.user] /\ users'[new] = moved.user
  BY <1>1, <1>3, <1>13
<1>15. Covered(paid.farm, mid, tally_roundings + 0)
  <2>1. /\ users[old].rewards_tally = s.user.rewards_tally
        /\ users[old].rewards_issued_unclaimed = s.user.rewards_issued_unclaimed
        /\ Covered(s.farm, users, tally_roundings)
    BY <1>1, <1>2
  <2> QED BY <1>1, <1>2, <1>8, <1>9, <2>1, CoveredStep
<1> HIDE DEF mid
<1>16. Covers(heir, moved, n)
  <2>1. heir.farm.num_reward_tokens = farm.num_reward_tokens
    BY <1>2, <1>9, <1>10 DEF Covers
  <2>2. Covers(heir, moved, IF rounds THEN 2 ELSE 0)
    BY <1>6, <1>10, <1>12, <2>1 DEF Rounded
  <2> QED BY <2>2
<1>17. n \in Nat /\ tally_roundings + 0 = tally_roundings
  BY <1>1
<1>18. tally_roundings' = tally_roundings + n
  <2>1. tally_roundings' = IF rounds THEN tally_roundings + 2 ELSE tally_roundings
    <3> HIDE DEF mid
    <3> QED BY <1>3, <1>14 DEF CountRoundings
  <2> HIDE DEF rounds
  <2> QED BY <1>17, <2>1
<1> HIDE DEF n
<1>19. Covered(moved.farm, users', tally_roundings')
  <2>1. /\ mid[new].rewards_tally = heir.user.rewards_tally
        /\ mid[new].rewards_issued_unclaimed = heir.user.rewards_issued_unclaimed
        /\ Covered(heir.farm, mid, tally_roundings)
    BY <1>6, <1>10, <1>14, <1>15, <1>17
  <2>2. Covered(moved.farm, [mid EXCEPT ![new] = moved.user], tally_roundings + n)
    BY <1>1, <1>10, <1>12, <1>14, <1>16, <1>17, <2>1, CoveredStep
  <2> QED BY <1>14, <1>18, <2>2
<1> QED BY <1>3, <1>19 DEF KeepsClaims, EarnedByAll

(* The instructions on the farm alone. *)
LEMMA FarmInstructionClaims ==
  ASSUME ClaimInv, TypeOK', FarmInstruction
  PROVE  KeepsClaims
<1>1. /\ farm \in FarmAccount /\ farm' \in FarmAccount /\ env \in Environment /\ now \in Nat
      /\ RewardsUnset(farm)
  BY DEF ClaimInv, TypeOK, env, Environment, Covered
<1>2. CASE HandleRefreshFarm
  <2>1. /\ RefreshGlobalRewardsOk(farm, env) /\ farm' = RefreshGlobalRewards(farm, env)
        /\ UNCHANGED <<users, tally_roundings>>
    BY <1>2 DEF HandleRefreshFarm, history
  <2>2. RewardsGrow(farm, farm') /\ FarmCovers(farm, farm')
    BY <1>1, <2>1, RefreshGlobalRewardsGrow, RefreshGlobalRewardsCover
  <2> QED BY <1>1, <2>1, <2>2, FarmCoversClaims
<1>3. CASE HandleInitializeReward
  <2>1. /\ farm.num_reward_tokens < MAX_REWARDS_TOKENS /\ farm' = InitializeReward(farm, now)
        /\ UNCHANGED <<users, tally_roundings>>
    BY <1>3 DEF HandleInitializeReward, history
  <2>2. /\ RewardsUnset(farm')
        /\ \A i \in RewardIndex : FarmSlack(farm', i) = FarmSlack(farm, i)
    BY <1>1, <2>1, InitializeRewardCovers
  <2>3. \A i \in RewardIndex : FarmSlack(farm, i) \in Int
    <3>1. NewUser \in UserAccount
      BY DEF NewUser, UserAccount
    <3> QED BY <1>1, <3>1, SlackInt
  <2>4. RewardsGrow(farm, farm')
    BY <1>1, <2>1, InitializeRewardGrows
  <2>5. \A i \in RewardIndex : FarmSlack(farm, i) =< FarmSlack(farm', i)
    BY <2>2, <2>3
  <2> QED BY <1>1, <2>1, <2>2, <2>4, <2>5, FarmStepClaims
<1>4. CASE \/ HandleWithdrawSlashedAmount
           \/ \E config \in FarmConfigs : HandleUpdateFarmConfig(config)
           \/ \E amount \in VaultDeposits : HandleDepositToFarmVault(amount)
           \/ \E amount \in VaultWithdrawals : HandleWithdrawFromFarmVault(amount)
  <2>1. /\ farm'.rewards = farm.rewards /\ farm'.num_reward_tokens = farm.num_reward_tokens
        /\ farm'.active.stake = farm.active.stake
    <3>1. farm.active \in Pool
      BY <1>1, FarmFields
    <3>2. ASSUME NEW amount \in VaultDeposits, HandleDepositToFarmVault(amount)
          PROVE  /\ farm'.rewards = farm.rewards
                 /\ farm'.num_reward_tokens = farm.num_reward_tokens
                 /\ farm'.active.stake = farm.active.stake
      BY <1>1, <3>1, <3>2 DEF HandleDepositToFarmVault, IncreaseTotalAmount, FarmAccount, Pool
    <3>3. ASSUME NEW amount \in VaultWithdrawals, HandleWithdrawFromFarmVault(amount)
          PROVE  /\ farm'.rewards = farm.rewards
                 /\ farm'.num_reward_tokens = farm.num_reward_tokens
                 /\ farm'.active.stake = farm.active.stake
      <4>1. farm' = WithdrawFarm(farm, amount)
        BY <3>3 DEF HandleWithdrawFromFarmVault
      <4> QED BY <1>1, <3>1, <4>1 DEF WithdrawFarm, FarmAccount, Pool
    <3>4. ASSUME \/ HandleWithdrawSlashedAmount
                 \/ \E config \in FarmConfigs : HandleUpdateFarmConfig(config)
          PROVE  /\ farm'.rewards = farm.rewards
                 /\ farm'.num_reward_tokens = farm.num_reward_tokens
                 /\ farm'.active.stake = farm.active.stake
      BY <1>1, <3>4 DEF HandleWithdrawSlashedAmount, HandleUpdateFarmConfig, FarmAccount
    <3> QED BY <1>4, <3>2, <3>3, <3>4
  <2>2. UNCHANGED <<users, tally_roundings>>
    BY <1>4 DEF HandleWithdrawSlashedAmount, HandleUpdateFarmConfig, HandleDepositToFarmVault,
                HandleWithdrawFromFarmVault, history
  <2>3. RewardsGrow(farm, farm') /\ FarmCovers(farm, farm')
    BY <1>1, <2>1, SameRewardsGrow, SameClaimsCover
  <2> QED BY <1>1, <2>2, <2>3, FarmCoversClaims
<1> QED BY <1>2, <1>3, <1>4 DEF FarmInstruction

(* The instructions on one reward. *)
LEMMA RewardInstructionClaims ==
  ASSUME ClaimInv, TypeOK', NEW i \in RewardIndex, RewardInstruction(i)
  PROVE  KeepsClaims
<1>1. /\ TypeOK /\ farm \in FarmAccount /\ farm' \in FarmAccount /\ env \in Environment
  BY DEF ClaimInv, TypeOK, env, Environment
<1>2. ASSUME NEW u \in Users, HandleHarvestReward(u, i) PROVE KeepsClaims
  <2> DEFINE t == Harvest(Of(u), i, env)
  <2>1. HarvestOk(Of(u), i, env) /\ Becomes(u, t) /\ UNCHANGED tally_roundings
    BY <1>2 DEF HandleHarvestReward, history
  <2>2. Of(u) \in Accounts /\ Of(u).farm = farm
    BY <1>1, OfTypes
  <2>3. /\ t \in Accounts /\ Covers(Of(u), t, 0) /\ KeepsEarned(Of(u), t)
        /\ RewardsGrow(farm, t.farm)
    BY <1>1, <2>1, <2>2, HarvestPromises, HarvestCovers, HarvestEarned DEF KeepsEarned
  <2> HIDE DEF t
  <2> QED BY <2>1, <2>3, ExactStepClaims
<1>3. ASSUME NEW u \in Users, NEW amount \in CreditAmounts, HandleRewardUserOnce(u, i, amount)
      PROVE  KeepsClaims
  <2> DEFINE t == RewardUserOnce(Of(u), i, amount)
  <2>1. Becomes(u, t) /\ amount \in Nat /\ UNCHANGED tally_roundings
    BY <1>3, FarmAssumption DEF HandleRewardUserOnce
  <2>2. Of(u) \in Accounts /\ Of(u).farm = farm
    BY <1>1, OfTypes
  <2>3. /\ t \in Accounts /\ Covers(Of(u), t, 0) /\ KeepsEarned(Of(u), t)
        /\ RewardsGrow(farm, t.farm)
    BY <2>1, <2>2, RewardUserOncePromises, RewardUserOnceCovers, RewardUserOnceEarned
    DEF KeepsEarned
  <2> HIDE DEF t
  <2> QED BY <2>1, <2>3, ExactStepClaims
<1>4. ASSUME NEW amount \in RewardAmounts, HandleAddReward(i, amount) PROVE KeepsClaims
  <2>1. /\ RewardsGrow(farm, farm') /\ FarmCovers(farm, farm')
        /\ UNCHANGED <<users, tally_roundings>>
    BY <1>1, <1>4, FarmAssumption, RewardOperationsGrow, RewardOperationsCover
    DEF HandleAddReward, history
  <2> QED BY <1>1, <2>1, FarmCoversClaims
<1>5. ASSUME NEW amount \in RewardAmounts, HandleWithdrawReward(i, amount) PROVE KeepsClaims
  <2>1. /\ RewardsGrow(farm, farm') /\ FarmCovers(farm, farm')
        /\ UNCHANGED <<users, tally_roundings>>
    BY <1>1, <1>5, FarmAssumption, RewardOperationsGrow, RewardOperationsCover
    DEF HandleWithdrawReward, history
  <2> QED BY <1>1, <2>1, FarmCoversClaims
<1>6. ASSUME NEW config \in RewardConfigs, HandleUpdateRewardConfig(i, config)
      PROVE  KeepsClaims
  <2>1. /\ RewardsGrow(farm, farm') /\ FarmCovers(farm, farm')
        /\ UNCHANGED <<users, tally_roundings>>
    BY <1>1, <1>6, FarmAssumption, RewardOperationsGrow, RewardOperationsCover
    DEF HandleUpdateRewardConfig, history
  <2> QED BY <1>1, <2>1, FarmCoversClaims
<1>7. ASSUME NEW amount \in RewardAmounts, HandleWithdrawTreasury(i, amount)
      PROVE  KeepsClaims
  <2>1. UNCHANGED <<farm, users, tally_roundings>>
    BY <1>7 DEF HandleWithdrawTreasury, history
  <2> QED BY <1>1, <2>1, SameRewardsGrow, SameClaimsCover, FarmCoversClaims
<1> QED BY <1>2, <1>3, <1>4, <1>5, <1>6, <1>7 DEF RewardInstruction

(* A new farm has issued nothing, and new users have earned nothing. *)
LEMMA InitClaims == Init => ClaimInv
<1> SUFFICES ASSUME Init PROVE ClaimInv
  OBVIOUS
<1>1. TypeOK
  BY InitCustody DEF Custody
<1>2. farm \in FarmAccount /\ tally_roundings = 0
  BY <1>1 DEF TypeOK, Init
<1>3. /\ farm.active = EmptyPool
      /\ \A i \in RewardIndex : /\ farm.rewards[i].rewards_issued_unclaimed = 0
                                /\ farm.rewards[i].reward_per_share_scaled = 0
  <2>1. farm \in InitFarms
    BY DEF Init
  <2> HIDE DEF Init
  <2> QED BY <2>1, FarmAssumption, Zenon
<1>4. ASSUME NEW u \in Users, NEW i \in RewardIndex
      PROVE  /\ users[u].rewards_tally[i] = 0 /\ users[u].rewards_issued_unclaimed[i] = 0
             /\ users[u].active_stake = 0
  BY DEF Init, NewUser
<1>5. RewardsUnset(farm)
  BY <1>3 DEF RewardsUnset
<1>6. ASSUME NEW i \in RewardIndex
      PROVE  0 =< FarmSlack(farm, i) + UserSlacks(users, i) + StakeScale * 0
  <2> DEFINE a == [u \in Users |-> UserSlack(users[u], i)]
             c == WAD * StakeScale
  <2>1. c \in Nat /\ StakeScale * 0 = 0 /\ WAD * StakeScale * 0 = 0
    <3>1. WAD \in Nat /\ StakeScale \in Nat
      BY MathAssumption, StakeScalePositive
    <3>2. c \in Nat /\ StakeScale * 0 = 0
      BY <3>1
    <3> HIDE DEF c
    <3>3. c * 0 = 0
      BY <3>2
    <3> QED BY <3>2, <3>3 DEF c
  <2>2. FarmSlack(farm, i) = 0
    <3>1. FarmSlack(farm, i) = WAD * StakeScale * 0 - 0 * 0
      BY <1>3 DEF FarmSlack, EmptyPool
    <3> QED BY <2>1, <3>1
  <2>3. \A u \in Users : a[u] = 0
    <3> SUFFICES ASSUME NEW u \in Users PROVE UserSlack(users[u], i) = 0
      OBVIOUS
    <3>1. UserSlack(users[u], i) = StakeScale * 0 - WAD * StakeScale * 0
      BY <1>4 DEF UserSlack
    <3> QED BY <2>1, <3>1
  <2>4. UserSlacks(users, i) = SumFunctionOnSet(a, Users)
    BY DEF UserSlacks, SumFunction
  <2> HIDE DEF a
  <2>5. UserSlacks(users, i) = 0
    BY <2>3, <2>4, FarmAssumption, SumOfZeros
  <2> QED BY <2>1, <2>2, <2>5
<1>7. EarnedByAll(farm, users)
  <2> SUFFICES ASSUME NEW u \in Users, NEW i \in RewardIndex
               PROVE  users[u].rewards_tally[i] =< RewardValue(farm, users[u].active_stake, i)
    BY DEF EarnedByAll, TallyEarned
  <2>1. RewardValue(farm, 0, i) \in Nat
    BY <1>2, RewardValueNat
  <2> QED BY <1>4, <2>1
<1> QED BY <1>1, <1>2, <1>5, <1>6, <1>7 DEF ClaimInv, Covered

(* Whatever happens keeps the rewards' books solvent. *)
LEMMA NextClaims == ClaimInv /\ TypeOK' /\ [Next]_vars => ClaimInv'
<1> SUFFICES ASSUME ClaimInv, TypeOK', [Next]_vars PROVE ClaimInv'
  OBVIOUS
<1>1. ASSUME NEW u \in Users, UserInstruction(u) PROVE KeepsClaims
  BY <1>1, UserInstructionClaims, TransferOwnershipClaims DEF UserInstruction
<1>2. ASSUME FarmInstruction PROVE KeepsClaims
  BY <1>2, FarmInstructionClaims
<1>3. ASSUME NEW i \in RewardIndex, RewardInstruction(i) PROVE KeepsClaims
  BY <1>3, RewardInstructionClaims
<1>4. ASSUME GlobalInstruction \/ Tick \/ UpdatePrice \/ UNCHANGED vars PROVE KeepsClaims
  <2>1. UNCHANGED <<farm, users, tally_roundings>>
    BY <1>4 DEF GlobalInstruction, HandleUpdateGlobalConfig, Tick, UpdatePrice, vars, history
  <2>2. farm \in FarmAccount
    BY DEF ClaimInv, TypeOK
  <2> QED BY <2>1, <2>2, SameRewardsGrow, SameClaimsCover, FarmCoversClaims
<1>5. KeepsClaims
  BY <1>1, <1>2, <1>3, <1>4 DEF Next
<1>6. Covered(farm, users, tally_roundings)' /\ EarnedByAll(farm, users)'
  BY <1>5 DEF KeepsClaims, Covered, EarnedByAll, RewardsUnset, InitialisedRewards, FarmSlack,
              UserSlacks, UserSlack, TallyEarned, RewardValue
<1> QED BY <1>6 DEF ClaimInv

(* Solvency in the shares' scale is solvency in tokens: what the shares of   *)
(* the users have earned is at most what the pool's shares have.             *)
LEMMA CoveredClaims ==
  ASSUME TypeOK, Match(farm, users), Covered(farm, users, tally_roundings)
  PROVE  ClaimsWithinIssued
<1> SUFFICES ASSUME NEW i \in RewardIndex
             PROVE  WAD * SumFunction([u \in Users |-> users[u].rewards_issued_unclaimed[i]])
                      + SumFunction([u \in Users |-> Entitlement(Of(u), i)])
                    =< WAD * farm.rewards[i].rewards_issued_unclaimed
                         + SumFunction([u \in Users |-> users[u].rewards_tally[i]])
                         + tally_roundings
  BY DEF ClaimsWithinIssued
<1> DEFINE counted == [u \in Users |-> users[u].rewards_issued_unclaimed[i]]
           earned == [u \in Users |-> Entitlement(Of(u), i)]
           tally == [u \in Users |-> users[u].rewards_tally[i]]
           shares == [u \in Users |-> users[u].active_stake]
           slack == [u \in Users |-> UserSlack(users[u], i)]
           r == farm.rewards[i].reward_per_share_scaled
           issued == farm.rewards[i].rewards_issued_unclaimed
           k == StakeScale
           c == WAD * StakeScale
           n == tally_roundings
           C == SumFunctionOnSet(counted, Users)
           E == SumFunctionOnSet(earned, Users)
           T == SumFunctionOnSet(tally, Users)
           S == SumFunctionOnSet(shares, Users)
           L == SumFunctionOnSet(slack, Users)
<1>1. /\ farm \in FarmAccount /\ users \in [Users -> UserAccount] /\ IsFiniteSet(Users)
      /\ r \in Nat /\ issued \in Nat /\ n \in Nat
  BY FarmAssumption, RewardFields DEF TypeOK
<1>2. WAD \in Nat /\ k \in Nat /\ k > 0 /\ c \in Nat
  <2>1. WAD \in Nat /\ k \in Nat /\ k > 0
    BY MathAssumption, StakeScalePositive
  <2> QED BY <2>1
<1>3. ASSUME NEW u \in Users
      PROVE  /\ counted[u] \in Int /\ tally[u] \in Int /\ shares[u] \in Int
             /\ earned[u] \in Int /\ slack[u] \in Int
             /\ k * earned[u] =< r * shares[u] + 0 * shares[u]
             /\ 1 * slack[u] =< k * tally[u] + (-c) * counted[u]
  <2>1. /\ users[u].rewards_issued_unclaimed[i] \in Nat /\ users[u].rewards_tally[i] \in Nat
        /\ users[u].active_stake \in Nat /\ Of(u).farm = farm /\ Of(u).user = users[u]
    BY <1>1, OfTypes DEF UserAccount
  <2>2. counted[u] \in Nat /\ tally[u] \in Nat /\ shares[u] \in Nat
    BY <2>1
  <2>3. slack[u] = k * tally[u] - c * counted[u]
    BY DEF UserSlack
  <2>4. earned[u] = (shares[u] * r) \div k
    BY <2>1 DEF Entitlement, RewardValue, MulDiv
  <2> HIDE DEF slack, earned, counted, tally, shares, k, c, r
  <2>5. shares[u] * r \in Nat /\ k * tally[u] \in Nat /\ c * counted[u] \in Nat
    BY <1>1, <1>2, <2>2
  <2>6. earned[u] \in Nat /\ k * earned[u] =< shares[u] * r
    <3> DEFINE a == shares[u] * r
    <3>1. a \in Nat /\ earned[u] = a \div k
      BY <2>4, <2>5
    <3> HIDE DEF a
    <3>2. a \div k \in Nat /\ k * (a \div k) =< a
      BY <1>2, <3>1
    <3> QED BY <3>1, <3>2 DEF a
  <2>7. shares[u] * r = r * shares[u] + 0 * shares[u]
    BY <1>1, <2>2
  <2>8. (-c) * counted[u] = -(c * counted[u])
    BY <1>2, <2>2
  <2>9. slack[u] \in Int /\ 1 * slack[u] = slack[u]
    BY <2>3, <2>5
  <2>10. 1 * slack[u] =< k * tally[u] + (-c) * counted[u]
    BY <2>3, <2>5, <2>8, <2>9
  <2> QED BY <2>2, <2>6, <2>7, <2>9, <2>10
<1>4. farm.active.stake = S
  BY DEF Match, SumFunction
<1>5. 0 =< (c * issued - farm.active.stake * r) + L + k * n
  BY DEF Covered, FarmSlack, UserSlacks, SumFunction
<1>6. /\ SumFunction([u \in Users |-> users[u].rewards_issued_unclaimed[i]]) = C
      /\ SumFunction([u \in Users |-> Entitlement(Of(u), i)]) = E
      /\ SumFunction([u \in Users |-> users[u].rewards_tally[i]]) = T
  BY DEF SumFunction
<1> HIDE DEF counted, earned, tally, shares, slack, r, issued, k, c, n
<1>7. C \in Int /\ E \in Int /\ T \in Int /\ S \in Int /\ L \in Int
  BY <1>1, <1>3, SumInt
<1>8. k * E =< r * S + 0 * S
  <2>1. k \in Int /\ r \in Int /\ 0 \in Int
    BY <1>1, <1>2
  <2> QED BY <1>1, <1>3, <2>1, SumLinear
<1>9. 1 * L =< k * T + (-c) * C
  <2>1. 1 \in Int /\ k \in Int /\ -c \in Int
    BY <1>2
  <2> QED BY <1>1, <1>3, <2>1, SumLinear
<1> HIDE DEF C, E, T, S, L
<1>10. k * (WAD * C + E) =< k * (WAD * issued + T + n)
  <2>1. /\ k * (WAD * C + E) = c * C + k * E
        /\ k * (WAD * issued + T + n) = c * issued + k * T + k * n
    <3>1. /\ k * (WAD * C + E) = k * (WAD * C) + k * E
          /\ k * (WAD * issued + T + n) = k * (WAD * issued) + k * T + k * n
      <4>1. WAD * C \in Int /\ WAD * issued \in Int
        BY <1>1, <1>2, <1>7
      <4> QED BY <1>1, <1>2, <1>7, <4>1
    <3>2. k * (WAD * C) = c * C /\ k * (WAD * issued) = c * issued
      BY <1>1, <1>2, <1>7 DEF c, k
    <3> QED BY <3>1, <3>2
  <2>2. /\ (-c) * C = -(c * C) /\ r * S = S * r /\ 0 * S = 0 /\ 1 * L = L
    BY <1>1, <1>2, <1>7
  <2>3. /\ c * C \in Int /\ k * E \in Int /\ c * issued \in Int /\ k * T \in Int
        /\ k * n \in Int /\ S * r \in Int
    BY <1>1, <1>2, <1>7
  <2>4. 0 =< (c * issued - S * r) + L + k * n
    BY <1>4, <1>5
  <2>5. k * E =< S * r /\ L =< k * T - c * C
    BY <1>7, <1>8, <1>9, <2>2, <2>3
  <2> QED BY <1>7, <2>1, <2>3, <2>4, <2>5
<1>11. WAD * C + E =< WAD * issued + T + n
  <2> DEFINE a == WAD * C + E
             b == WAD * issued + T + n
  <2>1. a \in Int /\ b \in Int /\ k * a =< k * b
    <3>1. WAD * C \in Int /\ WAD * issued \in Int
      BY <1>1, <1>2, <1>7
    <3> QED BY <1>1, <1>7, <1>10, <3>1
  <2> HIDE DEF a, b
  <2>2. ASSUME b < a PROVE FALSE
    <3>1. 1 =< a - b /\ a - b \in Nat /\ a = b + (a - b)
      BY <2>1, <2>2
    <3>2. k * a = k * b + k * (a - b)
      BY <1>2, <2>1
    <3>3. k * (a - b) > 0
      BY <1>2, <3>1
    <3>4. k * a \in Int /\ k * b \in Int /\ k * (a - b) \in Int
      BY <1>2, <2>1
    <3> QED BY <2>1, <3>2, <3>3, <3>4
  <2>3. a =< b
    BY <2>1, <2>2
  <2> QED BY <2>3 DEF a, b
<1> QED BY <1>6, <1>11 DEF issued, n

(* What all users together can claim of a reward, counted or not, was        *)
(* issued, up to one unit of the last decimal for each rounding of a tally:  *)
(* for every number of users, and whatever they stake, unstake, transfer,    *)
(* claim and are credited, in whatever order.                                *)
THEOREM ClaimsIssued == Spec => []ClaimsWithinIssued
<1>1. SharesInv /\ ClaimInv => ClaimsWithinIssued
  BY CoveredClaims DEF SharesInv, ClaimInv
<1>2. Spec => []ClaimInv
  BY InitClaims, NextClaims, TypeCorrect, PTL DEF Spec
<1> QED BY <1>1, <1>2, AlwaysShares, PTL

=============================================================================
