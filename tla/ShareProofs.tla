---------------------------- MODULE ShareProofs -----------------------------
(* The shares of all the users: they are the shares of the pools, what one   *)
(* user does never takes from the value of the shares of another, and they   *)
(* and all the other counters fit the machine integers that hold them.       *)
EXTENDS FarmProofs

-----------------------------------------------------------------------------
(* The shares of all the users: they are the shares of the pools, whoever    *)
(* deposits, leaves or hands over a stake, and what one user does never      *)
(* takes from the value of the shares of another.                            *)

(* The user who holds own shares of the pool and comes to hold more or fewer *)
(* gets what the pool issues and gives back what it takes in; the shares of  *)
(* the others are worth no less.                                             *)
FairTrade(pool, own, next, then) ==
  /\ next.stake - then = pool.stake - own
  /\ \A x \in Nat : x + own =< pool.stake => KeepsValue(x, pool, next)

Waiting(user) == user.pending_deposit_stake + user.pending_withdrawal_unstake

(* The operation from s to t is fair in both pools. *)
Fair(s, t) ==
  /\ FairTrade(s.farm.active, s.user.active_stake, t.farm.active, t.user.active_stake)
  /\ FairTrade(s.farm.pending, Waiting(s.user), t.farm.pending, Waiting(t.user))

-----------------------------------------------------------------------------
(* Trades with one pool *)

(* A quotient grows when the dividend grows by more than the divisor does. *)
LEMMA QuotientGrows ==
  ASSUME NEW a \in Nat, NEW b \in Nat, NEW d \in Nat \ {0}, NEW e \in Nat \ {0}, a * e =< b * d
  PROVE  a \div d =< b \div e
<1> DEFINE q == a \div d
           r == b \div e
<1>1. q \in Nat /\ q * d =< a /\ r \in Nat /\ b < (r + 1) * e
  OBVIOUS
<1> HIDE DEF q, r
<1>2. ASSUME q >= r + 1 PROVE FALSE
  <2>1. (r + 1) * e * d =< q * e * d
    <3>1. (r + 1) * e =< q * e /\ (r + 1) * e \in Nat /\ q * e \in Nat
      BY <1>1, <1>2
    <3> QED BY <3>1
  <2>2. q * d * e =< a * e
    <3>1. q * d \in Nat
      BY <1>1
    <3> QED BY <1>1, <3>1
  <2>3. b * d < (r + 1) * e * d
    <3>1. (r + 1) * e \in Nat
      BY <1>1
    <3> QED BY <1>1, <3>1
  <2>4. q * d * e = q * e * d
    BY <1>1
  <2>5. /\ (r + 1) * e * d \in Nat /\ q * e * d \in Nat /\ a * e \in Nat /\ b * d \in Nat
    BY <1>1
  <2> QED BY <2>1, <2>2, <2>3, <2>4, <2>5
<1>3. q =< r
  BY <1>1, <1>2
<1> QED BY <1>3 DEF q, r

(* What shares are worth in a pool that has shares. *)
LEMMA AmountForIn ==
  ASSUME NEW pool \in Pool, NEW x \in Nat, pool.stake # 0
  PROVE  AmountFor(x, pool) = (x * pool.amount) \div pool.stake
<1>1. pool.stake \in Nat \ {0} /\ pool.amount \in Nat
  BY DEF Pool
<1>2. CASE x = 0
  BY <1>1, <1>2 DEF AmountFor
<1>3. CASE x # 0
  BY <1>1, <1>3 DEF AmountFor, MulDiv
<1> QED BY <1>2, <1>3

(* Shares keep their value when the price of a share does not fall. *)
LEMMA PriceKeepsValue ==
  ASSUME NEW pool \in Pool, NEW next \in Pool, NEW x \in Nat,
         x =< pool.stake, x =< next.stake,
         x # 0 => x * pool.amount * next.stake =< x * next.amount * pool.stake
  PROVE  KeepsValue(x, pool, next)
<1>1. /\ pool.stake \in Nat /\ pool.amount \in Nat /\ next.stake \in Nat /\ next.amount \in Nat
  BY DEF Pool
<1>2. CASE x = 0
  BY <1>2 DEF KeepsValue, AmountFor
<1>3. CASE x # 0
  <2>1. pool.stake \in Nat \ {0} /\ next.stake \in Nat \ {0}
    BY <1>1, <1>3
  <2>2. x * pool.amount \in Nat /\ x * next.amount \in Nat
    BY <1>1
  <2>3. (x * pool.amount) \div pool.stake =< (x * next.amount) \div next.stake
    BY <1>3, <2>1, <2>2, QuotientGrows
  <2>4. /\ AmountFor(x, pool) = (x * pool.amount) \div pool.stake
        /\ AmountFor(x, next) = (x * next.amount) \div next.stake
    BY <2>1, AmountForIn
  <2>5. AmountFor(x, pool) \in Nat /\ AmountFor(x, next) \in Nat
    BY AmountForNat
  <2> QED BY <2>3, <2>4, <2>5 DEF KeepsValue
<1> QED BY <1>2, <1>3

(* A deposit buys at a price rounded in favour of the pool. *)
LEMMA AddAmountKeepsValue ==
  ASSUME NEW pool \in Pool, NEW amount \in Nat, NEW x \in Nat, x =< pool.stake,
         amount # 0 /\ pool.amount = 0 => pool.stake = 0
  PROVE  KeepsValue(x, pool, AddAmount(pool, amount))
<1> DEFINE S == pool.stake
           A == pool.amount
           m == SharesFor(amount, pool)
           next == AddAmount(pool, amount)
<1>1. S \in Nat /\ A \in Nat /\ m \in Nat /\ next \in Pool
  BY SharesForNat, AddAmountPool DEF Pool
<1>2. next.stake = S + m /\ next.amount = A + amount
  BY DEF AddAmount
<1>3. ASSUME x # 0 PROVE x * A * (S + m) =< x * (A + amount) * S
  <2>1. S # 0
    BY <1>1, <1>3
  <2>2. A * m =< amount * S
    <3>1. CASE amount = 0
      BY <1>1, <3>1 DEF SharesFor
    <3>2. CASE amount # 0
      <4>1. A \in Nat \ {0} /\ m = (S * amount) \div A
        BY <1>1, <2>1, <3>2 DEF SharesFor, MulDiv
      <4>2. S * amount \in Nat
        BY <1>1
      <4> HIDE DEF S, A, m
      <4>3. m * A =< S * amount
        BY <4>1, <4>2
      <4> QED BY <1>1, <4>1, <4>3
    <3> QED BY <3>1, <3>2
  <2> HIDE DEF S, A, m
  <2>3. A * S + A * m =< A * S + amount * S /\ A * S + A * m \in Nat /\ A * S + amount * S \in Nat
    BY <1>1, <2>2
  <2>4. x * (A * S + A * m) =< x * (A * S + amount * S)
    BY <2>3
  <2> QED BY <1>1, <2>4
<1>4. x =< next.stake
  BY <1>1, <1>2
<1> QED BY <1>1, <1>2, <1>3, <1>4, PriceKeepsValue

(* Shares that leave are paid at a price rounded in favour of the pool. *)
LEMMA RemoveSharesKeepsValue ==
  ASSUME NEW pool \in Pool, NEW y \in Nat, NEW x \in Nat, x + y =< pool.stake
  PROVE  KeepsValue(x, pool, RemoveShares(pool, y))
<1> DEFINE S == pool.stake
           A == pool.amount
           a == AmountFor(y, pool)
           next == RemoveShares(pool, y)
<1>1. S \in Nat /\ A \in Nat /\ RemoveSharesOk(pool, y)
  BY DEF Pool, RemoveSharesOk
<1>2. a \in 0 .. A /\ next \in Pool
  BY <1>1, AmountForBound, RemoveSharesPool
<1>3. next.stake = S - y /\ next.amount = A - a
  BY DEF RemoveShares
<1>4. ASSUME x # 0 PROVE x * A * (S - y) =< x * (A - a) * S
  <2>1. S \in Nat \ {0}
    BY <1>1, <1>4
  <2>2. a = (y * A) \div S /\ y * A \in Nat
    BY <1>1, <2>1, AmountForIn
  <2> HIDE DEF S, A, a
  <2>3. a * S =< y * A
    BY <2>1, <2>2
  <2>4. /\ A * S - A * y =< A * S - a * S
        /\ A * (S - y) = A * S - A * y /\ (A - a) * S = A * S - a * S
        /\ A * (S - y) \in Int /\ (A - a) * S \in Int
    BY <1>1, <1>2, <2>1, <2>3
  <2>5. A * (S - y) =< (A - a) * S
    BY <2>4
  <2>6. x * (A * (S - y)) =< x * ((A - a) * S)
    BY <2>4, <2>5
  <2> QED BY <1>1, <1>2, <2>6
<1>5. x =< next.stake /\ x =< pool.stake
  BY <1>1, <1>3
<1> QED BY <1>2, <1>3, <1>4, <1>5, PriceKeepsValue

(* No trade at all is fair. *)
LEMMA NoTrade ==
  ASSUME NEW pool \in Pool, NEW own \in Nat
  PROVE  FairTrade(pool, own, pool, own)
BY AmountForNat DEF FairTrade, KeepsValue

(* Depositing is fair. *)
LEMMA AddAmountFair ==
  ASSUME NEW pool \in Pool, NEW amount \in Nat, NEW own \in Nat, AddAmountOk(pool, amount)
  PROVE  FairTrade(pool, own, AddAmount(pool, amount), own + SharesFor(amount, pool))
<1>1. pool.stake \in Nat /\ SharesFor(amount, pool) \in Nat
  BY SharesForNat DEF Pool
<1>2. AddAmount(pool, amount).stake = pool.stake + SharesFor(amount, pool)
  BY DEF AddAmount
<1>3. ASSUME NEW x \in Nat, x + own =< pool.stake
      PROVE  KeepsValue(x, pool, AddAmount(pool, amount))
  <2>1. x =< pool.stake
    BY <1>1, <1>3
  <2> QED BY <2>1, AddAmountKeepsValue DEF AddAmountOk
<1> QED BY <1>1, <1>2, <1>3 DEF FairTrade

(* So is leaving with shares one has. *)
LEMMA RemoveSharesFair ==
  ASSUME NEW pool \in Pool, NEW own \in Nat, NEW shares \in Nat, shares =< own
  PROVE  FairTrade(pool, own, RemoveShares(pool, shares), own - shares)
<1>1. pool.stake \in Nat
  BY DEF Pool
<1>2. RemoveShares(pool, shares).stake = pool.stake - shares
  BY DEF RemoveShares
<1>3. ASSUME NEW x \in Nat, x + own =< pool.stake
      PROVE  KeepsValue(x, pool, RemoveShares(pool, shares))
  <2>1. x + shares =< pool.stake
    BY <1>1, <1>3
  <2> QED BY <2>1, RemoveSharesKeepsValue
<1> QED BY <1>1, <1>2, <1>3 DEF FairTrade

(* Fair trades one after the other are fair. *)
LEMMA FairTradeTransitive ==
  ASSUME NEW p \in Pool, NEW q \in Pool, NEW r \in Pool,
         NEW a \in Nat, NEW b \in Nat, NEW c \in Nat,
         FairTrade(p, a, q, b), FairTrade(q, b, r, c)
  PROVE  FairTrade(p, a, r, c)
<1>1. p.stake \in Nat /\ q.stake \in Nat /\ r.stake \in Nat
  BY DEF Pool
<1>2. q.stake - b = p.stake - a /\ r.stake - c = q.stake - b
  BY DEF FairTrade
<1>3. ASSUME NEW x \in Nat, x + a =< p.stake
      PROVE  KeepsValue(x, p, r)
  <2>1. x + b =< q.stake
    BY <1>1, <1>2, <1>3
  <2>2. KeepsValue(x, p, q) /\ KeepsValue(x, q, r)
    BY <1>3, <2>1 DEF FairTrade
  <2>3. AmountFor(x, p) \in Nat /\ AmountFor(x, q) \in Nat /\ AmountFor(x, r) \in Nat
    BY AmountForNat
  <2> QED BY <2>2, <2>3 DEF KeepsValue
<1> QED BY <1>1, <1>2, <1>3 DEF FairTrade

-----------------------------------------------------------------------------
(* The operations on the shares of one user *)

(* Operations one after the other. *)
LEMMA FairTransitive ==
  ASSUME NEW s \in Accounts, NEW t \in Accounts, NEW v \in Accounts, Fair(s, t), Fair(t, v)
  PROVE  Fair(s, v)
<1>1. /\ s.farm.active \in Pool /\ t.farm.active \in Pool /\ v.farm.active \in Pool
      /\ s.user.active_stake \in Nat /\ t.user.active_stake \in Nat /\ v.user.active_stake \in Nat
  BY FarmFields DEF Accounts, UserAccount
<1>2. /\ s.farm.pending \in Pool /\ t.farm.pending \in Pool /\ v.farm.pending \in Pool
      /\ Waiting(s.user) \in Nat /\ Waiting(t.user) \in Nat /\ Waiting(v.user) \in Nat
  BY FarmFields DEF Accounts, UserAccount, Waiting
<1>3. FairTrade(s.farm.active, s.user.active_stake, v.farm.active, v.user.active_stake)
  <2>1. /\ FairTrade(s.farm.active, s.user.active_stake, t.farm.active, t.user.active_stake)
        /\ FairTrade(t.farm.active, t.user.active_stake, v.farm.active, v.user.active_stake)
    BY DEF Fair
  <2> QED BY <1>1, <2>1, FairTradeTransitive
<1>4. FairTrade(s.farm.pending, Waiting(s.user), v.farm.pending, Waiting(v.user))
  <2>1. /\ FairTrade(s.farm.pending, Waiting(s.user), t.farm.pending, Waiting(t.user))
        /\ FairTrade(t.farm.pending, Waiting(t.user), v.farm.pending, Waiting(v.user))
    BY DEF Fair
  <2> QED BY <1>2, <2>1, FairTradeTransitive
<1> QED BY <1>3, <1>4 DEF Fair

(* The user holds the same shares, due at the same instants. *)
SameShares(u, v) ==
  /\ v.active_stake = u.active_stake
  /\ v.pending_deposit_stake = u.pending_deposit_stake
  /\ v.pending_deposit_stake_ts = u.pending_deposit_stake_ts
  /\ v.pending_withdrawal_unstake = u.pending_withdrawal_unstake
  /\ v.pending_withdrawal_unstake_ts = u.pending_withdrawal_unstake_ts

LeavesShares(s, t) ==
  /\ t.farm.active = s.farm.active /\ t.farm.pending = s.farm.pending
  /\ SameShares(s.user, t.user)

(* An operation that touches no shares is fair. *)
LEMMA LeavesSharesFair ==
  ASSUME NEW s \in Accounts, NEW t, LeavesShares(s, t)
  PROVE  Fair(s, t)
<1>1. /\ s.farm.active \in Pool /\ s.farm.pending \in Pool
      /\ s.user.active_stake \in Nat /\ Waiting(s.user) \in Nat
  BY FarmFields DEF Accounts, UserAccount, Waiting
<1>2. Waiting(t.user) = Waiting(s.user)
  BY DEF LeavesShares, SameShares, Waiting
<1> QED BY <1>1, <1>2, NoTrade DEF Fair, LeavesShares, SameShares

(* Counting rewards touches no shares. *)
LEMMA UserRefreshRewardLeavesShares ==
  ASSUME NEW s \in Accounts, NEW indices
  PROVE  LeavesShares(s, UserRefreshReward(s, indices))
BY DEF UserRefreshReward, Accounts, UserAccount, LeavesShares, SameShares

(* Nor does issuing them. *)
LEMMA RefreshRewardsLeavesShares ==
  ASSUME NEW s \in Accounts, NEW e \in Environment, RefreshRewardsOk(s, e)
  PROVE  /\ RefreshRewards(s, e) \in Accounts
         /\ LeavesShares(s, RefreshRewards(s, e))
<1> DEFINE f == RefreshGlobalRewards(s.farm, e)
           t == [s EXCEPT !.farm = f]
<1>1. f \in FarmAccount /\ OnlyIssues(s.farm, f)
  BY RefreshGlobalRewardsIssues DEF RefreshRewardsOk, Accounts
<1> HIDE DEF f
<1>2. t \in Accounts /\ t.farm = f /\ t.user = s.user
  BY <1>1 DEF Accounts
<1>3. RefreshRewards(s, e) = UserRefreshReward(t, RefreshedIndices(t))
  <2>1. Issued(s, e) = t
    BY DEF Issued, f
  <2>2. RefreshedIndices(t) = RefreshedIndices(s)
    BY <1>2, <1>1 DEF RefreshedIndices, InitialisedRewards, OnlyIssues, KeepsPromises
  <2> QED BY <2>1, <2>2 DEF RefreshRewards
<1> HIDE DEF t
<1>4. LeavesShares(t, RefreshRewards(s, e))
  BY <1>2, <1>3, UserRefreshRewardLeavesShares
<1>5. LeavesShares(s, RefreshRewards(s, e))
  BY <1>1, <1>2, <1>4 DEF LeavesShares, SameShares, OnlyIssues
<1> QED BY <1>5, RefreshRewardsIssues

(* The tallies are no shares. *)
LEMMA TallyLeavesShares ==
  ASSUME NEW s \in Accounts, NEW shares
  PROVE  LeavesShares(s, IncreaseTally(s, shares)) /\ LeavesShares(s, ReduceTally(s, shares))
BY DEF IncreaseTally, ReduceTally, Accounts, UserAccount, LeavesShares, SameShares

(* A deposit that waits for its warmup. *)
LEMMA AddPendingDepositStakeFair ==
  ASSUME NEW s \in Accounts, NEW amount \in Nat, AddAmountOk(s.farm.pending, amount)
  PROVE  Fair(s, AddPendingDepositStake(s, amount))
<1> DEFINE t == AddPendingDepositStake(s, amount)
           shares == SharesFor(amount, s.farm.pending)
<1>1. /\ s.farm \in FarmAccount /\ s.farm.active \in Pool /\ s.farm.pending \in Pool
      /\ s.user \in UserAccount
  BY FarmFields DEF Accounts
<1>2. shares \in Nat
  BY <1>1, SharesForNat
<1>3. /\ t.farm.active = s.farm.active /\ t.farm.pending = AddAmount(s.farm.pending, amount)
      /\ t.user.active_stake = s.user.active_stake
      /\ t.user.pending_deposit_stake = s.user.pending_deposit_stake + shares
      /\ t.user.pending_withdrawal_unstake = s.user.pending_withdrawal_unstake
  BY <1>1 DEF AddPendingDepositStake, FarmAccount, UserAccount
<1> HIDE DEF t, shares
<1>4. Waiting(t.user) = Waiting(s.user) + shares /\ Waiting(s.user) \in Nat
      /\ s.user.active_stake \in Nat
  BY <1>1, <1>2, <1>3 DEF Waiting, UserAccount
<1>5. Fair(s, t)
  BY <1>1, <1>3, <1>4, NoTrade, AddAmountFair DEF Fair, shares
<1> QED BY <1>5 DEF t

(* A deposit that is active at once. *)
LEMMA AddActiveStakeFair ==
  ASSUME NEW s \in Accounts, NEW amount \in Nat, AddAmountOk(s.farm.active, amount)
  PROVE  Fair(s, AddActiveStake(s, amount))
<1> DEFINE t == AddActiveStake(s, amount)
           shares == SharesFor(amount, s.farm.active)
<1>1. /\ s.farm \in FarmAccount /\ s.farm.active \in Pool /\ s.farm.pending \in Pool
      /\ s.user \in UserAccount
  BY FarmFields DEF Accounts
<1>2. shares \in Nat
  BY <1>1, SharesForNat
<1>3. /\ t.farm.pending = s.farm.pending /\ t.farm.active = AddAmount(s.farm.active, amount)
      /\ t.user.active_stake = s.user.active_stake + shares
      /\ t.user.pending_deposit_stake = s.user.pending_deposit_stake
      /\ t.user.pending_withdrawal_unstake = s.user.pending_withdrawal_unstake
  BY <1>1 DEF AddActiveStake, FarmAccount, UserAccount
<1> HIDE DEF t, shares
<1>4. Waiting(t.user) = Waiting(s.user) /\ Waiting(s.user) \in Nat /\ s.user.active_stake \in Nat
  BY <1>1, <1>3 DEF Waiting, UserAccount
<1>5. Fair(s, t)
  BY <1>1, <1>3, <1>4, NoTrade, AddAmountFair DEF Fair, shares
<1> QED BY <1>5 DEF t

(* A deposit that leaves the pending pool. *)
LEMMA RemovePendingDepositStakeFair ==
  ASSUME NEW s \in Accounts
  PROVE  Fair(s, RemovePendingDepositStake(s))
<1> DEFINE t == RemovePendingDepositStake(s)
           shares == s.user.pending_deposit_stake
<1>1. /\ s.farm \in FarmAccount /\ s.farm.active \in Pool /\ s.farm.pending \in Pool
      /\ s.user \in UserAccount /\ shares \in Nat
  BY FarmFields DEF Accounts, UserAccount
<1>2. /\ t.farm.active = s.farm.active /\ t.farm.pending = RemoveShares(s.farm.pending, shares)
      /\ t.user.active_stake = s.user.active_stake
      /\ t.user.pending_deposit_stake = 0
      /\ t.user.pending_withdrawal_unstake = s.user.pending_withdrawal_unstake
  BY <1>1 DEF RemovePendingDepositStake, FarmAccount, UserAccount
<1> HIDE DEF t
<1>3. /\ Waiting(t.user) = Waiting(s.user) - shares /\ shares =< Waiting(s.user)
      /\ Waiting(s.user) \in Nat /\ s.user.active_stake \in Nat
  BY <1>1, <1>2 DEF Waiting, UserAccount
<1> HIDE DEF shares
<1>4. Fair(s, t)
  BY <1>1, <1>2, <1>3, NoTrade, RemoveSharesFair DEF Fair
<1> QED BY <1>4 DEF t

(* A deposit that becomes active. *)
LEMMA ActivatePendingStakeFair ==
  ASSUME NEW s \in Accounts, ActivatePendingStakeOk(s)
  PROVE  Fair(s, ActivatePendingStake(s))
<1> DEFINE t == RemovePendingDepositStake(s)
           amount == ActivatedAmount(s)
<1>1. t \in Accounts /\ amount \in Nat /\ Fair(s, t)
  BY RemovePendingDepositStakeBooks, RemovePendingDepositStakeFair DEF ActivatePendingStakeOk
<1>2. t.farm.active = s.farm.active
  BY DEF RemovePendingDepositStake, Accounts, FarmAccount
<1>3. ActivatePendingStake(s) = AddActiveStake(t, amount)
  BY DEF ActivatePendingStake
<1>4. AddAmountOk(t.farm.active, amount)
  BY <1>2 DEF ActivatePendingStakeOk
<1> HIDE DEF t, amount
<1>5. Fair(t, AddActiveStake(t, amount)) /\ AddActiveStake(t, amount) \in Accounts
  BY <1>1, <1>4, AddActiveStakeFair, AddActiveStakeBooks
<1> QED BY <1>1, <1>3, <1>5, FairTransitive

(* Active shares that leave and wait for the cooldown, less the penalty. *)
LEMMA MoveToPendingWithdrawalFair ==
  ASSUME NEW s \in Accounts, NEW shares \in Nat, NEW ts \in Nat,
         MoveToPendingWithdrawalOk(s, shares, ts)
  PROVE  Fair(s, MoveToPendingWithdrawal(s, shares, ts))
<1> DEFINE amount == UnstakedAmount(s, shares, ts)
           t == MoveToPendingWithdrawal(s, shares, ts)
           bought == SharesFor(amount, s.farm.pending)
<1>1. /\ s.farm \in FarmAccount /\ s.farm.active \in Pool /\ s.farm.pending \in Pool
      /\ s.user \in UserAccount /\ shares =< s.user.active_stake
  BY FarmFields DEF Accounts, MoveToPendingWithdrawalOk
<1>2. amount \in Nat
  BY UnstakePenaltyBound DEF UnstakedAmount
<1>3. AddAmountOk(s.farm.pending, amount)
  BY DEF MoveToPendingWithdrawalOk
<1> HIDE DEF amount
<1>4. bought \in Nat
  BY <1>1, <1>2, SharesForNat
<1>5. /\ t.farm.active = RemoveShares(s.farm.active, shares)
      /\ t.farm.pending = AddAmount(s.farm.pending, amount)
      /\ t.user.active_stake = s.user.active_stake - shares
      /\ t.user.pending_deposit_stake = s.user.pending_deposit_stake
      /\ t.user.pending_withdrawal_unstake = s.user.pending_withdrawal_unstake + bought
  BY <1>1 DEF MoveToPendingWithdrawal, AddPendingWithdrawalStake, RemoveActiveStake, FarmAccount,
              UserAccount, amount
<1> HIDE DEF t, bought
<1>6. /\ Waiting(t.user) = Waiting(s.user) + bought /\ Waiting(s.user) \in Nat
      /\ s.user.active_stake \in Nat
  BY <1>1, <1>4, <1>5 DEF Waiting, UserAccount
<1>7. Fair(s, t)
  BY <1>1, <1>2, <1>3, <1>5, <1>6, AddAmountFair, RemoveSharesFair DEF Fair, bought
<1> QED BY <1>7 DEF t

(* withdraw_unstaked_deposits *)
LEMMA WithdrawUnstakedDepositsFair ==
  ASSUME NEW s \in Accounts
  PROVE  Fair(s, WithdrawUnstakedDeposits(s))
<1> DEFINE t == WithdrawUnstakedDeposits(s)
           shares == s.user.pending_withdrawal_unstake
<1>1. /\ s.farm \in FarmAccount /\ s.farm.active \in Pool /\ s.farm.pending \in Pool
      /\ s.user \in UserAccount /\ shares \in Nat
  BY FarmFields DEF Accounts, UserAccount
<1>2. /\ t.farm.active = s.farm.active /\ t.farm.pending = RemoveShares(s.farm.pending, shares)
      /\ t.user.active_stake = s.user.active_stake
      /\ t.user.pending_deposit_stake = s.user.pending_deposit_stake
      /\ t.user.pending_withdrawal_unstake = 0
  BY <1>1 DEF WithdrawUnstakedDeposits, RemovePendingWithdrawalStake, FarmAccount, UserAccount
<1> HIDE DEF t
<1>3. /\ Waiting(t.user) = Waiting(s.user) - shares /\ shares =< Waiting(s.user)
      /\ Waiting(s.user) \in Nat /\ s.user.active_stake \in Nat
  BY <1>1, <1>2 DEF Waiting, UserAccount
<1> HIDE DEF shares
<1>4. Fair(s, t)
  BY <1>1, <1>2, <1>3, NoTrade, RemoveSharesFair DEF Fair
<1> QED BY <1>4 DEF t

-----------------------------------------------------------------------------
(* The operations of farm_operations.rs *)

(* The operation costs none of the shares a token, the user's own included. *)
SparesAll(f, g) ==
  \A x \in Nat : /\ x =< f.active.stake => KeepsValue(x, f.active, g.active)
                 /\ x =< f.pending.stake => KeepsValue(x, f.pending, g.pending)

(* Pools left alone cost nothing. *)
LEMMA SamePoolsSpareAll ==
  ASSUME NEW f \in FarmAccount, NEW g, g.active = f.active, g.pending = f.pending
  PROVE  SparesAll(f, g)
BY FarmFields, AmountForNat DEF SparesAll, KeepsValue

(* A refresh of the stake is fair; either it activates a deposit that        *)
(* matured or it touches no shares.                                          *)
LEMMA UserRefreshStakeFair ==
  ASSUME NEW s \in Accounts, NEW e \in Environment, UserRefreshStakeOk(s, e)
  PROVE  LET r == UserRefreshStake(s, e)
         IN  /\ Fair(s, r)
             /\ DepositMatured(s.user, e.ts) => r.user.pending_deposit_stake = 0
             /\ ~DepositMatured(s.user, e.ts) => LeavesShares(s, r)
<1> DEFINE f == InitializeRewardTsIfNeeded(s.farm, e.ts)
           t == [s EXCEPT !.farm = f]
           r == UserRefreshStake(s, e)
<1>1. f \in FarmAccount /\ OnlyIssues(s.farm, f)
  BY InitializeRewardTsIssues DEF Accounts, Environment
<1> HIDE DEF f
<1>2. t \in Accounts /\ t.farm = f /\ t.user = s.user
  BY <1>1 DEF Accounts
<1>3. LeavesShares(s, t)
  BY <1>1, <1>2 DEF LeavesShares, SameShares, OnlyIssues
<1>4. Fair(s, t)
  BY <1>3, LeavesSharesFair
<1>5. CASE DepositMatured(s.user, e.ts)
  <2> DEFINE v == ActivatePendingStake(t)
             shares == ActivatedShares(t)
  <2>1. ActivatePendingStakeOk(t)
    BY <1>1, <1>2, <1>5 DEF UserRefreshStakeOk, ActivatePendingStakeOk, ActivatedAmount, OnlyIssues
  <2>2. v \in Accounts /\ Fair(t, v)
    BY <1>2, <2>1, ActivatePendingStakeBooks, ActivatePendingStakeFair
  <2>3. v.user.pending_deposit_stake = 0
    BY <1>2
    DEF ActivatePendingStake, AddActiveStake, RemovePendingDepositStake, Accounts, UserAccount
  <2>4. shares \in Nat
    BY <1>2, SharesForNat, AmountForNat, FarmFields
    DEF ActivatedShares, ActivatedAmount, Accounts, UserAccount
  <2>5. r = IncreaseTally(v, shares)
    BY <1>5 DEF UserRefreshStake, f
  <2> HIDE DEF t, v, shares, r
  <2>6. LeavesShares(v, r) /\ r \in Accounts
    BY <2>2, <2>4, <2>5, TallyLeavesShares, IncreaseTallyTypes
  <2>7. Fair(v, r)
    BY <2>2, <2>6, LeavesSharesFair
  <2>8. Fair(s, r)
    BY <1>2, <1>4, <2>2, <2>6, <2>7, FairTransitive
  <2>9. r.user.pending_deposit_stake = 0
    BY <2>3, <2>6 DEF LeavesShares, SameShares
  <2> QED BY <1>5, <2>8, <2>9 DEF r
<1>6. CASE ~DepositMatured(s.user, e.ts)
  <2>1. r = t
    BY <1>6 DEF UserRefreshStake, f
  <2> QED BY <1>3, <1>4, <1>6, <2>1
<1> QED BY <1>5, <1>6

(* A deposit is fair and costs nobody a token; one that waits is due later   *)
(* than now, and one that does not leaves what waits alone.                  *)
LEMMA DepositFair ==
  ASSUME NEW s \in Accounts, NEW amount \in Nat, NEW e \in Environment, DepositOk(s, amount, e)
  PROVE  LET v == Deposit(s, amount, e.ts)
             warmup == s.farm.config.deposit_warmup_period
         IN  /\ Fair(s, v)
             /\ SparesAll(s.farm, v.farm)
             /\ warmup > 0 => v.user.pending_deposit_stake_ts = e.ts + warmup
             /\ ~(warmup > 0) => v.user.pending_deposit_stake = s.user.pending_deposit_stake
<1> DEFINE warmup == s.farm.config.deposit_warmup_period
           pending == AddPendingDepositStake(s, amount)
           added == AddActiveStake(s, amount)
           shares == SharesFor(amount, s.farm.active)
           starts == IncreaseTally(added, shares)
           v == Deposit(s, amount, e.ts)
<1>1. /\ s.farm \in FarmAccount /\ s.user \in UserAccount
      /\ s.farm.active \in Pool /\ s.farm.pending \in Pool
  BY FarmFields DEF Accounts
<1>2. v \in Accounts
  BY DepositBooks DEF Environment
<1>3. CASE warmup > 0
  <2> DEFINE dated == [pending EXCEPT !.user.pending_deposit_stake_ts = e.ts + warmup]
  <2>1. v = [dated EXCEPT !.user.last_stake_ts = e.ts]
    BY <1>3 DEF Deposit
  <2>2. AddAmountOk(s.farm.pending, amount)
    BY <1>3 DEF DepositOk
  <2>3. pending \in Accounts /\ Fair(s, pending)
    BY <2>2, AddPendingDepositStakeBooks, AddPendingDepositStakeFair
  <2>4. /\ pending.farm.active = s.farm.active
        /\ pending.farm.pending = AddAmount(s.farm.pending, amount)
    BY <1>1 DEF AddPendingDepositStake, FarmAccount
  <2> HIDE DEF pending, v
  <2>5. /\ dated.farm = pending.farm
        /\ dated.user = [pending.user EXCEPT !.pending_deposit_stake_ts = e.ts + warmup]
    BY <2>3 DEF Accounts
  <2> HIDE DEF dated
  <2>6. v.farm = pending.farm /\ v.user = [dated.user EXCEPT !.last_stake_ts = e.ts]
    BY <2>1, <2>3, <2>5 DEF Accounts, UserAccount
  <2>7. /\ v.user.pending_deposit_stake_ts = e.ts + warmup
        /\ v.user.active_stake = pending.user.active_stake
        /\ v.user.pending_deposit_stake = pending.user.pending_deposit_stake
        /\ v.user.pending_withdrawal_unstake = pending.user.pending_withdrawal_unstake
    BY <2>3, <2>5, <2>6 DEF Accounts, UserAccount
  <2>8. Fair(s, v)
    BY <2>3, <2>6, <2>7 DEF Fair, Waiting
  <2>9. SparesAll(s.farm, v.farm)
    BY <1>1, <2>2, <2>4, <2>6, AmountForNat, AddAmountKeepsValue
    DEF SparesAll, KeepsValue, AddAmountOk
  <2> QED BY <1>3, <2>7, <2>8, <2>9 DEF v
<1>4. CASE ~(warmup > 0)
  <2>1. v = [starts EXCEPT !.user.last_stake_ts = e.ts]
    BY <1>4 DEF Deposit
  <2>2. AddAmountOk(s.farm.active, amount)
    BY <1>4 DEF DepositOk
  <2>3. added \in Accounts /\ shares \in Nat /\ Fair(s, added)
    BY <1>1, <2>2, AddActiveStakeBooks, AddActiveStakeFair, SharesForNat
  <2>4. /\ added.farm.pending = s.farm.pending
        /\ added.farm.active = AddAmount(s.farm.active, amount)
        /\ added.user.pending_deposit_stake = s.user.pending_deposit_stake
    BY <1>1 DEF AddActiveStake, FarmAccount, UserAccount
  <2> HIDE DEF added, shares
  <2>5. starts \in Accounts /\ starts.farm = added.farm /\ LeavesShares(added, starts)
    BY <2>3, IncreaseTallyTypes, TallyLeavesShares
  <2> HIDE DEF starts, v
  <2>6. v.farm = starts.farm /\ v.user = [starts.user EXCEPT !.last_stake_ts = e.ts]
    BY <2>1, <2>5 DEF Accounts
  <2>7. /\ v.user.active_stake = starts.user.active_stake
        /\ v.user.pending_deposit_stake = starts.user.pending_deposit_stake
        /\ v.user.pending_withdrawal_unstake = starts.user.pending_withdrawal_unstake
    BY <2>5, <2>6 DEF Accounts, UserAccount
  <2>8. Fair(s, v)
    BY <2>3, <2>5, <2>6, <2>7 DEF Fair, Waiting, LeavesShares, SameShares
  <2>9. SparesAll(s.farm, v.farm)
    BY <1>1, <2>2, <2>4, <2>5, <2>6, AmountForNat, AddAmountKeepsValue
    DEF SparesAll, KeepsValue, AddAmountOk
  <2>10. v.user.pending_deposit_stake = s.user.pending_deposit_stake
    BY <2>4, <2>5, <2>7 DEF LeavesShares, SameShares
  <2> QED BY <1>4, <2>8, <2>9, <2>10 DEF v
<1> QED BY <1>3, <1>4

(* The operation from s to t is fair to the others, and costs the user       *)
(* nothing when it changes none of the user's shares.                        *)
FairToAll(s, t) ==
  /\ Fair(s, t)
  /\ SameShares(s.user, t.user) => SparesAll(s.farm, t.farm)

(* An operation that touches no shares is fair to all. *)
LEMMA LeavesSharesFairToAll ==
  ASSUME NEW s \in Accounts, NEW t, LeavesShares(s, t)
  PROVE  FairToAll(s, t)
BY LeavesSharesFair, SamePoolsSpareAll DEF FairToAll, LeavesShares, Accounts

(* user_refresh_state *)
LEMMA UserRefreshStateFair ==
  ASSUME NEW s \in Accounts, NEW e \in Environment, UserRefreshStateOk(s, e)
  PROVE  FairToAll(s, UserRefreshState(s, e))
<1> DEFINE t == RefreshRewards(s, e)
           r == UserRefreshStake(t, e)
<1>1. t \in Accounts /\ LeavesShares(s, t)
  BY RefreshRewardsLeavesShares DEF UserRefreshStateOk
<1>2. CASE Delegated
  <2>1. UserRefreshState(s, e) = t
    BY <1>2 DEF UserRefreshState
  <2> HIDE DEF t
  <2> QED BY <1>1, <2>1, LeavesSharesFairToAll
<1>3. CASE ~Delegated
  <2>1. UserRefreshState(s, e) = r /\ UserRefreshStakeOk(t, e)
    BY <1>3 DEF UserRefreshState, UserRefreshStateOk
  <2> HIDE DEF t
  <2>2. /\ r \in Accounts /\ Fair(t, r)
        /\ DepositMatured(t.user, e.ts) => r.user.pending_deposit_stake = 0
        /\ ~DepositMatured(t.user, e.ts) => LeavesShares(t, r)
    BY <1>1, <2>1, UserRefreshStakeBooks, UserRefreshStakeFair
  <2> HIDE DEF r
  <2>3. Fair(s, r)
    BY <1>1, <2>2, LeavesSharesFair, FairTransitive
  <2>4. ASSUME SameShares(s.user, r.user) PROVE SparesAll(s.farm, r.farm)
    <3>1. ~DepositMatured(t.user, e.ts)
      BY <1>1, <2>2, <2>4 DEF DepositMatured, LeavesShares, SameShares
    <3>2. r.farm.active = s.farm.active /\ r.farm.pending = s.farm.pending
      BY <1>1, <2>2, <3>1 DEF LeavesShares
    <3> QED BY <3>2, SamePoolsSpareAll DEF Accounts
  <2> QED BY <2>1, <2>3, <2>4 DEF FairToAll
<1> QED BY <1>2, <1>3

(* stake *)
LEMMA StakeFair ==
  ASSUME NEW s \in Accounts, NEW amount \in Nat, NEW e \in Environment, StakeOk(s, amount, e)
  PROVE  FairToAll(s, Stake(s, amount, e))
<1> DEFINE t == RefreshRewards(s, e)
           r == UserRefreshStake(t, e)
           warmup == r.farm.config.deposit_warmup_period
           v == Stake(s, amount, e)
<1>1. t \in Accounts /\ LeavesShares(s, t)
  BY RefreshRewardsLeavesShares DEF StakeOk
<1>2. UserRefreshStakeOk(t, e) /\ DepositOk(r, amount, e) /\ v = Deposit(r, amount, e.ts)
  BY DEF StakeOk, Stake
<1>3. e.ts \in Nat
  BY DEF Environment
<1> HIDE DEF t
<1>4. /\ r \in Accounts /\ Fair(t, r)
      /\ DepositMatured(t.user, e.ts) => r.user.pending_deposit_stake = 0
      /\ ~DepositMatured(t.user, e.ts) => LeavesShares(t, r)
  BY <1>1, <1>2, UserRefreshStakeBooks, UserRefreshStakeFair
<1> HIDE DEF r
<1>5. v \in Accounts
  BY <1>2, <1>3, <1>4, DepositBooks
<1>6. /\ Fair(r, v) /\ SparesAll(r.farm, v.farm)
      /\ warmup > 0 => v.user.pending_deposit_stake_ts = e.ts + warmup
      /\ ~(warmup > 0) => v.user.pending_deposit_stake = r.user.pending_deposit_stake
  BY <1>2, <1>4, DepositFair
<1>7. warmup \in Nat
  BY <1>4, FarmFields DEF Accounts, FarmConfig
<1> HIDE DEF v, warmup
<1>8. Fair(s, t)
  BY <1>1, LeavesSharesFair
<1>9. Fair(s, r)
  BY <1>1, <1>4, <1>8, FairTransitive
<1>10. Fair(s, v)
  BY <1>4, <1>5, <1>6, <1>9, FairTransitive
<1>11. ASSUME SameShares(s.user, v.user) PROVE SparesAll(s.farm, v.farm)
  <2>1. s.user.pending_deposit_stake_ts \in Nat
    BY DEF Accounts, UserAccount
  <2>2. ~DepositMatured(t.user, e.ts)
    BY <1>1, <1>3, <1>4, <1>6, <1>7, <1>11, <2>1 DEF DepositMatured, LeavesShares, SameShares
  <2>3. r.farm.active = s.farm.active /\ r.farm.pending = s.farm.pending
    BY <1>1, <1>4, <2>2 DEF LeavesShares
  <2> QED BY <1>6, <2>3 DEF SparesAll
<1>12. FairToAll(s, v)
  BY <1>10, <1>11 DEF FairToAll
<1> QED BY <1>12 DEF v

(* unstake *)
LEMMA UnstakeFair ==
  ASSUME NEW s \in Accounts, NEW requested \in Nat, NEW e \in Environment,
         UnstakeOk(s, requested, e)
  PROVE  /\ FairToAll(s, Unstake(s, requested, e))
         /\ Unstake(s, requested, e).user.active_stake < s.user.active_stake
<1> DEFINE r == RefreshRewards(s, e)
           shares == SharesToUnstake(r, requested)
           ts == e.ts
           penalty == UnstakePenalty(r, shares, ts)
           deadline == ts + r.farm.config.withdrawal_cooldown_period
           t == [r EXCEPT !.user.pending_withdrawal_unstake_ts = deadline]
           moved == MoveToPendingWithdrawal(t, shares, ts)
           booked == BookedPenalty(moved, penalty)
           v == Unstake(s, requested, e)
<1>1. r \in Accounts /\ LeavesShares(s, r)
  BY RefreshRewardsLeavesShares DEF UnstakeOk
<1>2. v = MoveOut(r, shares, ts) /\ MoveOutOk(r, shares, ts)
  BY DEF Unstake, UnstakeOk
<1> HIDE DEF r
<1>3. shares \in Nat /\ shares > 0 /\ ts \in Nat
  BY <1>1, <1>2 DEF SharesToUnstake, Least, Accounts, UserAccount, Environment, MoveOutOk
<1> HIDE DEF shares, ts
<1>4. deadline \in Nat
  BY <1>1, <1>3, FarmFields DEF Accounts, FarmConfig
<1> HIDE DEF deadline
<1>5. /\ t \in Accounts /\ t.farm = r.farm
      /\ t.user = [r.user EXCEPT !.pending_withdrawal_unstake_ts = deadline]
      /\ r.user \in UserAccount
  BY <1>1, <1>4 DEF Accounts, UserAccount
<1>6. /\ t.user.active_stake = r.user.active_stake
      /\ t.user.last_stake_ts = r.user.last_stake_ts
      /\ Waiting(t.user) = Waiting(r.user)
  BY <1>5 DEF Waiting, UserAccount
<1>7. MoveToPendingWithdrawalOk(t, shares, ts) /\ UnstakePenalty(t, shares, ts) = penalty
  BY <1>2, <1>5, <1>6 DEF MoveOutOk, MoveToPendingWithdrawalOk, UnstakedAmount, UnstakePenalty,
                          LockBegin
<1>8. penalty \in Nat
  <2> HIDE DEF penalty, t
  <2>1. /\ penalty \in 0 .. AmountFor(shares, t.farm.active)
        /\ AmountFor(shares, t.farm.active) \in Nat
    BY <1>3, <1>5, <1>7, UnstakePenaltyBound
  <2> QED BY <2>1
<1>9. v = ReduceTally(booked, shares)
  BY <1>2 DEF MoveOut, booked, BookedPenalty, moved, t, penalty, deadline
<1> HIDE DEF penalty, t
<1>10. moved \in Accounts /\ Fair(t, moved)
  BY <1>3, <1>5, <1>7, MoveToPendingWithdrawalBooks, MoveToPendingWithdrawalFair
<1>11. moved.user.active_stake = t.user.active_stake - shares
  BY <1>5 DEF MoveToPendingWithdrawal, AddPendingWithdrawalStake, RemoveActiveStake, Accounts,
              UserAccount
<1> HIDE DEF moved
<1>12. booked \in Accounts /\ LeavesShares(moved, booked)
  BY <1>8, <1>10, PenaltyBooked DEF LeavesShares, SameShares
<1> HIDE DEF booked, v
<1>13. v \in Accounts /\ LeavesShares(booked, v)
  BY <1>3, <1>9, <1>12, ReduceTallyTypes, TallyLeavesShares
<1>14. Fair(r, t)
  <2>1. /\ r.farm.active \in Pool /\ r.farm.pending \in Pool
        /\ r.user.active_stake \in Nat /\ Waiting(r.user) \in Nat
    BY <1>1, FarmFields DEF Accounts, UserAccount, Waiting
  <2> QED BY <1>5, <1>6, <2>1, NoTrade DEF Fair
<1>15. Fair(s, r) /\ Fair(moved, booked) /\ Fair(booked, v)
  BY <1>1, <1>10, <1>12, <1>13, LeavesSharesFair
<1>16. Fair(s, t)
  BY <1>1, <1>5, <1>14, <1>15, FairTransitive
<1>17. Fair(s, booked)
  BY <1>5, <1>10, <1>12, <1>15, <1>16, FairTransitive
<1>18. Fair(s, v)
  BY <1>12, <1>13, <1>15, <1>17, FairTransitive
<1>19. v.user.active_stake < s.user.active_stake
  <2>1. v.user.active_stake = s.user.active_stake - shares /\ s.user.active_stake \in Nat
    BY <1>1, <1>6, <1>11, <1>12, <1>13 DEF LeavesShares, SameShares, Accounts, UserAccount
  <2> QED BY <1>3, <2>1
<1>20. s.user.active_stake \in Nat
  BY DEF Accounts, UserAccount
<1>21. FairToAll(s, v)
  BY <1>18, <1>19, <1>20 DEF FairToAll, SameShares
<1> QED BY <1>19, <1>21 DEF v

(* withdraw_unstaked_deposits *)
LEMMA WithdrawUnstakedDepositsFairToAll ==
  ASSUME NEW s \in Accounts, NEW ts, WithdrawUnstakedDepositsOk(s, ts)
  PROVE  /\ FairToAll(s, WithdrawUnstakedDeposits(s))
         /\ WithdrawUnstakedDeposits(s).user.active_stake = s.user.active_stake
<1> DEFINE t == WithdrawUnstakedDeposits(s)
<1>1. s.user.pending_withdrawal_unstake \in Nat \ {0}
  BY DEF WithdrawUnstakedDepositsOk, Accounts, UserAccount
<1>2. t.user.pending_withdrawal_unstake = 0 /\ t.user.active_stake = s.user.active_stake
  BY DEF WithdrawUnstakedDeposits, RemovePendingWithdrawalStake, Accounts, UserAccount
<1> QED BY <1>1, <1>2, WithdrawUnstakedDepositsFair DEF FairToAll, SameShares

(* set_stake: on a delegated farm a share is worth one token before and      *)
(* after.                                                                    *)
LEMMA SetStakeFair ==
  ASSUME NEW s \in Accounts, NEW new_stake \in Nat, NEW e \in Environment,
         SetStakeOk(s, new_stake, e)
  PROVE  FairToAll(s, SetStake(s, new_stake, e))
<1> DEFINE v == SetStake(s, new_stake, e)
           old == s.user.active_stake
<1>1. DelegatedBooksBalance(s.farm) /\ DelegatedBooksBalance(v.farm) /\ v \in Accounts
  BY SetStakeBalances, SetStakeTypes DEF SetStakeOk
<1>2. CASE new_stake = old
  <2>1. v = s
    BY <1>2 DEF SetStake
  <2> HIDE DEF v
  <2>2. FairToAll(s, v)
    BY <2>1, LeavesSharesFairToAll DEF LeavesShares, SameShares
  <2> QED BY <2>2 DEF v
<1>3. CASE new_stake # old
  <2> DEFINE r == RefreshRewards(s, WithoutPrice(e))
             f == IF StakeIncreases(s, new_stake)
                  THEN InitializeRewardTsIfNeeded(r.farm, e.ts) ELSE r.farm
             g == [f EXCEPT !.active.stake = @ + new_stake - old,
                            !.active.amount = @ + new_stake - old]
  <2>1. e.ts \in Nat /\ WithoutPrice(e) \in Environment
    BY DEF Environment, Price, WithoutPrice
  <2>2. RefreshRewardsOk(s, WithoutPrice(e))
    BY <1>3 DEF SetStakeOk
  <2>3. r \in Accounts /\ LeavesShares(s, r)
    BY <2>1, <2>2, RefreshRewardsLeavesShares
  <2>4. v.farm = g /\ v.user.active_stake = new_stake
        /\ v.user.pending_deposit_stake = r.user.pending_deposit_stake
        /\ v.user.pending_withdrawal_unstake = r.user.pending_withdrawal_unstake
    <3> HIDE DEF r, f
    <3>1. v = [ farm |-> g,
                user |-> [r.user EXCEPT
                  !.active_stake = new_stake,
                  !.last_stake_ts = IF StakeIncreases(s, new_stake) THEN e.ts ELSE @,
                  !.rewards_tally = [i \in RewardIndex |->
                      IF i \in InitialisedRewards(f)
                      THEN f.rewards[i].reward_per_share_scaled * new_stake ELSE @[i]]] ]
      BY <1>3 DEF SetStake, r, f
    <3> HIDE DEF v
    <3> QED BY <2>3, <3>1 DEF Accounts, UserAccount
  <2> HIDE DEF r
  <2>5. f \in FarmAccount /\ f.active = s.farm.active /\ f.pending = s.farm.pending
    BY <2>1, <2>3, InitializeRewardTsIssues DEF Accounts, OnlyIssues, LeavesShares
  <2> HIDE DEF f
  <2>6. s.farm.active \in Pool /\ s.farm.pending \in Pool /\ old \in Nat /\ Waiting(s.user) \in Nat
    BY FarmFields DEF Accounts, UserAccount, Waiting
  <2>7. /\ g.active.stake = s.farm.active.stake + new_stake - old
        /\ g.pending = s.farm.pending
    BY <2>5, <2>6 DEF FarmAccount, Pool
  <2> HIDE DEF v, g
  <2>8. v.farm.active \in Pool /\ Waiting(v.user) = Waiting(s.user)
    BY <1>1, <2>3, <2>4, FarmFields DEF Accounts, Waiting, LeavesShares, SameShares
  <2>9. s.farm.active.stake \in Nat
    BY <2>6 DEF Pool
  <2>10. ASSUME NEW x \in Nat, x + old =< s.farm.active.stake
         PROVE  KeepsValue(x, s.farm.active, v.farm.active)
    <3>1. x =< s.farm.active.stake /\ x =< v.farm.active.stake
      BY <2>4, <2>6, <2>7, <2>9, <2>10
    <3>2. x * s.farm.active.amount * v.farm.active.stake
            =< x * v.farm.active.amount * s.farm.active.stake
      <4>1. /\ s.farm.active.amount = s.farm.active.stake
            /\ v.farm.active.amount = v.farm.active.stake
        BY <1>1 DEF DelegatedBooksBalance
      <4>2. v.farm.active.stake \in Nat
        BY <2>8 DEF Pool
      <4> QED BY <2>9, <4>1, <4>2
    <3> QED BY <2>6, <2>8, <3>1, <3>2, PriceKeepsValue
  <2>11. FairTrade(s.farm.active, old, v.farm.active, v.user.active_stake)
    <3>1. v.farm.active.stake - v.user.active_stake = s.farm.active.stake - old
      BY <2>4, <2>6, <2>7, <2>9
    <3> QED BY <2>10, <3>1 DEF FairTrade
  <2>12. FairTrade(s.farm.pending, Waiting(s.user), v.farm.pending, Waiting(v.user))
    BY <2>4, <2>6, <2>7, <2>8, NoTrade
  <2>13. FairToAll(s, v)
    BY <1>3, <2>4, <2>11, <2>12 DEF FairToAll, Fair, SameShares
  <2> QED BY <2>13 DEF v
<1> QED BY <1>2, <1>3

(* harvest and reward_user_once touch no shares. *)
LEMMA HarvestLeavesShares ==
  ASSUME NEW s \in Accounts, NEW i \in RewardIndex, NEW e \in Environment, HarvestOk(s, i, e)
  PROVE  LeavesShares(s, Harvest(s, i, e))
<1> DEFINE r == RefreshOne(s, i, e)
           t == Harvest(s, i, e)
           reward == HarvestedReward(s, i, e)
           paid == [r EXCEPT !.farm.rewards[i].rewards_issued_unclaimed = @ - reward]
           cleared == [paid EXCEPT !.user.rewards_issued_unclaimed[i] = 0]
           issued == Issued(s, e)
<1>1. r \in Accounts /\ LeavesPools(s.farm, r.farm)
  BY RefreshOneIssues DEF OnlyIssues, LeavesPools
<1>2. SameShares(s.user, r.user)
  <2>1. issued \in Accounts /\ issued.user = s.user
    <3> DEFINE f == RefreshGlobalRewards(s.farm, e)
    <3>1. f \in FarmAccount
      BY RefreshGlobalRewardsIssues DEF HarvestOk, Accounts
    <3>2. issued = [s EXCEPT !.farm = f]
      BY DEF Issued
    <3> HIDE DEF f, issued
    <3> QED BY <3>1, <3>2 DEF Accounts
  <2>2. r = UserRefreshReward(issued, {i})
    BY DEF RefreshOne
  <2> HIDE DEF issued, r
  <2>3. LeavesShares(issued, r)
    BY <2>1, <2>2, UserRefreshRewardLeavesShares
  <2> QED BY <2>1, <2>3 DEF LeavesShares
<1>3. t = IF reward = 0 THEN r ELSE [cleared EXCEPT !.user.last_claim_ts[i] = e.ts]
  BY DEF Harvest
<1>4. LeavesPools(s.farm, t.farm)
  BY HarvestLeavesPools
<1> HIDE DEF r, reward, t
<1>5. paid.user = r.user /\ r.user \in UserAccount
  BY <1>1 DEF Accounts
<1> HIDE DEF paid
<1>6. cleared.user = [r.user EXCEPT !.rewards_issued_unclaimed[i] = 0]
  <2>1. paid = [farm |-> paid.farm, user |-> r.user]
    BY <1>1 DEF Accounts, paid
  <2> QED BY <2>1
<1>7. SameShares(r.user, cleared.user)
  BY <1>5, <1>6 DEF UserAccount, SameShares
<1>8. SameShares(cleared.user, [cleared EXCEPT !.user.last_claim_ts[i] = e.ts].user)
  <2> DEFINE account == cleared.user
             dated == [cleared EXCEPT !.user.last_claim_ts[i] = e.ts]
  <2>1. cleared = [farm |-> cleared.farm, user |-> account]
    <3>1. paid = [farm |-> paid.farm, user |-> r.user]
      BY <1>1 DEF Accounts, paid
    <3> QED BY <3>1
  <2>2. account = [r.user EXCEPT !.rewards_issued_unclaimed[i] = 0]
    BY <1>6
  <2> HIDE DEF cleared, account
  <2>3. dated.user = [account EXCEPT !.last_claim_ts[i] = e.ts]
    BY <2>1
  <2> HIDE DEF dated
  <2>4. SameShares(account, dated.user)
    BY <1>5, <2>2, <2>3 DEF UserAccount, SameShares
  <2> QED BY <2>4 DEF dated, account
<1>9. SameShares(s.user, t.user)
  BY <1>2, <1>3, <1>7, <1>8 DEF SameShares
<1> QED BY <1>4, <1>9 DEF LeavesShares, LeavesPools, t

(* reward_user_once *)
LEMMA RewardUserOnceLeavesShares ==
  ASSUME NEW s \in Accounts, NEW i \in RewardIndex, NEW amount
  PROVE  LeavesShares(s, RewardUserOnce(s, i, amount))
<1> DEFINE t == RewardUserOnce(s, i, amount)
<1>1. t.user = [s.user EXCEPT !.rewards_issued_unclaimed[i] = @ + amount]
  BY RewardUserOnceCredits
<1>2. LeavesPools(s.farm, t.farm)
  BY RewardUserOnceLeavesPools
<1> HIDE DEF t
<1>3. SameShares(s.user, t.user)
  BY <1>1 DEF Accounts, UserAccount, SameShares
<1> QED BY <1>2, <1>3 DEF LeavesShares, LeavesPools, t

-----------------------------------------------------------------------------
(* The shares of all users *)

(* The shares of the pools are the shares of the users. *)
Match(f, us) ==
  /\ f.active.stake = SumFunction([u \in Users |-> us[u].active_stake])
  /\ f.pending.stake = SumFunction([u \in Users |-> Waiting(us[u])])

(* The three holdings of a user are worth no less. *)
Worth(user, f, g) ==
  /\ KeepsValue(user.active_stake, f.active, g.active)
  /\ KeepsValue(user.pending_deposit_stake, f.pending, g.pending)
  /\ KeepsValue(user.pending_withdrawal_unstake, f.pending, g.pending)

(* So are those of every user whose account is left alone. *)
Spares(us, vs, f, g) == \A x \in Users : vs[x] = us[x] => Worth(us[x], f, g)

(* A user holds no more than the pool, nor do two users together. *)
LEMMA SharesWithinPools ==
  ASSUME NEW f \in FarmAccount, NEW us \in [Users -> UserAccount], Match(f, us), NEW x \in Users
  PROVE  /\ us[x].active_stake =< f.active.stake
         /\ Waiting(us[x]) =< f.pending.stake
         /\ \A y \in Users \ {x} :
              /\ us[x].active_stake + us[y].active_stake =< f.active.stake
              /\ Waiting(us[x]) + Waiting(us[y]) =< f.pending.stake
<1> DEFINE a == [u \in Users |-> us[u].active_stake]
           w == [u \in Users |-> Waiting(us[u])]
<1>1. IsFiniteSet(Users)
  BY FarmAssumption
<1>2. /\ \A u \in Users : a[u] \in Nat /\ a[u] = us[u].active_stake
      /\ \A u \in Users : w[u] \in Nat /\ w[u] = Waiting(us[u])
  BY DEF UserAccount, Waiting
<1>3. /\ f.active.stake = SumFunctionOnSet(a, Users)
      /\ f.pending.stake = SumFunctionOnSet(w, Users)
  BY DEF Match, SumFunction
<1> HIDE DEF a, w
<1>4. /\ a[x] =< f.active.stake /\ \A y \in Users \ {x} : a[x] + a[y] =< f.active.stake
  BY <1>1, <1>2, <1>3, SumMember
<1>5. /\ w[x] =< f.pending.stake /\ \A y \in Users \ {x} : w[x] + w[y] =< f.pending.stake
  BY <1>1, <1>2, <1>3, SumMember
<1> QED BY <1>2, <1>4, <1>5

(* A fair operation of one user keeps the shares of the pools those of the   *)
(* users.                                                                    *)
LEMMA TradeMatches ==
  ASSUME NEW us \in [Users -> UserAccount], NEW u \in Users, NEW s \in Accounts,
         NEW t \in Accounts, SameShares(us[u], s.user), Match(s.farm, us), Fair(s, t)
  PROVE  Match(t.farm, [us EXCEPT ![u] = t.user])
<1> DEFINE vs == [us EXCEPT ![u] = t.user]
           a == [x \in Users |-> us[x].active_stake]
           b == [x \in Users |-> vs[x].active_stake]
           w == [x \in Users |-> Waiting(us[x])]
           v == [x \in Users |-> Waiting(vs[x])]
<1>1. IsFiniteSet(Users)
  BY FarmAssumption
<1>2. t.user \in UserAccount
  BY DEF Accounts
<1>3. vs \in [Users -> UserAccount] /\ vs[u] = t.user /\ \A x \in Users \ {u} : vs[x] = us[x]
  BY <1>2
<1> HIDE DEF vs
<1>4. /\ \A x \in Users : a[x] \in Nat /\ b[x] \in Nat /\ w[x] \in Nat /\ v[x] \in Nat
      /\ a[u] = s.user.active_stake /\ b[u] = t.user.active_stake
      /\ w[u] = Waiting(s.user) /\ v[u] = Waiting(t.user)
      /\ \A x \in Users \ {u} : b[x] = a[x] /\ v[x] = w[x]
  BY <1>3 DEF UserAccount, Waiting, SameShares
<1>5. /\ s.farm.active.stake = SumFunctionOnSet(a, Users)
      /\ s.farm.pending.stake = SumFunctionOnSet(w, Users)
  BY DEF Match, SumFunction
<1>6. Match(t.farm, vs) <=> /\ t.farm.active.stake = SumFunctionOnSet(b, Users)
                           /\ t.farm.pending.stake = SumFunctionOnSet(v, Users)
  BY DEF Match, SumFunction
<1> HIDE DEF a, b, w, v
<1>7. /\ SumFunctionOnSet(b, Users) = SumFunctionOnSet(a, Users) + b[u] - a[u]
      /\ SumFunctionOnSet(v, Users) = SumFunctionOnSet(w, Users) + v[u] - w[u]
  <2>1. \A x \in Users : a[x] \in Int /\ b[x] \in Int /\ w[x] \in Int /\ v[x] \in Int
    BY <1>4
  <2>2. SumFunctionOnSet(b, Users) = SumFunctionOnSet(a, Users) + b[u] - a[u]
    BY <1>1, <1>4, <2>1, SumUpdate
  <2>3. SumFunctionOnSet(v, Users) = SumFunctionOnSet(w, Users) + v[u] - w[u]
    <3>1. /\ \A x \in Users : w[x] \in Int /\ v[x] \in Int
          /\ \A x \in Users \ {u} : v[x] = w[x]
      BY <1>4, <2>1
    <3> QED BY <1>1, <3>1, SumUpdate
  <2> QED BY <2>2, <2>3
<1>8. /\ t.farm.active.stake - b[u] = s.farm.active.stake - a[u]
      /\ t.farm.pending.stake - v[u] = s.farm.pending.stake - w[u]
  BY <1>4 DEF Fair, FairTrade
<1>9. /\ s.farm.active.stake \in Nat /\ s.farm.pending.stake \in Nat
      /\ t.farm.active.stake \in Nat /\ t.farm.pending.stake \in Nat
      /\ a[u] \in Nat /\ b[u] \in Nat /\ w[u] \in Nat /\ v[u] \in Nat
  BY <1>4 DEF Accounts, FarmAccount, Pool
<1>10. Match(t.farm, vs)
  BY <1>5, <1>6, <1>7, <1>8, <1>9
<1> QED BY <1>10 DEF vs

(* What all shares of the pools are spared, those of a user are. *)
LEMMA AllSparedWorth ==
  ASSUME NEW us \in [Users -> UserAccount], NEW f \in FarmAccount, NEW g, Match(f, us),
         SparesAll(f, g), NEW x \in Users
  PROVE  Worth(us[x], f, g)
<1>1. us[x].active_stake =< f.active.stake /\ Waiting(us[x]) =< f.pending.stake
  BY SharesWithinPools
<1>2. /\ us[x].active_stake \in Nat
      /\ us[x].pending_deposit_stake \in Nat /\ us[x].pending_withdrawal_unstake \in Nat
      /\ f.pending.stake \in Nat
  BY DEF UserAccount, FarmAccount, Pool
<1>3. /\ us[x].pending_deposit_stake =< f.pending.stake
      /\ us[x].pending_withdrawal_unstake =< f.pending.stake
  BY <1>1, <1>2 DEF Waiting
<1> QED BY <1>1, <1>2, <1>3 DEF SparesAll, Worth

(* A fair operation of one user spares the others, and the user too when it  *)
(* leaves the account alone.                                                 *)
LEMMA TradeSpares ==
  ASSUME NEW us \in [Users -> UserAccount], NEW u \in Users, NEW s \in Accounts,
         NEW t \in Accounts, SameShares(us[u], s.user), Match(s.farm, us), FairToAll(s, t)
  PROVE  /\ Match(t.farm, [us EXCEPT ![u] = t.user])
         /\ \A x \in Users \ {u} : Worth(us[x], s.farm, t.farm)
         /\ t.user = us[u] => Worth(us[u], s.farm, t.farm)
<1>1. Fair(s, t) /\ s.farm \in FarmAccount
  BY DEF FairToAll, Accounts
<1>2. Match(t.farm, [us EXCEPT ![u] = t.user])
  BY <1>1, TradeMatches
<1>3. ASSUME NEW x \in Users \ {u} PROVE Worth(us[x], s.farm, t.farm)
  <2>1. /\ us[u].active_stake + us[x].active_stake =< s.farm.active.stake
        /\ Waiting(us[u]) + Waiting(us[x]) =< s.farm.pending.stake
    BY <1>1, <1>3, SharesWithinPools
  <2>2. us[u].active_stake = s.user.active_stake /\ Waiting(us[u]) = Waiting(s.user)
    BY DEF SameShares, Waiting
  <2>3. /\ us[x].active_stake \in Nat /\ Waiting(s.user) \in Nat /\ s.user.active_stake \in Nat
        /\ us[x].pending_deposit_stake \in Nat /\ us[x].pending_withdrawal_unstake \in Nat
        /\ s.farm.pending.stake \in Nat /\ s.farm.active.stake \in Nat
    BY <1>1, <1>3 DEF Accounts, UserAccount, FarmAccount, Pool, Waiting
  <2>4. /\ us[x].active_stake + s.user.active_stake =< s.farm.active.stake
        /\ us[x].pending_deposit_stake + Waiting(s.user) =< s.farm.pending.stake
        /\ us[x].pending_withdrawal_unstake + Waiting(s.user) =< s.farm.pending.stake
    <3>1. Waiting(us[x]) = us[x].pending_deposit_stake + us[x].pending_withdrawal_unstake
      BY DEF Waiting
    <3> QED BY <2>1, <2>2, <2>3, <3>1
  <2> QED BY <1>1, <2>3, <2>4 DEF Fair, FairTrade, Worth
<1>4. ASSUME t.user = us[u] PROVE Worth(us[u], s.farm, t.farm)
  <2>1. SameShares(s.user, t.user)
    BY <1>4 DEF SameShares
  <2>2. SparesAll(s.farm, t.farm)
    BY <2>1 DEF FairToAll
  <2> QED BY <1>1, <2>2, AllSparedWorth
<1> QED BY <1>2, <1>3, <1>4

-----------------------------------------------------------------------------
(* Each instruction keeps the shares of the pools those of the users *)

(* Inductive: the types and the shares. *)
SharesInv == TypeOK /\ Match(farm, users)

KeepsShares == Match(farm', users') /\ Spares(users, users', farm, farm')

(* An instruction of a user on the user's own account. *)
LEMMA OwnTradeShares ==
  ASSUME SharesInv, NEW u \in Users, NEW t \in Accounts, FairToAll(Of(u), t), Becomes(u, t)
  PROVE  KeepsShares
<1>1. /\ users \in [Users -> UserAccount] /\ Of(u) \in Accounts
      /\ Of(u).farm = farm /\ Of(u).user = users[u]
  BY OfTypes DEF SharesInv, TypeOK
<1>2. SameShares(users[u], Of(u).user) /\ Match(Of(u).farm, users)
  BY <1>1 DEF SameShares, SharesInv
<1>3. farm' = t.farm /\ users' = [users EXCEPT ![u] = t.user]
  BY DEF Becomes
<1>4. /\ Match(t.farm, [users EXCEPT ![u] = t.user])
      /\ \A x \in Users \ {u} : Worth(users[x], farm, t.farm)
      /\ t.user = users[u] => Worth(users[u], farm, t.farm)
  BY <1>1, <1>2, TradeSpares
<1>5. users'[u] = t.user
  BY <1>1, <1>3
<1> QED BY <1>3, <1>4, <1>5 DEF KeepsShares, Spares

(* An instruction that leaves the users alone. *)
LEMMA FarmTradeShares ==
  ASSUME SharesInv, UNCHANGED users,
         farm'.active.stake = farm.active.stake, farm'.pending.stake = farm.pending.stake
  PROVE  /\ Match(farm', users')
         /\ SparesAll(farm, farm') => KeepsShares
<1>1. Match(farm', users')
  BY DEF SharesInv, Match
<1>2. ASSUME SparesAll(farm, farm') PROVE Spares(users, users', farm, farm')
  BY <1>2, AllSparedWorth DEF Spares, SharesInv, TypeOK
<1> QED BY <1>1, <1>2 DEF KeepsShares

(* One that leaves the pools alone too. *)
LEMMA PoolsAloneShares ==
  ASSUME SharesInv, UNCHANGED users, LeavesPools(farm, farm')
  PROVE  KeepsShares
<1>1. farm'.active = farm.active /\ farm'.pending = farm.pending /\ farm \in FarmAccount
  BY DEF LeavesPools, SharesInv, TypeOK
<1>2. SparesAll(farm, farm')
  BY <1>1, SamePoolsSpareAll
<1> QED BY <1>1, <1>2, FarmTradeShares

(* The instructions of a user on the user's own account. *)
LEMMA UserInstructionShares ==
  ASSUME SharesInv, NEW u \in Users,
         \/ HandleInitializeUser(u)
         \/ HandleRefreshUserState(u)
         \/ \E amount \in StakeAmounts : HandleStake(u, amount)
         \/ \E shares \in UnstakeShares : HandleUnstake(u, shares)
         \/ HandleWithdrawUnstakedDeposits(u)
         \/ \E stake \in DelegatedStakes : HandleSetStakeDelegated(u, stake)
  PROVE  KeepsShares
<1>1. /\ TypeOK /\ Of(u) \in Accounts /\ env \in Environment /\ Of(u).farm = farm /\ now \in Nat
      /\ Of(u).user = users[u] /\ users[u] \in UserAccount
  BY OfTypes DEF SharesInv, TypeOK
<1>2. CASE HandleInitializeUser(u)
  <2> DEFINE t == [farm |-> farm, user |-> InitializeUser(users[u], now)]
  <2>1. Becomes(u, t)
    BY <1>2 DEF HandleInitializeUser, Becomes
  <2>2. InitializeUser(users[u], now) \in UserAccount /\ SameShares(users[u], t.user)
    BY <1>1 DEF InitializeUser, UserAccount, SameShares
  <2>3. t \in Accounts /\ LeavesShares(Of(u), t)
    BY <1>1, <2>2 DEF Accounts, LeavesShares
  <2> HIDE DEF t
  <2>4. FairToAll(Of(u), t)
    BY <1>1, <2>3, LeavesSharesFairToAll
  <2> QED BY <2>1, <2>3, <2>4, OwnTradeShares
<1>3. CASE HandleRefreshUserState(u)
  <2> DEFINE t == UserRefreshState(Of(u), env)
  <2>1. UserRefreshStateOk(Of(u), env) /\ Becomes(u, t)
    BY <1>3 DEF HandleRefreshUserState
  <2>2. t \in Accounts /\ FairToAll(Of(u), t)
    BY <1>1, <2>1, UserRefreshStateBooks, UserRefreshStateFair
  <2> HIDE DEF t
  <2> QED BY <2>1, <2>2, OwnTradeShares
<1>4. ASSUME NEW amount \in StakeAmounts, HandleStake(u, amount) PROVE KeepsShares
  <2> DEFINE tokens == StakedTokens(u, amount)
             t == Stake(Of(u), tokens, env)
  <2>1. StakeOk(Of(u), tokens, env) /\ Becomes(u, t)
    BY <1>4 DEF HandleStake
  <2>2. tokens \in Nat
    BY <1>1, StakedTokensNat
  <2> HIDE DEF tokens
  <2>3. t \in Accounts /\ FairToAll(Of(u), t)
    BY <1>1, <2>1, <2>2, StakeBooks, StakeFair
  <2> HIDE DEF t
  <2> QED BY <2>1, <2>3, OwnTradeShares
<1>5. ASSUME NEW shares \in UnstakeShares, HandleUnstake(u, shares) PROVE KeepsShares
  <2> DEFINE t == Unstake(Of(u), shares, env)
  <2>1. UnstakeOk(Of(u), shares, env) /\ Becomes(u, t)
    BY <1>5 DEF HandleUnstake
  <2>2. shares \in Nat
    BY FarmAssumption
  <2>3. t \in Accounts /\ FairToAll(Of(u), t)
    BY <1>1, <2>1, <2>2, UnstakeBooks, UnstakeFair
  <2> HIDE DEF t
  <2> QED BY <2>1, <2>3, OwnTradeShares
<1>6. CASE HandleWithdrawUnstakedDeposits(u)
  <2> DEFINE t == WithdrawUnstakedDeposits(Of(u))
  <2>1. WithdrawUnstakedDepositsOk(Of(u), now) /\ Becomes(u, t)
    BY <1>6 DEF HandleWithdrawUnstakedDeposits
  <2>2. t \in Accounts /\ FairToAll(Of(u), t)
    BY <1>1, <2>1, WithdrawUnstakedDepositsBooks, WithdrawUnstakedDepositsFairToAll
  <2> HIDE DEF t
  <2> QED BY <2>1, <2>2, OwnTradeShares
<1>7. ASSUME NEW stake \in DelegatedStakes, HandleSetStakeDelegated(u, stake) PROVE KeepsShares
  <2> DEFINE t == SetStake(Of(u), stake, env)
  <2>1. SetStakeOk(Of(u), stake, env) /\ Becomes(u, t)
    BY <1>7 DEF HandleSetStakeDelegated
  <2>2. stake \in Nat
    BY FarmAssumption
  <2>3. t \in Accounts /\ FairToAll(Of(u), t)
    BY <1>1, <2>1, <2>2, SetStakeTypes, SetStakeFair
  <2> HIDE DEF t
  <2> QED BY <2>1, <2>3, OwnTradeShares
<1> QED BY <1>2, <1>3, <1>4, <1>5, <1>6, <1>7

(* What is worth no less twice is worth no less. *)
LEMMA WorthTransitive ==
  ASSUME NEW user \in UserAccount,
         NEW f \in FarmAccount, NEW g \in FarmAccount, NEW h \in FarmAccount,
         Worth(user, f, g), Worth(user, g, h)
  PROVE  Worth(user, f, h)
<1>1. ASSUME NEW x \in Nat, NEW p \in Pool, NEW q \in Pool, NEW r \in Pool,
             KeepsValue(x, p, q), KeepsValue(x, q, r)
      PROVE  KeepsValue(x, p, r)
  <2>1. AmountFor(x, p) \in Nat /\ AmountFor(x, q) \in Nat /\ AmountFor(x, r) \in Nat
    BY AmountForNat
  <2> QED BY <1>1, <2>1 DEF KeepsValue
<1>2. /\ user.active_stake \in Nat
      /\ user.pending_deposit_stake \in Nat /\ user.pending_withdrawal_unstake \in Nat
  BY DEF UserAccount
<1>3. /\ f.active \in Pool /\ g.active \in Pool /\ h.active \in Pool
      /\ f.pending \in Pool /\ g.pending \in Pool /\ h.pending \in Pool
  BY DEF FarmAccount
<1> QED BY <1>1, <1>2, <1>3 DEF Worth

(* transfer_ownership: old unstakes and withdraws, then new stakes. *)
LEMMA TransferOwnershipShares ==
  ASSUME SharesInv, NEW old \in Users, NEW new \in Users, HandleTransferOwnership(old, new)
  PROVE  KeepsShares
<1> DEFINE s == Of(old)
           shares == users[old].active_stake
           out == TransferUnstaked(old)
           paid == TransferWithdrawn(old)
           amount == TransferredAmount(old)
           heir == [farm |-> paid.farm, user |-> Heir(new)]
           moved == Stake(heir, amount, env)
           mid == [users EXCEPT ![old] = paid.user]
<1>1. TypeOK /\ now \in Nat /\ farm \in FarmAccount /\ users \in [Users -> UserAccount]
  BY DEF SharesInv, TypeOK
<1>2. s \in Accounts /\ env \in Environment /\ s.farm = farm /\ s.user = users[old]
  BY <1>1, OfTypes
<1>3. /\ old # new
      /\ UnstakeOk(s, shares, env)
      /\ WithdrawUnstakedDepositsOk(out, now)
      /\ StakeOk(heir, amount, env)
      /\ farm' = moved.farm
      /\ users' = [users EXCEPT ![old] = paid.user, ![new] = moved.user]
  BY DEF HandleTransferOwnership
<1>4. /\ out = Unstake(s, shares, env)
      /\ paid = WithdrawUnstakedDeposits(out) /\ amount = AmountToWithdraw(out)
  BY DEF TransferUnstaked, TransferWithdrawn, TransferredAmount
<1>5. shares \in Nat
  BY <1>1 DEF UserAccount
<1>6. Heir(new) \in UserAccount /\ SameShares(users[new], Heir(new))
  BY <1>1 DEF Heir, InitializeUser, UserAccount, SameShares
<1> HIDE DEF s, shares, out, paid, amount
<1>7. /\ out \in Accounts /\ Fair(s, out) /\ out.user.active_stake < s.user.active_stake
  BY <1>2, <1>3, <1>4, <1>5, UnstakeBooks, UnstakeFair DEF FairToAll
<1>8. /\ paid \in Accounts /\ amount \in Nat /\ Fair(out, paid)
      /\ paid.user.active_stake = out.user.active_stake
  BY <1>1, <1>3, <1>4, <1>7, WithdrawUnstakedDepositsBooks, WithdrawUnstakedDepositsFairToAll
  DEF FairToAll
<1>9. FairToAll(s, paid) /\ paid.user # users[old]
  <2>1. Fair(s, paid)
    BY <1>2, <1>7, <1>8, FairTransitive
  <2>2. paid.user.active_stake < s.user.active_stake /\ s.user.active_stake \in Nat
    BY <1>2, <1>7, <1>8 DEF Accounts, UserAccount
  <2> QED BY <1>2, <2>1, <2>2 DEF FairToAll, SameShares
<1>10. /\ heir \in Accounts /\ heir.farm = paid.farm /\ heir.user = Heir(new)
  BY <1>6, <1>8 DEF Accounts
<1> HIDE DEF heir
<1>11. moved \in Accounts /\ FairToAll(heir, moved)
  BY <1>2, <1>3, <1>8, <1>10, StakeBooks, StakeFair
<1> HIDE DEF moved
<1>12. /\ paid.user \in UserAccount /\ paid.farm \in FarmAccount
       /\ moved.user \in UserAccount /\ moved.farm \in FarmAccount
  BY <1>8, <1>11 DEF Accounts
<1>13. /\ mid \in [Users -> UserAccount]
       /\ mid[old] = paid.user /\ \A x \in Users \ {old} : mid[x] = users[x]
       /\ users' = [mid EXCEPT ![new] = moved.user]
  BY <1>1, <1>3, <1>12
<1>14. Match(paid.farm, mid) /\ \A x \in Users \ {old} : Worth(users[x], farm, paid.farm)
  <2>1. SameShares(users[old], s.user) /\ Match(s.farm, users)
    BY <1>2 DEF SameShares, SharesInv
  <2> QED BY <1>1, <1>2, <1>8, <1>9, <2>1, TradeSpares
<1> HIDE DEF mid
<1>15. /\ Match(moved.farm, users')
       /\ \A x \in Users \ {new} : Worth(mid[x], paid.farm, moved.farm)
       /\ moved.user = mid[new] => Worth(mid[new], paid.farm, moved.farm)
  <2>1. SameShares(mid[new], heir.user) /\ Match(heir.farm, mid)
    BY <1>3, <1>6, <1>10, <1>13, <1>14
  <2> QED BY <1>10, <1>11, <1>13, <2>1, TradeSpares
<1>16. ASSUME NEW x \in Users, users'[x] = users[x] PROVE Worth(users[x], farm, farm')
  <2>1. x # old
    BY <1>1, <1>3, <1>9, <1>16
  <2>2. mid[x] = users[x] /\ Worth(users[x], farm, paid.farm)
    BY <1>13, <1>14, <2>1
  <2>3. Worth(users[x], paid.farm, moved.farm)
    BY <1>13, <1>15, <1>16, <2>2
  <2>4. users[x] \in UserAccount
    BY <1>1
  <2> QED BY <1>1, <1>3, <1>12, <2>2, <2>3, <2>4, WorthTransitive
<1> QED BY <1>3, <1>15, <1>16 DEF KeepsShares, Spares

(* The instructions on the farm alone: only the withdraw authority takes     *)
(* value from the shares, and it takes no share.                             *)
LEMMA FarmInstructionShares ==
  ASSUME SharesInv, FarmInstruction
  PROVE  Match(farm', users') /\ (VaultWithdrawal \/ KeepsShares)
<1>1. /\ farm \in FarmAccount /\ env \in Environment
      /\ farm.active \in Pool /\ farm.pending \in Pool
  BY FarmFields DEF SharesInv, TypeOK, env, Environment
<1>2. UNCHANGED users
  BY DEF FarmInstruction, HandleRefreshFarm, HandleWithdrawSlashedAmount, HandleInitializeReward,
         HandleUpdateFarmConfig, HandleDepositToFarmVault, HandleWithdrawFromFarmVault
<1>3. CASE HandleRefreshFarm
  <2> DEFINE g == RefreshGlobalRewards(farm, env)
  <2>1. farm' = g /\ RefreshGlobalRewardsOk(farm, env)
    BY <1>3 DEF HandleRefreshFarm
  <2>2. LeavesPools(farm, g)
    BY <1>1, <2>1, RefreshGlobalRewardsIssues DEF OnlyIssues, LeavesPools
  <2> HIDE DEF g
  <2> QED BY <1>2, <2>1, <2>2, PoolsAloneShares DEF KeepsShares
<1>4. CASE HandleInitializeReward
  <2>1. LeavesPools(farm, farm')
    BY <1>1, <1>4, InitializeRewardLeavesPools DEF HandleInitializeReward
  <2> QED BY <1>2, <2>1, PoolsAloneShares DEF KeepsShares
<1>5. CASE HandleWithdrawSlashedAmount
  <2>1. LeavesPools(farm, farm')
    BY <1>1, <1>5 DEF HandleWithdrawSlashedAmount, LeavesPools, FarmAccount
  <2> QED BY <1>2, <2>1, PoolsAloneShares DEF KeepsShares
<1>6. ASSUME NEW config \in FarmConfigs, HandleUpdateFarmConfig(config) PROVE KeepsShares
  <2>1. farm'.active = farm.active /\ farm'.pending = farm.pending
    BY <1>1, <1>6 DEF HandleUpdateFarmConfig, FarmAccount
  <2>2. SparesAll(farm, farm')
    BY <1>1, <2>1, SamePoolsSpareAll
  <2> QED BY <1>2, <2>1, <2>2, FarmTradeShares
<1>7. ASSUME NEW amount \in VaultDeposits, HandleDepositToFarmVault(amount) PROVE KeepsShares
  <2> DEFINE g == IncreaseTotalAmount(farm, amount)
  <2>1. farm' = g /\ amount \in Nat
    BY <1>7, FarmAssumption DEF HandleDepositToFarmVault
  <2>2. /\ g.active.stake = farm.active.stake /\ g.active \in Pool
        /\ g.active.amount = farm.active.amount + amount
        /\ g.pending = farm.pending
    BY <1>1, <2>1 DEF IncreaseTotalAmount, FarmAccount, Pool
  <2> HIDE DEF g
  <2>3. ASSUME NEW x \in Nat, x =< farm.active.stake
        PROVE  KeepsValue(x, farm.active, g.active)
    <3>1. farm.active.amount \in Nat /\ farm.active.stake \in Nat
      BY <1>1 DEF Pool
    <3>2. x * farm.active.amount * g.active.stake =< x * g.active.amount * farm.active.stake
      <4> DEFINE a == farm.active.amount
                 d == farm.active.stake
      <4>1. a \in Nat /\ d \in Nat
        BY <3>1
      <4> HIDE DEF a, d
      <4>2. x * a \in Nat /\ x * amount \in Nat /\ x * (a + amount) = x * a + x * amount
        BY <2>1, <4>1
      <4>3. x * a =< x * (a + amount) /\ x * (a + amount) \in Nat
        BY <4>2
      <4>4. x * a * d =< x * (a + amount) * d
        BY <4>1, <4>2, <4>3
      <4> QED BY <2>2, <4>4 DEF a, d
    <3> QED BY <1>1, <2>2, <2>3, <3>2, PriceKeepsValue
  <2>4. SparesAll(farm, g)
    <3>1. ASSUME NEW x \in Nat PROVE KeepsValue(x, farm.pending, g.pending)
      BY <1>1, <2>2, AmountForNat DEF KeepsValue
    <3> QED BY <2>3, <3>1 DEF SparesAll
  <2> QED BY <1>2, <2>1, <2>2, <2>4, FarmTradeShares
<1>8. ASSUME NEW amount \in VaultWithdrawals, HandleWithdrawFromFarmVault(amount)
      PROVE  Match(farm', users') /\ VaultWithdrawal
  <2>1. farm' = WithdrawFarm(farm, amount)
    BY <1>8 DEF HandleWithdrawFromFarmVault
  <2>2. /\ WithdrawFarm(farm, amount).active.stake = farm.active.stake
        /\ WithdrawFarm(farm, amount).pending.stake = farm.pending.stake
    BY <1>1 DEF WithdrawFarm, FarmAccount, Pool
  <2>3. Match(farm', users')
    BY <1>2, <2>1, <2>2, FarmTradeShares
  <2>4. VaultWithdrawal
    BY <1>8 DEF VaultWithdrawal
  <2> QED BY <2>3, <2>4
<1>9. CASE \/ HandleRefreshFarm \/ HandleWithdrawSlashedAmount \/ HandleInitializeReward
           \/ \E config \in FarmConfigs : HandleUpdateFarmConfig(config)
           \/ \E amount \in VaultDeposits : HandleDepositToFarmVault(amount)
  BY <1>3, <1>4, <1>5, <1>6, <1>7, <1>9 DEF KeepsShares
<1> QED BY <1>8, <1>9 DEF FarmInstruction

(* The instructions on one reward. *)
LEMMA RewardInstructionShares ==
  ASSUME SharesInv, NEW i \in RewardIndex, RewardInstruction(i)
  PROVE  KeepsShares
<1>1. TypeOK /\ farm \in FarmAccount /\ env \in Environment
  BY DEF SharesInv, TypeOK, env, Environment
<1>2. ASSUME NEW u \in Users, HandleHarvestReward(u, i) PROVE KeepsShares
  <2> DEFINE t == Harvest(Of(u), i, env)
  <2>1. Of(u) \in Accounts
    BY <1>1, OfTypes
  <2>2. HarvestOk(Of(u), i, env) /\ Becomes(u, t)
    BY <1>2 DEF HandleHarvestReward
  <2>3. t \in Accounts /\ LeavesShares(Of(u), t)
    BY <1>1, <2>1, <2>2, HarvestPromises, HarvestLeavesShares
  <2> HIDE DEF t
  <2>4. FairToAll(Of(u), t)
    BY <2>1, <2>3, LeavesSharesFairToAll
  <2> QED BY <2>2, <2>3, <2>4, OwnTradeShares
<1>3. ASSUME NEW u \in Users, NEW amount \in CreditAmounts, HandleRewardUserOnce(u, i, amount)
      PROVE  KeepsShares
  <2> DEFINE t == RewardUserOnce(Of(u), i, amount)
  <2>1. Of(u) \in Accounts /\ amount \in Nat
    BY <1>1, OfTypes, FarmAssumption
  <2>2. Becomes(u, t)
    BY <1>3 DEF HandleRewardUserOnce
  <2>3. t \in Accounts /\ LeavesShares(Of(u), t)
    BY <2>1, RewardUserOncePromises, RewardUserOnceLeavesShares
  <2> HIDE DEF t
  <2>4. FairToAll(Of(u), t)
    BY <2>1, <2>3, LeavesSharesFairToAll
  <2> QED BY <2>2, <2>3, <2>4, OwnTradeShares
<1>4. ASSUME NEW amount \in RewardAmounts, HandleAddReward(i, amount)
      PROVE  LeavesPools(farm, farm') /\ UNCHANGED users
  BY <1>1, <1>4, FarmAssumption, RewardOperationsLeavePools DEF HandleAddReward, AddRewardOk
<1>5. ASSUME NEW amount \in RewardAmounts, HandleWithdrawReward(i, amount)
      PROVE  LeavesPools(farm, farm') /\ UNCHANGED users
  BY <1>1, <1>5, FarmAssumption, RewardOperationsLeavePools
  DEF HandleWithdrawReward, WithdrawRewardOk
<1>6. ASSUME NEW config \in RewardConfigs, HandleUpdateRewardConfig(i, config)
      PROVE  LeavesPools(farm, farm') /\ UNCHANGED users
  <2>1. 0 \in Nat /\ RefreshGlobalRewardsOk(farm, env)
    BY <1>6 DEF HandleUpdateRewardConfig, UpdateRewardConfigOk
  <2>2. LeavesPools(farm, UpdateRewardConfig(farm, i, config, env))
    BY <1>1, <2>1, RewardOperationsLeavePools
  <2> QED BY <1>6, <2>2 DEF HandleUpdateRewardConfig
<1>7. ASSUME NEW amount \in RewardAmounts, HandleWithdrawTreasury(i, amount)
      PROVE  LeavesPools(farm, farm') /\ UNCHANGED users
  BY <1>7 DEF HandleWithdrawTreasury, LeavesPools
<1> QED BY <1>2, <1>3, <1>4, <1>5, <1>6, <1>7, PoolsAloneShares DEF RewardInstruction

(* A new farm has no shares, and its users have none. *)
LEMMA InitShares == Init => SharesInv
<1> SUFFICES ASSUME Init PROVE SharesInv
  OBVIOUS
<1> DEFINE zero == [u \in Users |-> 0]
<1>1. TypeOK
  BY InitCustody DEF Custody
<1>2. farm.active.stake = 0 /\ farm.pending.stake = 0
  <2>1. farm \in InitFarms
    BY DEF Init
  <2>2. farm.active = EmptyPool /\ farm.pending = EmptyPool
    <3> HIDE DEF Init
    <3> QED BY <2>1, FarmAssumption, Zenon
  <2> QED BY <2>2 DEF EmptyPool
<1>3. \A u \in Users : users[u].active_stake = 0 /\ Waiting(users[u]) = 0
  BY DEF Init, NewUser, Waiting
<1>4. /\ [u \in Users |-> users[u].active_stake] = zero
      /\ [u \in Users |-> Waiting(users[u])] = zero
  BY <1>3
<1>5. SumFunctionOnSet(zero, Users) = 0
  <2>1. IsFiniteSet(Users) /\ \A x \in Users : zero[x] = 0
    BY FarmAssumption
  <2> HIDE DEF zero
  <2> QED BY <2>1, SumOfZeros
<1>6. SumFunction(zero) = 0
  BY <1>5 DEF SumFunction
<1>7. Match(farm, users)
  <2> HIDE DEF zero
  <2> QED BY <1>2, <1>4, <1>6 DEF Match
<1> QED BY <1>1, <1>7 DEF SharesInv

(* Whatever happens keeps the shares, and all but a withdrawal by the        *)
(* withdraw authority keeps what they are worth.                             *)
LEMMA NextShares ==
  ASSUME SharesInv, [Next]_vars
  PROVE  Match(farm', users') /\ (VaultWithdrawal \/ KeepsShares)
<1>1. ASSUME NEW u \in Users, UserInstruction(u) PROVE KeepsShares
  BY <1>1, UserInstructionShares, TransferOwnershipShares DEF UserInstruction
<1>2. CASE FarmInstruction
  BY <1>2, FarmInstructionShares
<1>3. ASSUME NEW i \in RewardIndex, RewardInstruction(i) PROVE KeepsShares
  BY <1>3, RewardInstructionShares
<1>4. ASSUME GlobalInstruction \/ Tick \/ UpdatePrice \/ UNCHANGED vars PROVE KeepsShares
  <2>1. LeavesPools(farm, farm') /\ UNCHANGED users
    BY <1>4 DEF GlobalInstruction, HandleUpdateGlobalConfig, Tick, UpdatePrice, vars,
                LeavesPools
  <2> QED BY <2>1, PoolsAloneShares
<1>5. CASE \/ \E u \in Users : UserInstruction(u)
           \/ \E i \in RewardIndex : RewardInstruction(i)
           \/ GlobalInstruction \/ Tick \/ UpdatePrice \/ UNCHANGED vars
  <2>1. KeepsShares
    BY <1>1, <1>3, <1>4, <1>5
  <2> QED BY <2>1 DEF KeepsShares
<1> QED BY <1>2, <1>5 DEF Next

(* Every reachable state has what the theorems below state. *)
LEMMA AlwaysShares == Spec => []SharesInv
<1>1. SharesInv /\ TypeOK' /\ [Next]_vars => SharesInv'
  <2> SUFFICES ASSUME SharesInv, TypeOK', [Next]_vars PROVE SharesInv'
    OBVIOUS
  <2>1. Match(farm', users')
    BY NextShares
  <2>2. Match(farm, users)'
    BY <2>1 DEF Match
  <2> QED BY <2>2 DEF SharesInv
<1> QED BY <1>1, InitShares, TypeCorrect, PTL DEF Spec

(* The shares of each pool are always the shares of its users, however many  *)
(* there are: the farm's totals and the accounts of the users are changed by *)
(* different calls of each instruction, and a transfer of ownership changes  *)
(* the accounts of two.                                                      *)
THEOREM SharesAddUp == Spec => []SharesMatchPools
<1>1. SharesInv => SharesMatchPools
  BY DEF SharesInv, Match, Waiting, SharesMatchPools
<1> QED BY <1>1, AlwaysShares, PTL

(* No instruction of anyone but the withdraw authority makes the shares of a *)
(* user whose account it leaves alone worth less, rounding included.         *)
THEOREM NoneLosesToOthers == Spec => OthersKeepTheirValue
<1> DEFINE Kept ==
      VaultWithdrawal \/
      \A u \in Users : users'[u] = users[u] =>
        /\ KeepsValue(users[u].active_stake, farm.active, farm'.active)
        /\ KeepsValue(users[u].pending_deposit_stake, farm.pending, farm'.pending)
        /\ KeepsValue(users[u].pending_withdrawal_unstake, farm.pending, farm'.pending)
<1>1. SharesInv /\ [Next]_vars => Kept
  BY NextShares DEF KeepsShares, Spares, Worth
<1> HIDE DEF Kept
<1>2. Spec => [][Kept]_vars
  BY <1>1, AlwaysShares, PTL DEF Spec
<1> QED BY <1>2 DEF OthersKeepTheirValue, Kept

(* A withdrawal that is due goes through: the shares it takes are in the     *)
(* pool, and the farm's token account holds what they are worth.             *)
THEOREM DueWithdrawalsGoThrough == Spec => []DueWithdrawalGoesThrough
<1>1. ASSUME SharesInv, VaultBacksLiabilities PROVE DueWithdrawalGoesThrough
  <2> SUFFICES ASSUME NEW u \in Users, ~Delegated, WithdrawalDue(u)
               PROVE  /\ WithdrawUnstakedDepositsOk(Of(u), now)
                      /\ AmountToWithdraw(Of(u)) =< farm_vault
    BY DEF DueWithdrawalGoesThrough
  <2> DEFINE shares == users[u].pending_withdrawal_unstake
  <2>1. /\ farm \in FarmAccount /\ users \in [Users -> UserAccount] /\ users[u] \in UserAccount
        /\ Match(farm, users)
    BY <1>1 DEF SharesInv, TypeOK
  <2>2. /\ shares \in Nat /\ users[u].pending_deposit_stake \in Nat
        /\ farm.pending \in Pool /\ farm.pending.stake \in Nat /\ farm.pending.amount \in Nat
        /\ farm.active.amount \in Nat /\ farm.slashed \in Nat
    BY <2>1, FarmFields DEF UserAccount
  <2>3. Waiting(users[u]) =< farm.pending.stake
    BY <2>1, SharesWithinPools
  <2>4. RemoveSharesOk(farm.pending, shares)
    BY <2>2, <2>3 DEF Waiting, RemoveSharesOk
  <2>5. AmountFor(shares, farm.pending) \in 0 .. farm.pending.amount
    BY <2>2, <2>4, AmountForBound
  <2>6. farm_vault = farm.active.amount + farm.pending.amount + farm.slashed
    BY <1>1 DEF VaultBacksLiabilities, Liabilities
  <2>7. AmountFor(shares, farm.pending) =< farm_vault
    BY <2>2, <2>5, <2>6
  <2>8. shares > 0 /\ users[u].pending_withdrawal_unstake_ts =< now
    BY DEF WithdrawalDue
  <2> QED BY <2>4, <2>7, <2>8 DEF WithdrawUnstakedDepositsOk, AmountToWithdraw, Of
<1> QED BY <1>1, AlwaysShares, VaultSolvent, PTL

-----------------------------------------------------------------------------
(* The counters of the accounts fit the machine integers that hold them.     *)

(* What the operators check of the sums they form; the shares of a user are  *)
(* left to the pools'.                                                       *)
PoolFits(pool) == IsU64(pool.amount) /\ IsU128(pool.stake)

RewardFits(r) ==
  /\ IsU64(r.rewards_available) /\ IsU64(r.rewards_issued_unclaimed)
  /\ IsU64(r.rewards_issued_cumulative) /\ IsU128(r.reward_per_share_scaled)

FarmFits(f) ==
  /\ PoolFits(f.active) /\ PoolFits(f.pending)
  /\ IsU64(f.slashed) /\ IsU64(f.slashed_amount_cumulative)
  /\ \A i \in RewardIndex : RewardFits(f.rewards[i])

UserFits(user) ==
  /\ IsU64(user.pending_deposit_stake_ts) /\ IsU64(user.pending_withdrawal_unstake_ts)
  /\ \A i \in RewardIndex : /\ IsU64(user.rewards_issued_unclaimed[i])
                            /\ IsU128(user.rewards_tally[i])

Fits(s) == FarmFits(s.farm) /\ UserFits(s.user)

(* What is less than a machine integer is one. *)
LEMMA LessFits ==
  ASSUME NEW a \in Nat, NEW b, a =< b
  PROVE  /\ IsU64(b) => IsU64(a)
         /\ IsU128(b) => IsU128(a)
BY MathAssumption DEF IsU64, IsU128

-----------------------------------------------------------------------------
(* The operations on the shares *)

(* Shares that leave make the counters of the pool no larger. *)
LEMMA RemoveSharesFits ==
  ASSUME NEW pool \in Pool, NEW shares \in Nat, RemoveSharesOk(pool, shares), PoolFits(pool)
  PROVE  PoolFits(RemoveShares(pool, shares))
<1> DEFINE next == RemoveShares(pool, shares)
<1>1. pool.stake \in Nat /\ pool.amount \in Nat
  BY DEF Pool
<1>2. /\ next.stake = pool.stake - shares /\ shares =< pool.stake
      /\ next.amount = pool.amount - AmountFor(shares, pool)
  BY DEF RemoveShares, RemoveSharesOk
<1>3. AmountFor(shares, pool) \in 0 .. pool.amount
  BY AmountForBound
<1> HIDE DEF next
<1>4. /\ next.stake \in Nat /\ next.stake =< pool.stake
      /\ next.amount \in Nat /\ next.amount =< pool.amount
  BY <1>1, <1>2, <1>3
<1>5. PoolFits(next)
  BY <1>4, LessFits DEF PoolFits
<1> QED BY <1>5 DEF next

(* What a deposit adds was checked. *)
LEMMA AddAmountFits ==
  ASSUME NEW pool \in Pool, NEW amount \in Nat, AddAmountOk(pool, amount)
  PROVE  PoolFits(AddAmount(pool, amount))
BY DEF AddAmountOk, AddAmount, PoolFits

(* A deposit that waits for its warmup. *)
LEMMA AddPendingDepositStakeFits ==
  ASSUME NEW s \in Accounts, NEW amount \in Nat, AddAmountOk(s.farm.pending, amount), Fits(s)
  PROVE  Fits(AddPendingDepositStake(s, amount))
<1> DEFINE t == AddPendingDepositStake(s, amount)
<1>1. /\ t.farm.active = s.farm.active /\ t.farm.pending = AddAmount(s.farm.pending, amount)
      /\ t.farm.slashed = s.farm.slashed /\ t.farm.rewards = s.farm.rewards
      /\ t.farm.slashed_amount_cumulative = s.farm.slashed_amount_cumulative
  BY DEF AddPendingDepositStake, Accounts, FarmAccount
<1>2. /\ t.user.pending_deposit_stake_ts = s.user.pending_deposit_stake_ts
      /\ t.user.pending_withdrawal_unstake_ts = s.user.pending_withdrawal_unstake_ts
      /\ t.user.rewards_issued_unclaimed = s.user.rewards_issued_unclaimed
      /\ t.user.rewards_tally = s.user.rewards_tally
  BY DEF AddPendingDepositStake, Accounts, UserAccount
<1>3. PoolFits(AddAmount(s.farm.pending, amount))
  BY AddAmountFits, FarmFields DEF Accounts
<1> HIDE DEF t
<1>4. Fits(t)
  BY <1>1, <1>2, <1>3 DEF Fits, FarmFits, UserFits
<1> QED BY <1>4 DEF t

(* A deposit that is active at once. *)
LEMMA AddActiveStakeFits ==
  ASSUME NEW s \in Accounts, NEW amount \in Nat, AddAmountOk(s.farm.active, amount), Fits(s)
  PROVE  Fits(AddActiveStake(s, amount))
<1> DEFINE t == AddActiveStake(s, amount)
<1>1. /\ t.farm.pending = s.farm.pending /\ t.farm.active = AddAmount(s.farm.active, amount)
      /\ t.farm.slashed = s.farm.slashed /\ t.farm.rewards = s.farm.rewards
      /\ t.farm.slashed_amount_cumulative = s.farm.slashed_amount_cumulative
  BY DEF AddActiveStake, Accounts, FarmAccount
<1>2. /\ t.user.pending_deposit_stake_ts = s.user.pending_deposit_stake_ts
      /\ t.user.pending_withdrawal_unstake_ts = s.user.pending_withdrawal_unstake_ts
      /\ t.user.rewards_issued_unclaimed = s.user.rewards_issued_unclaimed
      /\ t.user.rewards_tally = s.user.rewards_tally
  BY DEF AddActiveStake, Accounts, UserAccount
<1>3. PoolFits(AddAmount(s.farm.active, amount))
  BY AddAmountFits, FarmFields DEF Accounts
<1> HIDE DEF t
<1>4. Fits(t)
  BY <1>1, <1>2, <1>3 DEF Fits, FarmFits, UserFits
<1> QED BY <1>4 DEF t

(* A deposit that becomes active. *)
LEMMA ActivatePendingStakeFits ==
  ASSUME NEW s \in Accounts, ActivatePendingStakeOk(s), Fits(s)
  PROVE  Fits(ActivatePendingStake(s))
<1> DEFINE t == RemovePendingDepositStake(s)
           amount == ActivatedAmount(s)
<1>1. t \in Accounts /\ amount \in Nat
  BY RemovePendingDepositStakeBooks DEF ActivatePendingStakeOk
<1>2. /\ t.farm.active = s.farm.active /\ t.farm.slashed = s.farm.slashed
      /\ t.farm.slashed_amount_cumulative = s.farm.slashed_amount_cumulative
      /\ t.farm.pending = RemoveShares(s.farm.pending, s.user.pending_deposit_stake)
      /\ t.farm.rewards = s.farm.rewards
  BY DEF RemovePendingDepositStake, Accounts, FarmAccount
<1>3. /\ t.user.pending_deposit_stake_ts = s.user.pending_deposit_stake_ts
      /\ t.user.pending_withdrawal_unstake_ts = s.user.pending_withdrawal_unstake_ts
      /\ t.user.rewards_issued_unclaimed = s.user.rewards_issued_unclaimed
      /\ t.user.rewards_tally = s.user.rewards_tally
  BY DEF RemovePendingDepositStake, Accounts, UserAccount
<1>4. ActivatePendingStake(s) = AddActiveStake(t, amount)
  BY DEF ActivatePendingStake
<1>5. AddAmountOk(t.farm.active, amount)
  BY <1>2 DEF ActivatePendingStakeOk
<1>6. PoolFits(RemoveShares(s.farm.pending, s.user.pending_deposit_stake))
  <2>1. s.farm.pending \in Pool /\ s.user.pending_deposit_stake \in Nat
    BY FarmFields DEF Accounts, UserAccount
  <2>2. PoolFits(s.farm.pending)
    BY DEF Fits, FarmFits
  <2> QED BY <2>1, <2>2, RemoveSharesFits DEF ActivatePendingStakeOk
<1> HIDE DEF t, amount
<1>7. Fits(t)
  BY <1>2, <1>3, <1>6 DEF Fits, FarmFits, UserFits
<1> QED BY <1>1, <1>4, <1>5, <1>7, AddActiveStakeFits

(* Shares that leave the active pool and wait for the cooldown. *)
LEMMA MoveToPendingWithdrawalFits ==
  ASSUME NEW s \in Accounts, NEW shares \in Nat, NEW ts \in Nat,
         MoveToPendingWithdrawalOk(s, shares, ts), Fits(s)
  PROVE  /\ Fits(MoveToPendingWithdrawal(s, shares, ts))
         /\ MoveToPendingWithdrawal(s, shares, ts).farm.slashed = s.farm.slashed
         /\ MoveToPendingWithdrawal(s, shares, ts).farm.slashed_amount_cumulative
              = s.farm.slashed_amount_cumulative
<1> DEFINE amount == UnstakedAmount(s, shares, ts)
           t == MoveToPendingWithdrawal(s, shares, ts)
<1>1. /\ s.farm \in FarmAccount /\ s.farm.active \in Pool /\ s.farm.pending \in Pool
      /\ s.user \in UserAccount
  BY FarmFields DEF Accounts
<1>2. amount \in Nat
  BY UnstakePenaltyBound DEF UnstakedAmount
<1>3. AddAmountOk(s.farm.pending, amount) /\ RemoveSharesOk(s.farm.active, shares)
  BY DEF MoveToPendingWithdrawalOk
<1> HIDE DEF amount
<1>4. /\ t.farm.active = RemoveShares(s.farm.active, shares)
      /\ t.farm.pending = AddAmount(s.farm.pending, amount)
      /\ t.farm.slashed = s.farm.slashed /\ t.farm.rewards = s.farm.rewards
      /\ t.farm.slashed_amount_cumulative = s.farm.slashed_amount_cumulative
  BY <1>1 DEF MoveToPendingWithdrawal, AddPendingWithdrawalStake, RemoveActiveStake, FarmAccount,
              amount
<1>5. /\ t.user.pending_deposit_stake_ts = s.user.pending_deposit_stake_ts
      /\ t.user.pending_withdrawal_unstake_ts = s.user.pending_withdrawal_unstake_ts
      /\ t.user.rewards_issued_unclaimed = s.user.rewards_issued_unclaimed
      /\ t.user.rewards_tally = s.user.rewards_tally
  BY <1>1 DEF MoveToPendingWithdrawal, AddPendingWithdrawalStake, RemoveActiveStake, UserAccount
<1>6. PoolFits(RemoveShares(s.farm.active, shares)) /\ PoolFits(AddAmount(s.farm.pending, amount))
  BY <1>1, <1>2, <1>3, RemoveSharesFits, AddAmountFits DEF Fits, FarmFits
<1> HIDE DEF t
<1>7. Fits(t)
  BY <1>4, <1>5, <1>6 DEF Fits, FarmFits, UserFits
<1> QED BY <1>4, <1>7 DEF t

(* withdraw_unstaked_deposits *)
LEMMA WithdrawUnstakedDepositsFits ==
  ASSUME NEW s \in Accounts, NEW ts, WithdrawUnstakedDepositsOk(s, ts), Fits(s)
  PROVE  Fits(WithdrawUnstakedDeposits(s))
<1> DEFINE t == WithdrawUnstakedDeposits(s)
<1>1. /\ t.farm.active = s.farm.active /\ t.farm.slashed = s.farm.slashed
      /\ t.farm.slashed_amount_cumulative = s.farm.slashed_amount_cumulative
      /\ t.farm.pending = RemoveShares(s.farm.pending, s.user.pending_withdrawal_unstake)
      /\ t.farm.rewards = s.farm.rewards
  BY DEF WithdrawUnstakedDeposits, RemovePendingWithdrawalStake, Accounts, FarmAccount
<1>2. /\ t.user.pending_deposit_stake_ts = s.user.pending_deposit_stake_ts
      /\ t.user.pending_withdrawal_unstake_ts = s.user.pending_withdrawal_unstake_ts
      /\ t.user.rewards_issued_unclaimed = s.user.rewards_issued_unclaimed
      /\ t.user.rewards_tally = s.user.rewards_tally
  BY DEF WithdrawUnstakedDeposits, RemovePendingWithdrawalStake, Accounts, UserAccount
<1>3. PoolFits(RemoveShares(s.farm.pending, s.user.pending_withdrawal_unstake))
  <2>1. s.farm.pending \in Pool /\ s.user.pending_withdrawal_unstake \in Nat
    BY FarmFields DEF Accounts, UserAccount
  <2>2. PoolFits(s.farm.pending)
    BY DEF Fits, FarmFits
  <2> QED BY <2>1, <2>2, RemoveSharesFits DEF WithdrawUnstakedDepositsOk
<1> HIDE DEF t
<1>4. Fits(t)
  BY <1>1, <1>2, <1>3 DEF Fits, FarmFits, UserFits
<1> QED BY <1>4 DEF t

-----------------------------------------------------------------------------
(* The operations on the rewards *)

(* What an issuance adds was checked. *)
LEMMA RefreshGlobalRewardFits ==
  ASSUME NEW f \in FarmAccount, NEW r \in RewardInfo, NEW e \in Environment,
         RefreshGlobalRewardOk(f, r, e), RewardFits(r)
  PROVE  RewardFits(RefreshGlobalReward(f, r, e))
<1> DEFINE q == RefreshGlobalReward(f, r, e)
           issued == IssuedAmount(f, r, e)
<1>1. CASE e.ts = r.last_issuance_ts \/ f.active.stake = 0
  <2>1. q = [r EXCEPT !.last_issuance_ts = e.ts]
    BY <1>1 DEF RefreshGlobalReward
  <2> QED BY <2>1 DEF RewardFits, RewardInfo
<1>2. CASE /\ ~(e.ts = r.last_issuance_ts \/ f.active.stake = 0)
           /\ IssuableAmount(f, r, e) = 0
  <2>1. q = r
    BY <1>2 DEF RefreshGlobalReward
  <2> QED BY <2>1
<1>3. CASE /\ ~(e.ts = r.last_issuance_ts \/ f.active.stake = 0)
           /\ IssuableAmount(f, r, e) # 0
  <2>1. q = [ r EXCEPT !.last_issuance_ts = e.ts,
                       !.rewards_issued_unclaimed = @ + issued,
                       !.rewards_issued_cumulative = @ + issued,
                       !.rewards_available = @ - issued,
                       !.reward_per_share_scaled = @ + PerShare(f, issued) ]
    BY <1>3 DEF RefreshGlobalReward
  <2>2. /\ issued \in 0 .. r.rewards_available /\ r.rewards_available \in Nat
        /\ IsU64(r.rewards_issued_unclaimed + issued)
        /\ IsU64(r.rewards_issued_cumulative + issued)
        /\ IsU128(r.reward_per_share_scaled + PerShare(f, issued))
    BY <1>3, IssuedAmountBound DEF RefreshGlobalRewardOk, RewardInfo
  <2> HIDE DEF issued
  <2>3. /\ q.rewards_issued_unclaimed = r.rewards_issued_unclaimed + issued
        /\ q.rewards_issued_cumulative = r.rewards_issued_cumulative + issued
        /\ q.rewards_available = r.rewards_available - issued
        /\ q.reward_per_share_scaled = r.reward_per_share_scaled + PerShare(f, issued)
    BY <2>1 DEF RewardInfo
  <2> HIDE DEF q
  <2>4. q.rewards_available \in Nat /\ q.rewards_available =< r.rewards_available
    BY <2>2, <2>3
  <2>5. RewardFits(q)
    BY <2>2, <2>3, <2>4, LessFits DEF RewardFits
  <2> QED BY <2>5 DEF q
<1> QED BY <1>1, <1>2, <1>3

(* refresh_global_rewards *)
LEMMA RefreshGlobalRewardsFits ==
  ASSUME NEW f \in FarmAccount, NEW e \in Environment, RefreshGlobalRewardsOk(f, e), FarmFits(f)
  PROVE  FarmFits(RefreshGlobalRewards(f, e))
<1> DEFINE g == RefreshGlobalRewards(f, e)
<1>1. /\ g.active = f.active /\ g.pending = f.pending /\ g.slashed = f.slashed
      /\ g.slashed_amount_cumulative = f.slashed_amount_cumulative
  BY RefreshGlobalRewardsIssues DEF OnlyIssues
<1>2. \A i \in RewardIndex : g.rewards[i] = IF i \in InitialisedRewards(f)
                                           THEN RefreshGlobalReward(f, f.rewards[i], e)
                                           ELSE f.rewards[i]
  BY DEF RefreshGlobalRewards, FarmAccount
<1> HIDE DEF g
<1>3. ASSUME NEW i \in RewardIndex PROVE RewardFits(g.rewards[i])
  <2>1. RewardFits(f.rewards[i]) /\ f.rewards[i] \in RewardInfo
    BY RewardFields DEF FarmFits
  <2>2. i \in InitialisedRewards(f) => RewardFits(RefreshGlobalReward(f, f.rewards[i], e))
    BY <2>1, RefreshGlobalRewardFits DEF RefreshGlobalRewardsOk
  <2> QED BY <1>2, <2>1, <2>2
<1>4. FarmFits(g)
  BY <1>1, <1>3 DEF FarmFits
<1> QED BY <1>4 DEF g

(* What a user's refresh counts was checked. *)
LEMMA UserRefreshRewardFits ==
  ASSUME NEW s \in Accounts, NEW indices \in SUBSET RewardIndex, UserRefreshRewardOk(s, indices),
         Fits(s)
  PROVE  Fits(UserRefreshReward(s, indices))
<1> DEFINE t == UserRefreshReward(s, indices)
           tally == [i \in RewardIndex |-> IF i \in indices
                       THEN s.user.rewards_tally[i] + RewardDue(s, i) * WAD
                       ELSE s.user.rewards_tally[i]]
           counted == [i \in RewardIndex |-> IF i \in indices
                         THEN s.user.rewards_issued_unclaimed[i] + RewardDue(s, i)
                         ELSE s.user.rewards_issued_unclaimed[i]]
<1>1. /\ t.farm = s.farm
      /\ t.user.pending_deposit_stake_ts = s.user.pending_deposit_stake_ts
      /\ t.user.pending_withdrawal_unstake_ts = s.user.pending_withdrawal_unstake_ts
  BY DEF UserRefreshReward, Accounts, UserAccount
<1>2. t.user.rewards_tally = tally /\ t.user.rewards_issued_unclaimed = counted
  BY DEF UserRefreshReward, Accounts, UserAccount
<1>3. ASSUME NEW i \in RewardIndex PROVE IsU64(counted[i]) /\ IsU128(tally[i])
  BY DEF UserRefreshRewardOk, Fits, UserFits
<1> HIDE DEF t, tally, counted
<1>4. Fits(t)
  BY <1>1, <1>2, <1>3 DEF Fits, UserFits
<1> QED BY <1>4 DEF t

(* The refresh stake, unstake and the refresh of a user begin with. *)
LEMMA RefreshRewardsFits ==
  ASSUME NEW s \in Accounts, NEW e \in Environment, RefreshRewardsOk(s, e), Fits(s)
  PROVE  Fits(RefreshRewards(s, e))
<1> DEFINE f == RefreshGlobalRewards(s.farm, e)
           t == [s EXCEPT !.farm = f]
           indices == RefreshedIndices(s)
<1>1. f \in FarmAccount /\ FarmFits(f)
  BY RefreshGlobalRewardsIssues, RefreshGlobalRewardsFits DEF RefreshRewardsOk, Accounts, Fits
<1>2. Issued(s, e) = t
  BY DEF Issued
<1> HIDE DEF f
<1>3. t \in Accounts /\ t.farm = f /\ t.user = s.user
  BY <1>1 DEF Accounts
<1>4. Fits(t)
  BY <1>1, <1>3 DEF Fits
<1>5. indices \in SUBSET RewardIndex
  BY DEF RefreshedIndices, InitialisedRewards
<1>6. RefreshRewards(s, e) = UserRefreshReward(t, indices) /\ UserRefreshRewardOk(t, indices)
  BY <1>2 DEF RefreshRewards, RefreshRewardsOk
<1> HIDE DEF t, indices
<1> QED BY <1>3, <1>4, <1>5, <1>6, UserRefreshRewardFits

(* What new shares add to the tally was checked. *)
LEMMA IncreaseTallyFits ==
  ASSUME NEW s \in Accounts, NEW shares, IncreaseTallyOk(s, shares), Fits(s)
  PROVE  Fits(IncreaseTally(s, shares))
<1> DEFINE t == IncreaseTally(s, shares)
           tally == [i \in RewardIndex |-> IF i \in InitialisedRewards(s.farm)
                       THEN s.user.rewards_tally[i] + RewardValue(s.farm, shares, i)
                       ELSE s.user.rewards_tally[i]]
<1>1. /\ t.farm = s.farm
      /\ t.user.pending_deposit_stake_ts = s.user.pending_deposit_stake_ts
      /\ t.user.pending_withdrawal_unstake_ts = s.user.pending_withdrawal_unstake_ts
      /\ t.user.rewards_issued_unclaimed = s.user.rewards_issued_unclaimed
  BY DEF IncreaseTally, Accounts, UserAccount
<1>2. t.user.rewards_tally = tally
  BY DEF IncreaseTally, Accounts, UserAccount
<1>3. ASSUME NEW i \in RewardIndex PROVE IsU128(tally[i])
  BY DEF IncreaseTallyOk, Fits, UserFits
<1> HIDE DEF t, tally
<1>4. Fits(t)
  BY <1>1, <1>2, <1>3 DEF Fits, UserFits
<1> QED BY <1>4 DEF t

(* A reduced tally is no larger. *)
LEMMA ReduceTallyFits ==
  ASSUME NEW s \in Accounts, NEW shares \in Nat, Fits(s)
  PROVE  Fits(ReduceTally(s, shares))
<1> DEFINE t == ReduceTally(s, shares)
           old == s.user.rewards_tally
           tally == [i \in RewardIndex |-> IF i \in InitialisedRewards(s.farm)
                       THEN old[i] - Least(old[i], RewardValue(s.farm, shares, i)) ELSE old[i]]
<1>1. /\ t.farm = s.farm
      /\ t.user.pending_deposit_stake_ts = s.user.pending_deposit_stake_ts
      /\ t.user.pending_withdrawal_unstake_ts = s.user.pending_withdrawal_unstake_ts
      /\ t.user.rewards_issued_unclaimed = s.user.rewards_issued_unclaimed
  BY DEF ReduceTally, Accounts, UserAccount
<1>2. t.user.rewards_tally = tally
  BY DEF ReduceTally, Accounts, UserAccount
<1>3. ASSUME NEW i \in RewardIndex PROVE IsU128(tally[i])
  <2> DEFINE value == RewardValue(s.farm, shares, i)
  <2>1. old[i] \in Nat /\ IsU128(old[i]) /\ value \in Nat
    BY RewardValueNat DEF Accounts, UserAccount, Fits, UserFits
  <2>2. tally[i] = old[i] \/ tally[i] = old[i] - Least(old[i], value)
    OBVIOUS
  <2> HIDE DEF value, old, tally
  <2>3. tally[i] \in Nat /\ tally[i] =< old[i]
    BY <2>1, <2>2, LeastNat
  <2> QED BY <2>1, <2>3, LessFits
<1> HIDE DEF t, tally
<1>4. Fits(t)
  BY <1>1, <1>2, <1>3 DEF Fits, UserFits
<1> QED BY <1>4 DEF t

(* Restarting the issuance moves instants only. *)
LEMMA InitializeRewardTsFits ==
  ASSUME NEW f \in FarmAccount, NEW ts \in Nat, FarmFits(f)
  PROVE  LET g == InitializeRewardTsIfNeeded(f, ts)
         IN  /\ FarmFits(g)
             /\ \A i \in RewardIndex :
                  g.rewards[i].reward_per_share_scaled = f.rewards[i].reward_per_share_scaled
<1> DEFINE g == InitializeRewardTsIfNeeded(f, ts)
<1>1. CASE f.active.amount # 0
  BY <1>1 DEF InitializeRewardTsIfNeeded
<1>2. CASE f.active.amount = 0
  <2> DEFINE rewards == [i \in RewardIndex |-> IF i \in InitialisedRewards(f)
                           THEN [f.rewards[i] EXCEPT !.last_issuance_ts = ts] ELSE f.rewards[i]]
  <2>1. g = [f EXCEPT !.rewards = rewards]
    BY <1>2 DEF InitializeRewardTsIfNeeded
  <2>2. \A i \in RewardIndex : f.rewards[i] \in RewardInfo
    BY RewardFields
  <2>3. \A i \in RewardIndex :
          /\ rewards[i].rewards_available = f.rewards[i].rewards_available
          /\ rewards[i].rewards_issued_unclaimed = f.rewards[i].rewards_issued_unclaimed
          /\ rewards[i].rewards_issued_cumulative = f.rewards[i].rewards_issued_cumulative
          /\ rewards[i].reward_per_share_scaled = f.rewards[i].reward_per_share_scaled
    BY <2>2 DEF RewardInfo
  <2> HIDE DEF rewards, g
  <2>4. /\ g.active = f.active /\ g.pending = f.pending /\ g.slashed = f.slashed
        /\ g.slashed_amount_cumulative = f.slashed_amount_cumulative
        /\ g.rewards = rewards
    BY <2>1 DEF FarmAccount
  <2>5. FarmFits(g)
    BY <2>3, <2>4 DEF FarmFits, RewardFits
  <2> QED BY <2>3, <2>4, <2>5 DEF g
<1> QED BY <1>1, <1>2

(* A refresh of the stake. *)
LEMMA UserRefreshStakeFits ==
  ASSUME NEW s \in Accounts, NEW e \in Environment, UserRefreshStakeOk(s, e), Fits(s)
  PROVE  Fits(UserRefreshStake(s, e))
<1> DEFINE f == InitializeRewardTsIfNeeded(s.farm, e.ts)
           t == [s EXCEPT !.farm = f]
           r == UserRefreshStake(s, e)
<1>1. /\ f \in FarmAccount /\ OnlyIssues(s.farm, f) /\ FarmFits(f)
      /\ \A i \in RewardIndex :
           f.rewards[i].reward_per_share_scaled = s.farm.rewards[i].reward_per_share_scaled
  BY InitializeRewardTsIssues, InitializeRewardTsFits DEF Accounts, Environment, Fits
<1> HIDE DEF f
<1>2. t \in Accounts /\ t.farm = f /\ t.user = s.user
  BY <1>1 DEF Accounts
<1>3. Fits(t)
  BY <1>1, <1>2 DEF Fits
<1>4. CASE DepositMatured(s.user, e.ts)
  <2> DEFINE v == ActivatePendingStake(t)
             shares == ActivatedShares(t)
  <2>1. ActivatePendingStakeOk(t)
    BY <1>1, <1>2, <1>4 DEF UserRefreshStakeOk, ActivatePendingStakeOk, ActivatedAmount, OnlyIssues
  <2>2. v \in Accounts /\ Fits(v)
    BY <1>2, <1>3, <2>1, ActivatePendingStakeBooks, ActivatePendingStakeFits
  <2>3. /\ v.user.rewards_tally = s.user.rewards_tally
        /\ v.farm.rewards = f.rewards /\ v.farm.num_reward_tokens = f.num_reward_tokens
    BY <1>2 DEF ActivatePendingStake, AddActiveStake, RemovePendingDepositStake, Accounts,
                UserAccount, FarmAccount
  <2>4. shares = ActivatedShares(s)
    BY <1>1, <1>2 DEF ActivatedShares, ActivatedAmount, OnlyIssues
  <2>5. r = IncreaseTally(v, shares) /\ IncreaseTallyOk(s, shares)
    BY <1>4, <2>4 DEF UserRefreshStake, UserRefreshStakeOk, f
  <2> HIDE DEF t, v, shares, r
  <2>6. IncreaseTallyOk(v, shares)
    <3> SUFFICES ASSUME NEW i \in InitialisedRewards(v.farm)
                 PROVE  IsU128(v.user.rewards_tally[i] + RewardValue(v.farm, shares, i))
      BY DEF IncreaseTallyOk
    <3>1. i \in InitialisedRewards(s.farm) /\ i \in RewardIndex
      BY <1>1, <2>3 DEF InitialisedRewards, OnlyIssues, KeepsPromises
    <3>2. RewardValue(v.farm, shares, i) = RewardValue(s.farm, shares, i)
      BY <1>1, <2>3, <3>1 DEF RewardValue
    <3> QED BY <2>3, <2>5, <3>1, <3>2 DEF IncreaseTallyOk
  <2>7. Fits(r)
    BY <2>2, <2>5, <2>6, IncreaseTallyFits
  <2> QED BY <2>7 DEF r
<1>5. CASE ~DepositMatured(s.user, e.ts)
  <2>1. r = t
    BY <1>5 DEF UserRefreshStake, f
  <2> QED BY <1>3, <2>1
<1> QED BY <1>4, <1>5

(* user_refresh_state *)
LEMMA UserRefreshStateFits ==
  ASSUME NEW s \in Accounts, NEW e \in Environment, UserRefreshStateOk(s, e), Fits(s)
  PROVE  Fits(UserRefreshState(s, e))
<1>1. RefreshRewards(s, e) \in Accounts /\ Fits(RefreshRewards(s, e))
  BY RefreshRewardsIssues, RefreshRewardsFits DEF UserRefreshStateOk
<1> QED BY <1>1, UserRefreshStakeFits DEF UserRefreshState, UserRefreshStateOk

(* A deposit, and the instant at which its warmup ends. *)
LEMMA DepositFits ==
  ASSUME NEW s \in Accounts, NEW amount \in Nat, NEW e \in Environment, DepositOk(s, amount, e),
         Fits(s)
  PROVE  Fits(Deposit(s, amount, e.ts))
<1> DEFINE warmup == s.farm.config.deposit_warmup_period
           pending == AddPendingDepositStake(s, amount)
           added == AddActiveStake(s, amount)
           shares == SharesFor(amount, s.farm.active)
           starts == IncreaseTally(added, shares)
           v == Deposit(s, amount, e.ts)
<1>1. ASSUME NEW t \in Accounts, Fits(t)
      PROVE  Fits([t EXCEPT !.user.last_stake_ts = e.ts])
  <2> DEFINE w == [t EXCEPT !.user.last_stake_ts = e.ts]
  <2>1. w.farm = t.farm /\ w.user = [t.user EXCEPT !.last_stake_ts = e.ts]
    BY DEF Accounts
  <2> HIDE DEF w
  <2>2. Fits(w)
    BY <1>1, <2>1 DEF Fits, UserFits, Accounts, UserAccount
  <2> QED BY <2>2 DEF w
<1>2. CASE warmup > 0
  <2> DEFINE dated == [pending EXCEPT !.user.pending_deposit_stake_ts = e.ts + warmup]
  <2>1. v = [dated EXCEPT !.user.last_stake_ts = e.ts]
    BY <1>2 DEF Deposit
  <2>2. AddAmountOk(s.farm.pending, amount) /\ IsU64(e.ts + warmup)
    BY <1>2 DEF DepositOk
  <2>3. pending \in Accounts /\ Fits(pending)
    BY <2>2, AddPendingDepositStakeBooks, AddPendingDepositStakeFits
  <2> HIDE DEF pending, v
  <2>4. e.ts + warmup \in Nat
    BY <2>2, MachineIntegersAreNat
  <2> HIDE DEF warmup
  <2>5. /\ dated.farm = pending.farm
        /\ dated.user = [pending.user EXCEPT !.pending_deposit_stake_ts = e.ts + warmup]
    BY <2>3 DEF Accounts
  <2>6. dated \in Accounts
    BY <2>3, <2>4 DEF Accounts, UserAccount
  <2> HIDE DEF dated
  <2>7. Fits(dated)
    BY <2>2, <2>3, <2>5 DEF Fits, UserFits, Accounts, UserAccount
  <2>8. Fits(v)
    BY <1>1, <2>1, <2>6, <2>7
  <2> QED BY <2>8 DEF v
<1>3. CASE ~(warmup > 0)
  <2>1. v = [starts EXCEPT !.user.last_stake_ts = e.ts]
    BY <1>3 DEF Deposit
  <2>2. AddAmountOk(s.farm.active, amount) /\ IncreaseTallyOk(s, shares)
    BY <1>3 DEF DepositOk
  <2>3. added \in Accounts /\ shares \in Nat /\ Fits(added)
    BY <2>2, AddActiveStakeBooks, AddActiveStakeFits, SharesForNat, FarmFields DEF Accounts
  <2>4. /\ added.farm.rewards = s.farm.rewards
        /\ added.farm.num_reward_tokens = s.farm.num_reward_tokens
        /\ added.user.rewards_tally = s.user.rewards_tally
    BY DEF AddActiveStake, Accounts, FarmAccount, UserAccount
  <2> HIDE DEF added, shares
  <2>5. IncreaseTallyOk(added, shares)
    BY <2>2, <2>4 DEF IncreaseTallyOk, InitialisedRewards, RewardValue
  <2>6. starts \in Accounts /\ Fits(starts)
    BY <2>3, <2>5, IncreaseTallyTypes, IncreaseTallyFits
  <2> HIDE DEF starts
  <2> QED BY <1>1, <2>1, <2>6
<1> QED BY <1>2, <1>3

(* stake *)
LEMMA StakeFits ==
  ASSUME NEW s \in Accounts, NEW amount \in Nat, NEW e \in Environment, StakeOk(s, amount, e),
         Fits(s)
  PROVE  Fits(Stake(s, amount, e))
<1> DEFINE t == RefreshRewards(s, e)
           r == UserRefreshStake(t, e)
<1>1. t \in Accounts /\ Fits(t)
  BY RefreshRewardsIssues, RefreshRewardsFits DEF StakeOk
<1>2. UserRefreshStakeOk(t, e) /\ DepositOk(r, amount, e)
  BY DEF StakeOk
<1>3. Stake(s, amount, e) = Deposit(r, amount, e.ts)
  BY DEF Stake
<1> HIDE DEF t
<1>4. r \in Accounts /\ Fits(r)
  BY <1>1, <1>2, UserRefreshStakeBooks, UserRefreshStakeFits
<1> HIDE DEF r
<1> QED BY <1>2, <1>3, <1>4, DepositFits

(* unstake after its refresh: the deadline and the penalty were checked. *)
LEMMA MoveOutFits ==
  ASSUME NEW s \in Accounts, NEW shares \in Nat, NEW ts \in Nat, MoveOutOk(s, shares, ts), Fits(s)
  PROVE  Fits(MoveOut(s, shares, ts))
<1> DEFINE penalty == UnstakePenalty(s, shares, ts)
           deadline == ts + s.farm.config.withdrawal_cooldown_period
           t == [s EXCEPT !.user.pending_withdrawal_unstake_ts = deadline]
           moved == MoveToPendingWithdrawal(t, shares, ts)
           booked == BookedPenalty(moved, penalty)
<1>1. /\ IsU64(deadline) /\ deadline \in Nat /\ IsU64(s.farm.slashed + penalty)
      /\ IsU64(s.farm.slashed_amount_cumulative + penalty)
  BY MachineIntegersAreNat DEF MoveOutOk
<1> HIDE DEF deadline
<1>2. /\ t \in Accounts /\ t.farm = s.farm
      /\ t.user = [s.user EXCEPT !.pending_withdrawal_unstake_ts = deadline]
  BY <1>1 DEF Accounts, UserAccount
<1>3. t.user.last_stake_ts = s.user.last_stake_ts /\ t.user.active_stake = s.user.active_stake
  BY DEF Accounts, UserAccount
<1>4. UnstakePenalty(t, shares, ts) = penalty
  BY <1>2, <1>3 DEF UnstakePenalty, LockBegin
<1>5. MoveToPendingWithdrawalOk(t, shares, ts)
  BY <1>2, <1>3, <1>4 DEF MoveOutOk, MoveToPendingWithdrawalOk, UnstakedAmount, LockBegin
<1> HIDE DEF t
<1>6. Fits(t)
  BY <1>1, <1>2 DEF Fits, UserFits, Accounts, UserAccount
<1>7. /\ moved \in Accounts /\ Fits(moved) /\ moved.farm.slashed = s.farm.slashed
      /\ moved.farm.slashed_amount_cumulative = s.farm.slashed_amount_cumulative
  BY <1>2, <1>5, <1>6, MoveToPendingWithdrawalBooks, MoveToPendingWithdrawalFits
<1>8. penalty \in Nat
  BY <1>2, <1>4, <1>5, UnstakePenaltyBound
<1> HIDE DEF moved, penalty
<1>9. booked \in Accounts
  BY <1>7, <1>8, PenaltyBooked
<1>10. /\ booked.user = moved.user /\ booked.farm.config = moved.farm.config
       /\ booked.farm.active = moved.farm.active /\ booked.farm.pending = moved.farm.pending
       /\ booked.farm.slashed = moved.farm.slashed + penalty
       /\ booked.farm.slashed_amount_cumulative = moved.farm.slashed_amount_cumulative + penalty
       /\ booked.farm.rewards = moved.farm.rewards
  BY <1>7, <1>8, PenaltyBooked
<1>11. MoveOut(s, shares, ts) = ReduceTally(booked, shares)
  BY DEF MoveOut, booked, BookedPenalty, moved, t, penalty, deadline
<1> HIDE DEF booked
<1>12. Fits(booked)
  BY <1>1, <1>7, <1>10 DEF Fits, FarmFits
<1> QED BY <1>9, <1>11, <1>12, ReduceTallyFits

(* unstake *)
LEMMA UnstakeFits ==
  ASSUME NEW s \in Accounts, NEW requested \in Nat, NEW e \in Environment,
         UnstakeOk(s, requested, e), Fits(s)
  PROVE  Fits(Unstake(s, requested, e))
<1> DEFINE t == RefreshRewards(s, e)
           shares == SharesToUnstake(t, requested)
<1>1. t \in Accounts /\ Fits(t)
  BY RefreshRewardsIssues, RefreshRewardsFits DEF UnstakeOk
<1>2. MoveOutOk(t, shares, e.ts) /\ Unstake(s, requested, e) = MoveOut(t, shares, e.ts)
  BY DEF UnstakeOk, Unstake
<1>3. e.ts \in Nat
  BY DEF Environment
<1> HIDE DEF t
<1>4. shares \in Nat
  BY <1>1, LeastNat DEF SharesToUnstake, Accounts, UserAccount
<1> HIDE DEF shares
<1> QED BY <1>1, <1>2, <1>3, <1>4, MoveOutFits

(* One reward of a farm replaced by one that fits. *)
LEMMA UpdatedRewardFits ==
  ASSUME NEW f \in FarmAccount, NEW i \in RewardIndex, NEW q, RewardFits(q), FarmFits(f)
  PROVE  FarmFits([f EXCEPT !.rewards[i] = q])
<1> DEFINE g == [f EXCEPT !.rewards[i] = q]
<1>1. /\ g.active = f.active /\ g.pending = f.pending /\ g.slashed = f.slashed
      /\ g.slashed_amount_cumulative = f.slashed_amount_cumulative
      /\ \A j \in RewardIndex : g.rewards[j] = IF j = i THEN q ELSE f.rewards[j]
  BY DEF FarmAccount
<1> HIDE DEF g
<1>2. FarmFits(g)
  BY <1>1 DEF FarmFits
<1> QED BY <1>2 DEF g

(* harvest *)
LEMMA HarvestFits ==
  ASSUME NEW s \in Accounts, NEW i \in RewardIndex, NEW e \in Environment, HarvestOk(s, i, e),
         Fits(s)
  PROVE  Fits(Harvest(s, i, e))
<1> DEFINE f == RefreshGlobalRewards(s.farm, e)
           v == [s EXCEPT !.farm = f]
           r == RefreshOne(s, i, e)
           reward == HarvestedReward(s, i, e)
           t == Harvest(s, i, e)
<1>1. f \in FarmAccount /\ FarmFits(f)
  BY RefreshGlobalRewardsIssues, RefreshGlobalRewardsFits DEF HarvestOk, Accounts, Fits
<1>2. r = UserRefreshReward(v, {i}) /\ UserRefreshRewardOk(v, {i}) /\ {i} \in SUBSET RewardIndex
  BY DEF RefreshOne, Issued, HarvestOk
<1> HIDE DEF f
<1>3. v \in Accounts /\ Fits(v)
  BY <1>1 DEF Accounts, Fits
<1>4. reward = r.user.rewards_issued_unclaimed[i]
  BY DEF HarvestedReward
<1>5. reward =< r.farm.rewards[i].rewards_issued_unclaimed
  BY DEF HarvestOk
<1>6. t = IF reward = 0 THEN r
          ELSE [ r EXCEPT !.farm.rewards[i].rewards_issued_unclaimed = @ - reward,
                          !.user.rewards_issued_unclaimed[i] = 0,
                          !.user.last_claim_ts[i] = e.ts ]
  BY DEF Harvest
<1> HIDE DEF r, reward, t, v
<1>7. r \in Accounts /\ Fits(r)
  BY <1>2, <1>3, UserRefreshRewardTypes, UserRefreshRewardFits
<1>8. /\ r.farm \in FarmAccount /\ r.user \in UserAccount
      /\ r.farm.rewards[i] \in RewardInfo
      /\ r.user.rewards_issued_unclaimed \in [RewardIndex -> Nat]
  BY <1>7, RewardFields DEF Accounts, UserAccount
<1>9. CASE reward = 0
  BY <1>6, <1>7, <1>9 DEF t
<1>10. CASE reward # 0
  <2> DEFINE q == [r.farm.rewards[i] EXCEPT !.rewards_issued_unclaimed = @ - reward]
             paid == [r.farm EXCEPT !.rewards[i] = q]
             counted == [r.user.rewards_issued_unclaimed EXCEPT ![i] = 0]
             u == [r.user EXCEPT !.rewards_issued_unclaimed = counted,
                                 !.last_claim_ts = [@ EXCEPT ![i] = e.ts]]
  <2>1. t.farm = paid /\ t.user = u
    BY <1>6, <1>7, <1>8, <1>10 DEF Accounts, FarmAccount, UserAccount
  <2>2. /\ q.rewards_available = r.farm.rewards[i].rewards_available
        /\ q.rewards_issued_unclaimed = r.farm.rewards[i].rewards_issued_unclaimed - reward
        /\ q.rewards_issued_cumulative = r.farm.rewards[i].rewards_issued_cumulative
        /\ q.reward_per_share_scaled = r.farm.rewards[i].reward_per_share_scaled
    BY <1>8 DEF RewardInfo
  <2> HIDE DEF q
  <2>3. RewardFits(q)
    <3>1. /\ reward \in Nat /\ r.farm.rewards[i].rewards_issued_unclaimed \in Nat
          /\ RewardFits(r.farm.rewards[i])
      BY <1>4, <1>7, <1>8 DEF Fits, FarmFits, RewardInfo
    <3>2. /\ q.rewards_issued_unclaimed \in Nat
          /\ q.rewards_issued_unclaimed =< r.farm.rewards[i].rewards_issued_unclaimed
      BY <1>5, <2>2, <3>1
    <3> QED BY <2>2, <3>1, <3>2, LessFits DEF RewardFits
  <2>4. FarmFits(paid)
    BY <1>7, <1>8, <2>3, UpdatedRewardFits DEF Fits
  <2>5. \A j \in RewardIndex : counted[j] = IF j = i THEN 0 ELSE r.user.rewards_issued_unclaimed[j]
    BY <1>8
  <2>6. IsU64(0)
    BY MathAssumption DEF IsU64
  <2> HIDE DEF counted, paid
  <2>7. UserFits(u)
    BY <1>7, <1>8, <2>5, <2>6 DEF Fits, UserFits, UserAccount
  <2> HIDE DEF u
  <2>8. Fits(t)
    BY <2>1, <2>4, <2>7 DEF Fits
  <2> QED BY <2>8 DEF t
<1> QED BY <1>9, <1>10

(* reward_user_once *)
LEMMA RewardUserOnceFits ==
  ASSUME NEW s \in Accounts, NEW i \in RewardIndex, NEW amount \in Nat,
         RewardUserOnceOk(s, i, amount), Fits(s)
  PROVE  Fits(RewardUserOnce(s, i, amount))
<1> DEFINE q == CreditedReward(s, i, amount)
           g == [s.farm EXCEPT !.rewards[i] = q]
           counted == [s.user.rewards_issued_unclaimed EXCEPT ![i] = @ + amount]
           u == [s.user EXCEPT !.rewards_issued_unclaimed[i] = @ + amount]
           t == RewardUserOnce(s, i, amount)
<1>1. s.farm \in FarmAccount /\ s.user \in UserAccount
  BY DEF Accounts
<1>2. /\ t = [farm |-> g, user |-> u]
      /\ q.rewards_available = s.farm.rewards[i].rewards_available
      /\ q.rewards_issued_unclaimed = s.farm.rewards[i].rewards_issued_unclaimed + amount
      /\ q.rewards_issued_cumulative = s.farm.rewards[i].rewards_issued_cumulative + amount
      /\ q.reward_per_share_scaled = s.farm.rewards[i].reward_per_share_scaled
  BY RewardUserOnceCredits
<1>3. u = [s.user EXCEPT !.rewards_issued_unclaimed = counted]
  BY <1>1 DEF UserAccount
<1> HIDE DEF q, u
<1>4. RewardFits(q)
  BY <1>2 DEF RewardFits, RewardUserOnceOk, Fits, FarmFits
<1>5. FarmFits(g)
  BY <1>1, <1>4, UpdatedRewardFits DEF Fits
<1>6. \A j \in RewardIndex : counted[j] = IF j = i THEN s.user.rewards_issued_unclaimed[i] + amount
                                           ELSE s.user.rewards_issued_unclaimed[j]
  BY <1>1 DEF UserAccount
<1> HIDE DEF g, counted, t
<1>7. UserFits(u)
  BY <1>1, <1>3, <1>6 DEF UserFits, UserAccount, RewardUserOnceOk, Fits
<1>8. Fits(t)
  BY <1>2, <1>5, <1>7 DEF Fits
<1> QED BY <1>8 DEF t

(* add_reward, withdraw_reward and update_reward_config, after the refresh   *)
(* each begins with.                                                         *)
LEMMA RewardOperationsFit ==
  ASSUME NEW f \in FarmAccount, NEW i \in RewardIndex, NEW e \in Environment,
         RefreshGlobalRewardsOk(f, e), FarmFits(f), NEW amount \in Nat, NEW config
  PROVE  /\ AddRewardOk(f, i, amount, e) => FarmFits(AddReward(f, i, amount, e))
         /\ FarmFits(WithdrawReward(f, i, amount, e))
         /\ FarmFits(UpdateRewardConfig(f, i, config, e))
<1> DEFINE r == RefreshGlobalRewards(f, e)
           paid == WithdrawableReward(f, i, amount, e)
           more == [r.rewards[i] EXCEPT !.rewards_available = @ + amount]
           less == [r.rewards[i] EXCEPT !.rewards_available = @ - paid]
           other == [r.rewards[i] EXCEPT !.config = config, !.last_issuance_ts = e.ts]
<1>1. r \in FarmAccount /\ FarmFits(r)
  BY RefreshGlobalRewardsIssues, RefreshGlobalRewardsFits
<1>2. /\ AddReward(f, i, amount, e) = [r EXCEPT !.rewards[i] = more]
      /\ WithdrawReward(f, i, amount, e) = [r EXCEPT !.rewards[i] = less]
  BY <1>1 DEF AddReward, WithdrawReward, FarmAccount
<1>3. UpdateRewardConfig(f, i, config, e) = [r EXCEPT !.rewards[i] = other]
  <2>1. r.rewards \in [RewardIndex -> RewardInfo]
    BY <1>1, FarmFields
  <2> QED BY <1>1, <2>1 DEF UpdateRewardConfig, FarmAccount, RewardInfo
<1>4. paid = Least(r.rewards[i].rewards_available, amount)
  BY DEF WithdrawableReward
<1>5. AddRewardOk(f, i, amount, e) => IsU64(r.rewards[i].rewards_available + amount)
  BY DEF AddRewardOk
<1> HIDE DEF r, paid
<1>6. /\ r.rewards[i] \in RewardInfo /\ RewardFits(r.rewards[i])
      /\ r.rewards[i].rewards_available \in Nat
  BY <1>1, RewardFields DEF FarmFits
<1>7. AddRewardOk(f, i, amount, e) => RewardFits(more)
  BY <1>5, <1>6 DEF RewardFits, RewardInfo
<1>8. RewardFits(less)
  <2>1. paid \in Nat /\ paid =< r.rewards[i].rewards_available
    BY <1>4, <1>6, LeastNat
  <2>2. /\ less.rewards_available = r.rewards[i].rewards_available - paid
        /\ less.rewards_issued_unclaimed = r.rewards[i].rewards_issued_unclaimed
        /\ less.rewards_issued_cumulative = r.rewards[i].rewards_issued_cumulative
        /\ less.reward_per_share_scaled = r.rewards[i].reward_per_share_scaled
    BY <1>6 DEF RewardInfo
  <2> HIDE DEF less
  <2>3. less.rewards_available \in Nat /\ less.rewards_available =< r.rewards[i].rewards_available
    BY <1>6, <2>1, <2>2
  <2> QED BY <1>6, <2>2, <2>3, LessFits DEF RewardFits
<1>9. RewardFits(other)
  BY <1>6 DEF RewardFits, RewardInfo
<1> HIDE DEF more, less, other
<1> QED BY <1>1, <1>2, <1>3, <1>7, <1>8, <1>9, UpdatedRewardFits

(* initialize_reward *)
LEMMA InitializeRewardFits ==
  ASSUME NEW f \in FarmAccount, NEW ts, f.num_reward_tokens < MAX_REWARDS_TOKENS, FarmFits(f)
  PROVE  FarmFits(InitializeReward(f, ts))
<1> DEFINE n == f.num_reward_tokens
           q == [f.rewards[n] EXCEPT !.rewards_available = 0, !.last_issuance_ts = ts]
           h == [f EXCEPT !.rewards[n] = q]
           g == InitializeReward(f, ts)
<1>1. n \in RewardIndex
  BY FarmStateAssumption DEF FarmAccount, RewardIndex
<1>2. RewardFits(q)
  <2>1. RewardFits(f.rewards[n]) /\ f.rewards[n] \in RewardInfo /\ IsU64(0)
    BY <1>1, RewardFields, MathAssumption DEF FarmFits, IsU64
  <2> QED BY <2>1 DEF RewardFits, RewardInfo
<1>3. g = [h EXCEPT !.num_reward_tokens = n + 1] /\ n = f.num_reward_tokens
  BY <1>1, FarmFields DEF InitializeReward, FarmAccount, RewardInfo
<1> HIDE DEF q, n, g
<1>4. FarmFits(h)
  BY <1>1, <1>2, UpdatedRewardFits
<1>5. /\ g.active = h.active /\ g.pending = h.pending /\ g.slashed = h.slashed
      /\ g.slashed_amount_cumulative = h.slashed_amount_cumulative
      /\ g.rewards = h.rewards
  BY <1>3 DEF FarmAccount
<1> HIDE DEF h
<1>6. FarmFits(g)
  BY <1>4, <1>5 DEF FarmFits
<1> QED BY <1>6 DEF g

-----------------------------------------------------------------------------
(* The operations on the tokens and set_stake *)

(* withdraw_farm takes from both pools. *)
LEMMA WithdrawFarmFits ==
  ASSUME NEW f \in FarmAccount, NEW amount \in Nat, FarmFits(f)
  PROVE  FarmFits(WithdrawFarm(f, amount))
<1> DEFINE g == WithdrawFarm(f, amount)
           a == FractionOf(f, amount, f.active.amount)
           b == FractionOf(f, amount, f.pending.amount)
<1>1. /\ f.active.amount \in Nat /\ f.pending.amount \in Nat
      /\ f.active \in Pool /\ f.pending \in Pool
  BY FarmFields
<1>2. a \in 0 .. f.active.amount /\ b \in 0 .. f.pending.amount
  BY <1>1, FractionOfBound
<1>3. /\ g.active.stake = f.active.stake /\ g.pending.stake = f.pending.stake
      /\ g.active.amount = f.active.amount - a /\ g.pending.amount = f.pending.amount - b
      /\ g.slashed = f.slashed /\ g.rewards = f.rewards
      /\ g.slashed_amount_cumulative = f.slashed_amount_cumulative
  BY <1>1 DEF WithdrawFarm, FarmAccount, Pool
<1> HIDE DEF g, a, b
<1>4. /\ g.active.amount \in Nat /\ g.active.amount =< f.active.amount
      /\ g.pending.amount \in Nat /\ g.pending.amount =< f.pending.amount
  BY <1>1, <1>2, <1>3
<1>5. FarmFits(g)
  BY <1>3, <1>4, LessFits DEF FarmFits, PoolFits
<1> QED BY <1>5 DEF g

(* set_stake: the stake of a delegated farm is its amount. *)
LEMMA SetStakeFits ==
  ASSUME NEW s \in Accounts, NEW new_stake \in Nat, NEW e \in Environment,
         SetStakeOk(s, new_stake, e), Fits(s)
  PROVE  Fits(SetStake(s, new_stake, e))
<1> DEFINE v == SetStake(s, new_stake, e)
           old == s.user.active_stake
<1>1. CASE new_stake = old
  BY <1>1 DEF SetStake
<1>2. CASE new_stake # old
  <2> DEFINE r == RefreshRewards(s, WithoutPrice(e))
             f == IF StakeIncreases(s, new_stake)
                  THEN InitializeRewardTsIfNeeded(r.farm, e.ts) ELSE r.farm
             g == [f EXCEPT !.active.stake = @ + new_stake - old,
                            !.active.amount = @ + new_stake - old]
             tally == [i \in RewardIndex |-> IF i \in InitialisedRewards(f)
                         THEN f.rewards[i].reward_per_share_scaled * new_stake
                         ELSE r.user.rewards_tally[i]]
  <2>1. e.ts \in Nat /\ WithoutPrice(e) \in Environment
    BY DEF Environment, Price, WithoutPrice
  <2>2. /\ RefreshRewardsOk(s, WithoutPrice(e)) /\ old =< s.farm.active.stake + new_stake
        /\ s.farm.active.stake = s.farm.active.amount
        /\ StakeIncreases(s, new_stake) => IsU64(s.farm.active.amount + (new_stake - old))
        /\ \A i \in InitialisedRewards(s.farm) :
             IsU128(RefreshGlobalRewards(s.farm, WithoutPrice(e)).rewards[i].reward_per_share_scaled
                      * new_stake)
    BY <1>2 DEF SetStakeOk, DelegatedBooksBalance, CanAcceptDeposit
  <2>3. /\ r \in Accounts /\ LeavesShares(s, r) /\ Fits(r)
        /\ r.farm = RefreshGlobalRewards(s.farm, WithoutPrice(e)) /\ OnlyIssues(s.farm, r.farm)
    BY <2>1, <2>2, RefreshRewardsIssues, RefreshRewardsLeavesShares, RefreshRewardsFits
  <2>4. v.farm = g /\ v.user.rewards_tally = tally
        /\ v.user.pending_deposit_stake_ts = r.user.pending_deposit_stake_ts
        /\ v.user.pending_withdrawal_unstake_ts = r.user.pending_withdrawal_unstake_ts
        /\ v.user.rewards_issued_unclaimed = r.user.rewards_issued_unclaimed
    <3> HIDE DEF r, f
    <3>1. v = [ farm |-> g,
                user |-> [r.user EXCEPT
                  !.active_stake = new_stake,
                  !.last_stake_ts = IF StakeIncreases(s, new_stake) THEN e.ts ELSE @,
                  !.rewards_tally = tally] ]
      BY <1>2, <2>3 DEF SetStake, r, f, Accounts, UserAccount
    <3> HIDE DEF v, tally
    <3> QED BY <2>3, <3>1 DEF Accounts, UserAccount
  <2> HIDE DEF r
  <2>5. /\ f \in FarmAccount /\ f.active = s.farm.active /\ f.pending = s.farm.pending
        /\ FarmFits(f) /\ InitialisedRewards(f) = InitialisedRewards(s.farm)
        /\ \A i \in RewardIndex :
             f.rewards[i].reward_per_share_scaled = r.farm.rewards[i].reward_per_share_scaled
    BY <2>1, <2>3, InitializeRewardTsIssues, InitializeRewardTsFits
    DEF Accounts, OnlyIssues, LeavesShares, Fits, InitialisedRewards, KeepsPromises
  <2> HIDE DEF f
  <2>6. /\ s.farm.active \in Pool /\ old \in Nat
        /\ s.farm.active.stake \in Nat /\ s.farm.active.amount \in Nat
    BY FarmFields DEF Accounts, UserAccount
  <2>7. /\ g.active.stake = s.farm.active.stake + new_stake - old
        /\ g.active.amount = s.farm.active.amount + new_stake - old
        /\ g.pending = f.pending /\ g.slashed = f.slashed /\ g.rewards = f.rewards
        /\ g.slashed_amount_cumulative = f.slashed_amount_cumulative
    BY <2>5, <2>6 DEF FarmAccount, Pool
  <2> HIDE DEF g
  <2>8. IsU64(g.active.amount) /\ IsU128(g.active.stake)
    <3>1. g.active.amount \in Nat /\ g.active.stake = g.active.amount
      BY <2>2, <2>6, <2>7
    <3>2. IsU64(g.active.amount)
      <4>1. CASE StakeIncreases(s, new_stake)
        <5>1. s.farm.active.amount + (new_stake - old) = g.active.amount
          BY <2>6, <2>7
        <5> QED BY <2>2, <4>1, <5>1
      <4>2. CASE ~StakeIncreases(s, new_stake)
        <5>1. g.active.amount =< s.farm.active.amount
          BY <2>6, <2>7, <4>2 DEF StakeIncreases
        <5>2. IsU64(s.farm.active.amount)
          BY DEF Fits, FarmFits, PoolFits
        <5> QED BY <3>1, <5>1, <5>2, LessFits
      <4> QED BY <4>1, <4>2
    <3> QED BY <3>1, <3>2, MathAssumption DEF IsU64, IsU128
  <2>9. FarmFits(g)
    BY <2>5, <2>7, <2>8 DEF FarmFits, PoolFits
  <2>10. ASSUME NEW i \in RewardIndex PROVE IsU128(tally[i])
    BY <2>2, <2>3, <2>5 DEF Fits, UserFits
  <2> HIDE DEF v, tally
  <2>11. Fits(v)
    BY <2>3, <2>4, <2>9, <2>10 DEF Fits, UserFits
  <2> QED BY <2>11 DEF v
<1> QED BY <1>1, <1>2

-----------------------------------------------------------------------------
(* Each instruction keeps the counters in range *)

AllFit(f, us) == FarmFits(f) /\ \A u \in Users : UserFits(us[u])

(* Inductive together with the shares. *)
CounterInv == TypeOK /\ AllFit(farm, users)

(* An instruction of a user on the user's own account. *)
LEMMA OwnStepFits ==
  ASSUME CounterInv, NEW u \in Users, NEW t \in Accounts, Fits(t), Becomes(u, t)
  PROVE  AllFit(farm', users')
<1>1. users \in [Users -> UserAccount] /\ \A x \in Users : UserFits(users[x])
  BY DEF CounterInv, TypeOK, AllFit
<1>2. farm' = t.farm /\ users' = [users EXCEPT ![u] = t.user]
  BY DEF Becomes
<1>3. FarmFits(t.farm) /\ UserFits(t.user)
  BY DEF Fits
<1>4. \A x \in Users : users'[x] = IF x = u THEN t.user ELSE users[x]
  BY <1>1, <1>2
<1> QED BY <1>1, <1>2, <1>3, <1>4 DEF AllFit

(* What a user brings to an instruction. *)
LEMMA OfFits ==
  ASSUME CounterInv, NEW u \in Users
  PROVE  Fits(Of(u)) /\ FarmFits(farm) /\ UserFits(users[u])
BY DEF CounterInv, AllFit, Fits, Of

(* The instructions of a user on the user's own account. *)
LEMMA UserInstructionFits ==
  ASSUME CounterInv, NEW u \in Users,
         \/ HandleInitializeUser(u)
         \/ HandleRefreshUserState(u)
         \/ \E amount \in StakeAmounts : HandleStake(u, amount)
         \/ \E shares \in UnstakeShares : HandleUnstake(u, shares)
         \/ HandleWithdrawUnstakedDeposits(u)
         \/ \E stake \in DelegatedStakes : HandleSetStakeDelegated(u, stake)
  PROVE  AllFit(farm', users')
<1>1. /\ TypeOK /\ Of(u) \in Accounts /\ env \in Environment /\ now \in Nat
      /\ farm \in FarmAccount /\ users[u] \in UserAccount
      /\ Fits(Of(u)) /\ FarmFits(farm) /\ UserFits(users[u])
  BY OfTypes, OfFits DEF CounterInv, TypeOK
<1>2. CASE HandleInitializeUser(u)
  <2> DEFINE a == InitializeUser(users[u], now)
             t == [farm |-> farm, user |-> a]
  <2>1. Becomes(u, t)
    BY <1>2 DEF HandleInitializeUser, Becomes
  <2>2. a \in UserAccount /\ UserFits(a)
    BY <1>1 DEF InitializeUser, UserAccount, UserFits
  <2> HIDE DEF a
  <2>3. t \in Accounts /\ Fits(t)
    BY <1>1, <2>2 DEF Accounts, Fits
  <2> HIDE DEF t
  <2> QED BY <2>1, <2>3, OwnStepFits
<1>3. CASE HandleRefreshUserState(u)
  <2> DEFINE t == UserRefreshState(Of(u), env)
  <2>1. UserRefreshStateOk(Of(u), env) /\ Becomes(u, t)
    BY <1>3 DEF HandleRefreshUserState
  <2>2. t \in Accounts /\ Fits(t)
    BY <1>1, <2>1, UserRefreshStateBooks, UserRefreshStateFits
  <2> HIDE DEF t
  <2> QED BY <2>1, <2>2, OwnStepFits
<1>4. ASSUME NEW amount \in StakeAmounts, HandleStake(u, amount) PROVE AllFit(farm', users')
  <2> DEFINE tokens == StakedTokens(u, amount)
             t == Stake(Of(u), tokens, env)
  <2>1. StakeOk(Of(u), tokens, env) /\ Becomes(u, t)
    BY <1>4 DEF HandleStake
  <2>2. tokens \in Nat
    BY <1>1, StakedTokensNat
  <2> HIDE DEF tokens
  <2>3. t \in Accounts /\ Fits(t)
    BY <1>1, <2>1, <2>2, StakeBooks, StakeFits
  <2> HIDE DEF t
  <2> QED BY <2>1, <2>3, OwnStepFits
<1>5. ASSUME NEW shares \in UnstakeShares, HandleUnstake(u, shares) PROVE AllFit(farm', users')
  <2> DEFINE t == Unstake(Of(u), shares, env)
  <2>1. UnstakeOk(Of(u), shares, env) /\ Becomes(u, t)
    BY <1>5 DEF HandleUnstake
  <2>2. shares \in Nat
    BY FarmAssumption
  <2>3. t \in Accounts /\ Fits(t)
    BY <1>1, <2>1, <2>2, UnstakeBooks, UnstakeFits
  <2> HIDE DEF t
  <2> QED BY <2>1, <2>3, OwnStepFits
<1>6. CASE HandleWithdrawUnstakedDeposits(u)
  <2> DEFINE t == WithdrawUnstakedDeposits(Of(u))
  <2>1. WithdrawUnstakedDepositsOk(Of(u), now) /\ Becomes(u, t)
    BY <1>6 DEF HandleWithdrawUnstakedDeposits
  <2>2. t \in Accounts /\ Fits(t)
    BY <1>1, <2>1, WithdrawUnstakedDepositsBooks, WithdrawUnstakedDepositsFits
  <2> HIDE DEF t
  <2> QED BY <2>1, <2>2, OwnStepFits
<1>7. ASSUME NEW stake \in DelegatedStakes, HandleSetStakeDelegated(u, stake)
      PROVE  AllFit(farm', users')
  <2> DEFINE t == SetStake(Of(u), stake, env)
  <2>1. SetStakeOk(Of(u), stake, env) /\ Becomes(u, t)
    BY <1>7 DEF HandleSetStakeDelegated
  <2>2. stake \in Nat
    BY FarmAssumption
  <2>3. t \in Accounts /\ Fits(t)
    BY <1>1, <2>1, <2>2, SetStakeTypes, SetStakeFits
  <2> HIDE DEF t
  <2> QED BY <2>1, <2>3, OwnStepFits
<1> QED BY <1>2, <1>3, <1>4, <1>5, <1>6, <1>7

(* transfer_ownership: an unstake, a withdrawal and a stake. *)
LEMMA TransferOwnershipFits ==
  ASSUME CounterInv, NEW old \in Users, NEW new \in Users, HandleTransferOwnership(old, new)
  PROVE  AllFit(farm', users')
<1> DEFINE s == Of(old)
           shares == users[old].active_stake
           out == TransferUnstaked(old)
           paid == TransferWithdrawn(old)
           amount == TransferredAmount(old)
           heir == [farm |-> paid.farm, user |-> Heir(new)]
           moved == Stake(heir, amount, env)
<1>1. TypeOK /\ now \in Nat /\ farm \in FarmAccount /\ users \in [Users -> UserAccount]
  BY DEF CounterInv, TypeOK
<1>2. s \in Accounts /\ env \in Environment /\ Fits(s)
  BY <1>1, OfTypes, OfFits
<1>3. /\ UnstakeOk(s, shares, env)
      /\ WithdrawUnstakedDepositsOk(out, now)
      /\ StakeOk(heir, amount, env)
      /\ farm' = moved.farm
      /\ users' = [users EXCEPT ![old] = paid.user, ![new] = moved.user]
  BY DEF HandleTransferOwnership
<1>4. /\ out = Unstake(s, shares, env)
      /\ paid = WithdrawUnstakedDeposits(out) /\ amount = AmountToWithdraw(out)
  BY DEF TransferUnstaked, TransferWithdrawn, TransferredAmount
<1>5. shares \in Nat
  BY <1>1 DEF UserAccount
<1>6. Heir(new) \in UserAccount /\ UserFits(Heir(new))
  <2>1. users[new] \in UserAccount /\ UserFits(users[new])
    BY <1>1, OfFits
  <2> QED BY <1>1, <2>1 DEF Heir, InitializeUser, UserAccount, UserFits
<1> HIDE DEF s, shares, out, paid, amount
<1>7. out \in Accounts /\ Fits(out)
  BY <1>2, <1>3, <1>4, <1>5, UnstakeBooks, UnstakeFits
<1>8. paid \in Accounts /\ amount \in Nat /\ Fits(paid)
  BY <1>1, <1>3, <1>4, <1>7, WithdrawUnstakedDepositsBooks, WithdrawUnstakedDepositsFits
<1>9. heir \in Accounts /\ Fits(heir)
  BY <1>6, <1>8 DEF Accounts, Fits
<1> HIDE DEF heir
<1>10. moved \in Accounts /\ Fits(moved)
  BY <1>2, <1>3, <1>8, <1>9, StakeBooks, StakeFits
<1> HIDE DEF moved
<1>11. \A x \in Users : users'[x] = IF x = new THEN moved.user
                                    ELSE IF x = old THEN paid.user ELSE users[x]
  BY <1>1, <1>3
<1>12. /\ FarmFits(farm') /\ UserFits(moved.user) /\ UserFits(paid.user)
       /\ \A x \in Users : UserFits(users[x])
  BY <1>3, <1>8, <1>10, OfFits DEF Fits
<1> QED BY <1>11, <1>12 DEF AllFit

(* The instructions on the farm alone. *)
LEMMA FarmInstructionFits ==
  ASSUME CounterInv, FarmInstruction
  PROVE  AllFit(farm', users')
<1>1. /\ farm \in FarmAccount /\ env \in Environment /\ now \in Nat
      /\ farm.active \in Pool /\ FarmFits(farm) /\ \A u \in Users : UserFits(users[u])
  BY FarmFields DEF CounterInv, AllFit, TypeOK, env, Environment
<1>2. UNCHANGED users
  BY DEF FarmInstruction, HandleRefreshFarm, HandleWithdrawSlashedAmount, HandleInitializeReward,
         HandleUpdateFarmConfig, HandleDepositToFarmVault, HandleWithdrawFromFarmVault
<1>3. ASSUME HandleRefreshFarm PROVE FarmFits(farm')
  BY <1>1, <1>3, RefreshGlobalRewardsFits DEF HandleRefreshFarm
<1>4. ASSUME HandleInitializeReward PROVE FarmFits(farm')
  BY <1>1, <1>4, InitializeRewardFits DEF HandleInitializeReward
<1>5. ASSUME HandleWithdrawSlashedAmount PROVE FarmFits(farm')
  <2>1. /\ farm'.active = farm.active /\ farm'.pending = farm.pending /\ farm'.slashed = 0
        /\ farm'.slashed_amount_cumulative = farm.slashed_amount_cumulative
        /\ farm'.rewards = farm.rewards
    BY <1>1, <1>5 DEF HandleWithdrawSlashedAmount, FarmAccount
  <2>2. IsU64(0)
    BY MathAssumption DEF IsU64
  <2> QED BY <1>1, <2>1, <2>2 DEF FarmFits
<1>6. ASSUME NEW config \in FarmConfigs, HandleUpdateFarmConfig(config) PROVE FarmFits(farm')
  <2>1. /\ farm'.active = farm.active /\ farm'.pending = farm.pending
        /\ farm'.slashed = farm.slashed /\ farm'.rewards = farm.rewards
        /\ farm'.slashed_amount_cumulative = farm.slashed_amount_cumulative
    BY <1>1, <1>6 DEF HandleUpdateFarmConfig, FarmAccount
  <2> QED BY <1>1, <2>1 DEF FarmFits
<1>7. ASSUME NEW amount \in VaultDeposits, HandleDepositToFarmVault(amount) PROVE FarmFits(farm')
  <2>1. farm' = IncreaseTotalAmount(farm, amount) /\ IsU64(farm.active.amount + amount)
    BY <1>7 DEF HandleDepositToFarmVault, IncreaseTotalAmountOk
  <2>2. /\ farm'.active.stake = farm.active.stake
        /\ farm'.active.amount = farm.active.amount + amount
        /\ farm'.pending = farm.pending
        /\ farm'.slashed = farm.slashed /\ farm'.rewards = farm.rewards
        /\ farm'.slashed_amount_cumulative = farm.slashed_amount_cumulative
    BY <1>1, <2>1 DEF IncreaseTotalAmount, FarmAccount, Pool
  <2> QED BY <1>1, <2>1, <2>2 DEF FarmFits, PoolFits
<1>8. ASSUME NEW amount \in VaultWithdrawals, HandleWithdrawFromFarmVault(amount)
      PROVE  FarmFits(farm')
  BY <1>1, <1>8, FarmAssumption, WithdrawFarmFits DEF HandleWithdrawFromFarmVault
<1>9. FarmFits(farm')
  BY <1>3, <1>4, <1>5, <1>6, <1>7, <1>8 DEF FarmInstruction
<1> QED BY <1>1, <1>2, <1>9 DEF AllFit

(* The instructions on one reward. *)
LEMMA RewardInstructionFits ==
  ASSUME CounterInv, NEW i \in RewardIndex, RewardInstruction(i)
  PROVE  AllFit(farm', users')
<1>1. TypeOK /\ farm \in FarmAccount /\ env \in Environment /\ FarmFits(farm)
      /\ \A u \in Users : UserFits(users[u])
  BY DEF CounterInv, AllFit, TypeOK, env, Environment
<1>2. ASSUME NEW u \in Users, HandleHarvestReward(u, i) PROVE AllFit(farm', users')
  <2> DEFINE t == Harvest(Of(u), i, env)
  <2>1. Of(u) \in Accounts /\ Fits(Of(u))
    BY <1>1, OfTypes, OfFits
  <2>2. HarvestOk(Of(u), i, env) /\ Becomes(u, t)
    BY <1>2 DEF HandleHarvestReward
  <2>3. t \in Accounts /\ Fits(t)
    BY <1>1, <2>1, <2>2, HarvestPromises, HarvestFits
  <2> HIDE DEF t
  <2> QED BY <2>2, <2>3, OwnStepFits
<1>3. ASSUME NEW u \in Users, NEW amount \in CreditAmounts, HandleRewardUserOnce(u, i, amount)
      PROVE  AllFit(farm', users')
  <2> DEFINE t == RewardUserOnce(Of(u), i, amount)
  <2>1. Of(u) \in Accounts /\ Fits(Of(u)) /\ amount \in Nat
    BY <1>1, OfTypes, OfFits, FarmAssumption
  <2>2. RewardUserOnceOk(Of(u), i, amount) /\ Becomes(u, t)
    BY <1>3 DEF HandleRewardUserOnce
  <2>3. t \in Accounts /\ Fits(t)
    BY <2>1, <2>2, RewardUserOncePromises, RewardUserOnceFits
  <2> HIDE DEF t
  <2> QED BY <2>2, <2>3, OwnStepFits
<1>4. ASSUME NEW amount \in RewardAmounts, HandleAddReward(i, amount)
      PROVE  FarmFits(farm') /\ UNCHANGED users
  <2>1. amount \in Nat /\ AddRewardOk(farm, i, amount, env) /\ RefreshGlobalRewardsOk(farm, env)
    BY <1>4, FarmAssumption DEF HandleAddReward, AddRewardOk
  <2>2. FarmFits(AddReward(farm, i, amount, env))
    BY <1>1, <2>1, RewardOperationsFit
  <2> QED BY <1>4, <2>2 DEF HandleAddReward
<1>5. ASSUME NEW amount \in RewardAmounts, HandleWithdrawReward(i, amount)
      PROVE  FarmFits(farm') /\ UNCHANGED users
  <2>1. amount \in Nat /\ RefreshGlobalRewardsOk(farm, env)
    BY <1>5, FarmAssumption DEF HandleWithdrawReward, WithdrawRewardOk
  <2>2. FarmFits(WithdrawReward(farm, i, amount, env))
    BY <1>1, <2>1, RewardOperationsFit
  <2> QED BY <1>5, <2>2 DEF HandleWithdrawReward
<1>6. ASSUME NEW config \in RewardConfigs, HandleUpdateRewardConfig(i, config)
      PROVE  FarmFits(farm') /\ UNCHANGED users
  <2>1. 0 \in Nat /\ RefreshGlobalRewardsOk(farm, env)
    BY <1>6 DEF HandleUpdateRewardConfig, UpdateRewardConfigOk
  <2>2. FarmFits(UpdateRewardConfig(farm, i, config, env))
    BY <1>1, <2>1, RewardOperationsFit
  <2> QED BY <1>6, <2>2 DEF HandleUpdateRewardConfig
<1>7. ASSUME NEW amount \in RewardAmounts, HandleWithdrawTreasury(i, amount)
      PROVE  FarmFits(farm') /\ UNCHANGED users
  BY <1>1, <1>7 DEF HandleWithdrawTreasury
<1>8. ASSUME FarmFits(farm') /\ UNCHANGED users PROVE AllFit(farm', users')
  BY <1>1, <1>8 DEF AllFit
<1> QED BY <1>2, <1>3, <1>4, <1>5, <1>6, <1>7, <1>8 DEF RewardInstruction

(* A new farm and its users start from zero. *)
LEMMA InitFits == Init => CounterInv
<1> SUFFICES ASSUME Init PROVE CounterInv
  OBVIOUS
<1>1. TypeOK
  BY InitCustody DEF Custody
<1>2. IsU64(0) /\ IsU128(0)
  BY MathAssumption DEF IsU64, IsU128
<1>3. FarmFits(farm)
  <2>1. farm \in InitFarms
    BY DEF Init
  <2>2. farm.active = EmptyPool /\ farm.pending = EmptyPool /\ farm.slashed = 0
        /\ farm.slashed_amount_cumulative = 0
    <3> HIDE DEF Init
    <3> QED BY <2>1, FarmAssumption, Zenon
  <2>3. \A i \in RewardIndex : /\ farm.rewards[i].rewards_available = 0
                              /\ farm.rewards[i].rewards_issued_unclaimed = 0
                              /\ farm.rewards[i].rewards_issued_cumulative = 0
                              /\ farm.rewards[i].reward_per_share_scaled = 0
    <3> HIDE DEF Init
    <3> QED BY <2>1, FarmAssumption, Zenon
  <2>4. \A i \in RewardIndex : RewardFits(farm.rewards[i])
    BY <1>2, <2>3, Zenon DEF RewardFits
  <2>5. PoolFits(EmptyPool)
    BY <1>2 DEF PoolFits, EmptyPool
  <2> QED BY <1>2, <2>2, <2>4, <2>5 DEF FarmFits
<1>4. \A u \in Users : UserFits(users[u])
  BY <1>2 DEF Init, NewUser, UserFits
<1> QED BY <1>1, <1>3, <1>4 DEF CounterInv, AllFit

(* Whatever happens, the counters the operators write fit. *)
LEMMA NextFits ==
  ASSUME CounterInv, [Next]_vars
  PROVE  AllFit(farm', users')
<1>1. ASSUME NEW u \in Users, UserInstruction(u) PROVE AllFit(farm', users')
  BY <1>1, UserInstructionFits, TransferOwnershipFits DEF UserInstruction
<1>2. CASE FarmInstruction
  BY <1>2, FarmInstructionFits
<1>3. ASSUME NEW i \in RewardIndex, RewardInstruction(i) PROVE AllFit(farm', users')
  BY <1>3, RewardInstructionFits
<1>4. CASE GlobalInstruction \/ Tick \/ UpdatePrice \/ UNCHANGED vars
  <2>1. UNCHANGED <<farm, users>>
    BY <1>4 DEF GlobalInstruction, HandleUpdateGlobalConfig, Tick, UpdatePrice, vars
  <2> QED BY <2>1 DEF CounterInv, AllFit
<1> QED BY <1>1, <1>2, <1>3, <1>4 DEF Next

(* Every reachable state has them. *)
LEMMA AlwaysFits == Spec => []CounterInv
<1>1. CounterInv /\ TypeOK' /\ [Next]_vars => CounterInv'
  <2> SUFFICES ASSUME CounterInv, TypeOK', [Next]_vars PROVE CounterInv'
    OBVIOUS
  <2>1. AllFit(farm', users')
    BY NextFits
  <2>2. AllFit(farm, users)'
    BY <2>1 DEF AllFit
  <2> QED BY <2>2 DEF CounterInv
<1> QED BY <1>1, InitFits, TypeCorrect, PTL DEF Spec

(* Every counter fits its machine integer: those the operators check by      *)
(* those checks, and the shares of a user, which they do not check, because  *)
(* they are part of a pool whose sum they do.                                *)
THEOREM CountersInRange == Spec => []CountersFit
<1>1. ASSUME CounterInv, SharesInv PROVE CountersFit
  <2>1. FarmFits(farm) /\ \A u \in Users : UserFits(users[u])
    BY <1>1 DEF CounterInv, AllFit
  <2>2. farm \in FarmAccount /\ users \in [Users -> UserAccount] /\ Match(farm, users)
    BY <1>1 DEF SharesInv, TypeOK
  <2>3. ASSUME NEW u \in Users
        PROVE  /\ IsU128(users[u].active_stake) /\ IsU128(users[u].pending_deposit_stake)
               /\ IsU128(users[u].pending_withdrawal_unstake)
    <3>1. /\ users[u].active_stake \in Nat /\ users[u].pending_deposit_stake \in Nat
          /\ users[u].pending_withdrawal_unstake \in Nat
      BY <2>2 DEF UserAccount
    <3>2. users[u].active_stake =< farm.active.stake /\ Waiting(users[u]) =< farm.pending.stake
      BY <2>2, SharesWithinPools
    <3>3. farm.active.stake \in Nat /\ farm.pending.stake \in Nat
      BY <2>2, FarmFields
    <3>4. /\ users[u].pending_deposit_stake =< farm.pending.stake
          /\ users[u].pending_withdrawal_unstake =< farm.pending.stake
      BY <3>1, <3>2, <3>3 DEF Waiting
    <3>5. IsU128(farm.active.stake) /\ IsU128(farm.pending.stake)
      BY <2>1 DEF FarmFits, PoolFits
    <3> QED BY <3>1, <3>2, <3>3, <3>4, <3>5, LessFits
  <2> QED BY <2>1, <2>3 DEF CountersFit, FarmFits, PoolFits, RewardFits, UserFits
<1> QED BY <1>1, AlwaysFits, AlwaysShares, PTL

=============================================================================
