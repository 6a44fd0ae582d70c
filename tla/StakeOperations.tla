--------------------------- MODULE StakeOperations --------------------------
(* The share accounting of stake_operations.rs.  An operation takes s, the   *)
(* farm and one of its users as the program holds them in memory, and        *)
(* returns them changed; the operator of the same name ending in Ok says     *)
(* when the code gets through it without an error or a panic.                *)
EXTENDS FarmState

Accounts == [farm : FarmAccount, user : UserAccount]

(* Mutant: rounds up. *)
MutAmountUp(shares, pool) ==
  IF pool.stake = 0 THEN 0
  ELSE (shares * pool.amount + pool.stake - 1) \div pool.stake

(* convert_stake_to_amount, always called to round down. *)
AmountFor(shares, pool) ==
  IF shares = 0 THEN 0
  ELSE IF pool.stake = 0 THEN pool.amount
  ELSE MulDiv(shares, pool.amount, pool.stake)

(* Mutant: rounds up. *)
MutSharesUp(amount, pool) ==
  IF pool.stake = 0 \/ pool.amount = 0 THEN amount * WAD
  ELSE (pool.stake * amount + pool.amount - 1) \div pool.amount

(* convert_amount_to_stake *)
SharesFor(amount, pool) ==
  IF amount = 0 THEN 0
  ELSE IF pool.stake = 0 \/ pool.amount = 0 THEN amount * WAD
  ELSE MulDiv(pool.stake, amount, pool.amount)

AddAmount(pool, amount) ==
  [ stake  |-> pool.stake + SharesFor(amount, pool),
    amount |-> pool.amount + amount ]

(* Shares of an emptied pool make the conversion panic; sums must fit. *)
AddAmountOk(pool, amount) ==
  /\ amount # 0 /\ pool.amount = 0 => pool.stake = 0
  /\ IsU64(pool.amount + amount)
  /\ IsU128(pool.stake + SharesFor(amount, pool))

RemoveShares(pool, shares) ==
  [ stake  |-> pool.stake - shares,
    amount |-> pool.amount - AmountFor(shares, pool) ]

RemoveSharesOk(pool, shares) == shares =< pool.stake

-----------------------------------------------------------------------------
AddPendingDepositStake(s, amount) ==
  [ farm |-> [s.farm EXCEPT !.pending = AddAmount(@, amount)],
    user |-> [s.user EXCEPT !.pending_deposit_stake = @ + SharesFor(amount, s.farm.pending)] ]

AddActiveStake(s, amount) ==
  [ farm |-> [s.farm EXCEPT !.active = AddAmount(@, amount)],
    user |-> [s.user EXCEPT !.active_stake = @ + SharesFor(amount, s.farm.active)] ]

(* Mutant: the user keeps the shares. *)
MutKeepPendingDeposit(s) ==
  [s EXCEPT !.farm.pending = RemoveShares(@, s.user.pending_deposit_stake)]

RemovePendingDepositStake(s) ==
  [ farm |-> [s.farm EXCEPT !.pending = RemoveShares(@, s.user.pending_deposit_stake)],
    user |-> [s.user EXCEPT !.pending_deposit_stake = 0] ]

ActivatedAmount(s) == AmountFor(s.user.pending_deposit_stake, s.farm.pending)

ActivatePendingStake(s) == AddActiveStake(RemovePendingDepositStake(s), ActivatedAmount(s))

ActivatePendingStakeOk(s) ==
  /\ RemoveSharesOk(s.farm.pending, s.user.pending_deposit_stake)
  /\ AddAmountOk(s.farm.active, ActivatedAmount(s))

RemoveActiveStake(s, shares) ==
  [ farm |-> [s.farm EXCEPT !.active = RemoveShares(@, shares)],
    user |-> [s.user EXCEPT !.active_stake = @ - shares] ]

(* Mutant: the user's shares have the price of the other pool. *)
MutPricedByActivePool(s, amount) ==
  [ farm |-> [s.farm EXCEPT !.pending = AddAmount(@, amount)],
    user |-> [s.user EXCEPT !.pending_withdrawal_unstake = @ + SharesFor(amount, s.farm.active)] ]

AddPendingWithdrawalStake(s, amount) ==
  [ farm |-> [s.farm EXCEPT !.pending = AddAmount(@, amount)],
    user |-> [s.user EXCEPT !.pending_withdrawal_unstake = @ + SharesFor(amount, s.farm.pending)] ]

(* Mutant: the user keeps the shares. *)
MutKeepPendingWithdrawal(s) ==
  [s EXCEPT !.farm.pending = RemoveShares(@, s.user.pending_withdrawal_unstake)]

RemovePendingWithdrawalStake(s) ==
  [ farm |-> [s.farm EXCEPT !.pending = RemoveShares(@, s.user.pending_withdrawal_unstake)],
    user |-> [s.user EXCEPT !.pending_withdrawal_unstake = 0] ]

-----------------------------------------------------------------------------
(* stake_operations::unstake: the amount leaves the active pool, less the    *)
(* penalty of an early withdrawal it waits in the pending pool.              *)
LockBegin(s) ==
  IF s.farm.config.locking_mode = "WithExpiry"
  THEN s.farm.config.locking_start_timestamp
  ELSE s.user.last_stake_ts

UnstakePenalty(s, shares, ts) ==
  LET c == s.farm.config
  IN  IF c.locking_mode = "None" THEN 0
      ELSE EarlyWithdrawalPenalty(LockBegin(s), c.locking_duration, ts,
                                  c.locking_early_withdrawal_penalty_bps,
                                  AmountFor(shares, s.farm.active))

UnstakedAmount(s, shares, ts) ==
  AmountFor(shares, s.farm.active) - UnstakePenalty(s, shares, ts)

MoveToPendingWithdrawal(s, shares, ts) ==
  AddPendingWithdrawalStake(RemoveActiveStake(s, shares), UnstakedAmount(s, shares, ts))

MoveToPendingWithdrawalOk(s, shares, ts) ==
  LET c == s.farm.config
  IN  /\ shares =< s.user.active_stake
      /\ RemoveSharesOk(s.farm.active, shares)
      /\ c.locking_mode # "None" =>
           PenaltyOk(LockBegin(s), c.locking_duration, ts, c.locking_early_withdrawal_penalty_bps)
      /\ AddAmountOk(s.farm.pending, UnstakedAmount(s, shares, ts))

-----------------------------------------------------------------------------
(* increase_total_amount: tokens for the stakers, for no new share. *)
IncreaseTotalAmount(farm, amount) == [farm EXCEPT !.active.amount = @ + amount]

IncreaseTotalAmountOk(farm, amount) == IsU64(farm.active.amount + amount)

(* withdraw_farm takes the same fraction from both pools, or all of both. *)
WithdrawsAll(farm, amount) == amount >= farm.active.amount + farm.pending.amount

FractionOf(farm, amount, part) ==
  IF WithdrawsAll(farm, amount) THEN part
  ELSE MulDiv(part, amount, farm.active.amount + farm.pending.amount)

WithdrawnAmount(farm, amount) ==
  FractionOf(farm, amount, farm.active.amount) + FractionOf(farm, amount, farm.pending.amount)

(* Mutant: the pending pool is left alone. *)
MutWithdrawFromActive(farm, amount) ==
  [ farm EXCEPT !.active.amount = @ - FractionOf(farm, amount, @),
                !.frozen = @ \/ WithdrawsAll(farm, amount) ]

WithdrawFarm(farm, amount) ==
  [ farm EXCEPT
      !.active.amount  = @ - FractionOf(farm, amount, @),
      !.pending.amount = @ - FractionOf(farm, amount, @),
      !.frozen = @ \/ WithdrawsAll(farm, amount) ]

WithdrawFarmOk(farm) == IsU64(farm.active.amount + farm.pending.amount)

-----------------------------------------------------------------------------
(* What the books of a farm owe: both pools and the penalties not yet swept. *)
Liabilities(f) == f.active.amount + f.pending.amount + f.slashed
=============================================================================
