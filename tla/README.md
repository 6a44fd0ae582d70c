# TLA+ verification of KFarms

KFarms is a Solana program. Users stake the tokens of a farm and earn up to ten
reward tokens; a *delegated* farm holds no tokens of its users and has its
stakes dictated by another protocol. This directory models the program's
core (everything under `programs/kfarms/src` that changes amounts or decides who
may), checks it with TLC on small farms and proves with TLAPS, for every farm, the
custody of its tokens, that shares and claims of all its users add up, the bounds of
what rounding does to pools and tallies, that rewards follow their schedule, that users
can leave, the refinement of an abstract custodian, and who can move what.

## 1. The system

### Components, state and operations

| Component | Source | State | Operations |
|---|---|---|---|
| Share accounting | `stake_operations.rs` | two pools of a farm (`total_active_stake_scaled`/`total_staked_amount`, `total_pending_stake_scaled`/`total_pending_amount`), three counts of shares per user | add, remove and activate stake, unstake, `increase_total_amount`, `withdraw_farm` |
| Penalty, arithmetic | `utils/withdrawal_penalty.rs`, `utils/math.rs` | none | early-withdrawal penalty, `mul_div` |
| Reward schedule | `state.rs` (`RewardScheduleCurve`) | up to 20 points | `validate`, `get_cumulative_amount_issued_since_last_ts` |
| Reward issuance | `farm_operations.rs` | `RewardInfo`: available, issued and unclaimed, last issuance, reward per share | `refresh_global_reward(s)`, `add_reward`, `withdraw_reward`, `initialize_reward`, `update_reward_config` |
| Reward accounting | `farm_operations.rs` | per user and reward: tally, issued and unclaimed, last claim | `user_refresh_reward`, tally on stake and unstake, `harvest`, `reward_user_once` |
| Staking | `farm_operations.rs`, handlers | instants of the pending deposit and withdrawal, last stake | `stake`, `unstake`, `withdraw_unstaked_deposits`, `user_refresh_state`, `transfer_ownership` |
| Delegated farms | `farm_operations.rs::set_stake` | as above, in units | `set_stake_delegated` |
| Custody | handlers, `token_operations.rs` | token accounts: farm vault, reward vaults, treasury vaults | transfers at the end of an instruction |
| Configuration | `update_farm_config`, `update_global_config` | the options of a farm and a reward, the treasury fee | one option per instruction |
| Oracle | `utils/scope.rs`, Scope program | a dated price | read by issuance and by the deposit cap |
| Administration | `handler_update_*_admin.rs`, `handler_initialize_{farm,farm_delegated,global_config}.rs`, key options of the two configurations | global admin, farm admin and their nominees; withdraw authority, rates' admin, two delegates | creation, nomination and acceptance, appointments |
| Account validation | Anchor constraints, `utils/constraints.rs` | none | signers and authorities of each instruction; the rest not modelled |

The components interact by direct calls inside an instruction. Nearly every
instruction first issues the rewards of the whole farm
(`refresh_global_rewards`), then settles the rewards of its user, then changes
the stake, and at its end transfers tokens. The runtime executes the
instructions that touch one farm one after the other, and undoes one that
returns an error or panics. There is no concurrency inside an instruction, no
message and no retry; what is hard is

* the **order of instructions** of users, authorities and anyone who refreshes,
  over shared pools and a shared reward counter;
* **rounding**, which every conversion between shares and tokens and every
  tally does, and which decides whether the last user can leave;
* **configuration that changes under way**: cooldown, warmup, locking mode,
  schedule, reward type;
* **checks that make an instruction fail**, and may go on making it fail: nearly every
  one refreshes all rewards first, also those that would repair what a refresh fails on;
* **two sets of books** (farm state and token accounts), changed by different
  calls;
* **offices that change hands** while users hold stake: an instruction may be
  signed by its user, by anyone, or by one of six authorities, two of whom
  share a power.

### What makes each component correct

* Share accounting: the pools' shares are the users' shares; nobody's step costs
  another user a token; no shares without tokens.
* Custody: the vault holds both pools and the penalties; each reward vault holds
  what is available and what is unclaimed.
* Issuance: no instant is paid twice or, with funds, never.
* Reward accounting: what users can claim was issued; the tally neither blocks
  unstaking nor, beyond one unit, exceeds the entitlement.
* Staking: due withdrawals go through; deposits become active and withdrawals
  are paid in the end; nothing but the states listed in section 4 keeps a user from leaving.
* Delegated farms: the balances `set_stake` asserts hold throughout, and it
  accepts every stake the cap allows.
* Administration: no office is lost, only a sitting admin's nominee succeeds, and
  each power is used by the office that has it, the user's own stake by the user.

`PROJECT.json` lists each hazard at its line with the properties that cover it.

## 2. The modules

```
FarmMath ── FarmState ── StakeOperations ── FarmOperations ── Farm ── FarmProperties ── MCFarm
RewardSchedule ─┘                             │   └── RewardIssuance ── MCRewardIssuance
FarmCustody ── (refined by) FarmProperties    │
Governance ── GovernedFarm (EXTENDS Farm) ── MCGovernedFarm
    ├── MCGovernance                          │
    └── GovernanceProofs               OperationsProofs
                                              ├── IssuanceProofs (EXTENDS RewardIssuance)
                                              └── FarmProofs (EXTENDS FarmProperties)
                                                     ├── ShareProofs ── RewardProofs ── ExitProofs
                                                     └── GovernedFarmProofs (EXTENDS GovernedFarm)
```

| Module | Models |
|---|---|
| `FarmMath` | decimals of scale `WAD`, `u64` and `u128` ranges, the table of `ten_pow`, the penalty |
| `RewardSchedule` | the schedule of a reward: validity, point in force, accumulated amount |
| `FarmState` | the account records of `state.rs`, the deposit cap and the oracle price |
| `StakeOperations` | each function of `stake_operations.rs` |
| `FarmOperations` | each function of `farm_operations.rs` |
| `Farm` | one farm, its users, the token accounts, the clock, the oracle; one action per instruction |
| `FarmProperties` | the properties of a farm |
| `RewardIssuance` | one reward of a farm with a steady stake, refreshed at arbitrary instants, against a reference definition |
| `FarmCustody` | the abstract specification: a safe for staked tokens, a fund for each reward, and the seven ways in which one amount moves between two owners |
| `Governance` | the keys of the farm and of the global configuration: creation, succession, appointments |
| `GovernedFarm` | `Farm` and `Governance` together: each instruction with the signature its handler asks for |
| `MCFarm`, `MCRewardIssuance`, `MCGovernance`, `MCGovernedFarm` | the values TLC gives to the constants |
| `OperationsProofs` | lemmas: sums over finite sets; what each operation of `StakeOperations` and `FarmOperations` returns, keeps and changes |
| `FarmProofs`, `ShareProofs`, `RewardProofs`, `ExitProofs` | the theorems about a farm: custody, refinement and the pools; the shares of all users and the width of the counters; tallies and claims; conservation of tokens, and that nothing keeps users from leaving |
| `IssuanceProofs`, `GovernanceProofs`, `GovernedFarmProofs` | the theorems about `RewardIssuance`, `Governance` and `GovernedFarm` |

**How state corresponds.** A pool is the record `[stake, amount]`; shares are the
scaled values the accounts store (`Decimal` times `WAD`). The fields of a farm,
a reward and a user keep their names, except that the pools are records, that
`slashed` is `slashed_amount_current` and `frozen` is `is_farm_frozen`. Names of
mints and the statistic `num_users` are left out. The cumulative counters of rewards and
penalties are statistics too, but they are modelled: they never decrease, and the instruction that
adds to a full one fails. In `Farm` a configured address is a Boolean where only its presence
matters; `scope_oracle_price_id` is none, an entry of the price account or an index beyond it. The keys that sign are the
records `global_keys` and `farm_keys` of `Governance`, with the names of the source;
`GovernedFarm` keeps `config.withdraw_authority` equal to "`farm_keys.withdraw_authority`
is set".

**How operations correspond.** A function of the program takes mutable accounts
and returns a result. Its operator takes the accounts `s = [farm, user]` and the
environment `env = [ts, price]` and returns the changed accounts; a second
operator ending in `Ok` is the conjunction of everything that must hold for the
function to return without an error or a panic: its `require!`s, assertions,
checked and machine arithmetic (release builds keep `overflow-checks`). An
action of `Farm` is `Ok` and the new accounts and the token transfers of the
handler, so an action that is disabled is an instruction that fails.
`set_stake` passes no price; `WithoutPrice` makes every use of a price fail.

**Who signs.** An action of `GovernedFarm` is the action of `Farm` and the guard that
Anchor's `Signer` and `has_one`, or the handler, put before it: `UnstakeBy(key, u, shares)`
is `HandleUnstake(u, shares)` signed by `u`. The instructions are grouped by who
may send them: owners, anyone, the farm's authorities, the global admin. `Farm`
alone lets every authority act at any time, the worst case for the amounts.

**The abstract farm.** `FarmCustody` knows nothing of shares, deadlines or tallies.
`FarmProperties!Custodian` maps the *books* of a farm to it: the safe is what the
pools and the penalties say (nothing on a delegated farm, whose stakes are
numbers), a fund is what is available or unclaimed less what was promised without
funds. A step of the farm that moves tokens is then one step of the custodian
only if the books changed by the same amount in the same instruction.

**History.** `signer` is who signed the last instruction, `nominators` who made the
nomination that stands; `credited` counts what `reward_user_once` promised without funds,
`tally_roundings` how often a tally may have been rounded down. No action reads them, except the last
two to bound themselves.

## 3. What the runs check

The times are those of a small machine with two workers.

| Run | Question | Bounds |
|---|---|---|
| `staking` | Do custody, the shared pending pool and each user's value survive rounding, under every order of stake, activation, unstake, withdrawal, `deposit_to_farm_vault` and `withdraw_from_farm_vault`; are the penalties of both locking modes booked, backed and swept once, also when the lock is lifted and stake changes hands; is waiting never dearer; can each staker leave and each matured deposit become active; is a share never cheaper than a token, but for the withdraw authority; is each step one of the custodian? | 2 users with 2 tokens each staked one at a time, admin with 1; a farm with warmup and cooldown 1, and two with a lock of 2 at 50 % and 1 token of penalties; clock up to 2, stake moved until instant 1 |
| `exit` | Does every deposit become active and every withdrawal get paid? | 2 users with 1 token, clock up to 3, new stake and unstake up to instant 2 |
| `rewards` | Do the tallies promise no more than was issued, let users leave, and stray by one unit at most; do all counters stay within their machine integers; can stakers leave and deposits become active with rewards and full counters? | 2 users with 2 tokens, with and without a warmup of 1; 6 reward tokens added at once and issued at 3 per instant, 1 credit, clock up to 2, stake moved until instant 1; `u64` ends at 6, `u128` at 24 |
| `funding` | Does each reward vault cover what is available and unclaimed; do books and tokens move together; can users leave whatever the price, once the oracle is unset? | 1 user, 4 reward tokens, two schedules, decimals inside and outside the table, both fees, a price that doubles and expires, a farm without oracle, clock up to 2, stake moved until instant 1 |
| `delegated` | Do the asserted balances hold, rewards keep within what was issued, and can every allowed stake be dictated; do only delegates dictate; does the rates' admin change nothing but rates? | 2 users with stakes 0, 1, 3, cap 3, `u64` up to 4 and `u128` up to 20; 4 keys, of which one founds the farm and one takes the offices; 2 reward tokens, fee on or off, a farm with an oracle and one without rewards at first, clock up to 1 |
| `issuance` | Does issuance follow the schedule? | 4 schedules of up to 3 rates, 2 types, 3 decimals, clock up to 6 |
| `governance` | Do offices keep a holder, and can only a sitting admin's nominee take one? | 3 keys, and the address nobody holds |
| `governed` | Does stake leave only at its owner's signature, and the vault only as a penalty or to the withdraw authority? | 2 users with 1 token and 1 admin; the second user may be named farm admin, global admin and withdraw authority; clock stands |
| `frozen`, `cooldown_lowered`, `future_curve`, `tally` | the four disagreements of section 5 | as `staking` and `rewards` |

**Bounds.** `WAD` is 4 instead of 10^18: the *smaller* the scale, the larger each
rounding, so small scales provoke the rounding hazards that the real scale hides
behind long sequences. `UnstakeShares` has a value that is no multiple of `WAD`
and one that takes everything. Two users are enough for every pairwise
interference over a pool; a clock of two or three instants lets a warmup, a
cooldown and a lock begin, be restarted and end. `MAX_TIME`, `MAX_CREDIT`,
`MAX_SLASHED`, `MAX_ROUNDINGS` and `HORIZON` bound the clock, the credits of
`reward_user_once`, the cumulative penalties, the counted roundings and the instants at which
users move stake; with `Founders` and `Candidates` (who creates the accounts and which addresses an
admin may name) they are the only guards that are not in the code, besides the
finite supplies of tokens. They keep the runs finite; the theorems hold for any values of
them. The table of `ten_pow` ends at the exponent 1 instead of 19, so that both a known and an unknown
exponent occur. In most runs `U64_MAX` and `U128_MAX` are so large that
nothing overflows. In `rewards` they are 6 and 24: what is issued and credited in all
comes to more than 6, so that the cumulative counter reaches its end and refresh and
`reward_user_once` fail on it, and what two tokens' shares earn comes to more than 24, so that
the products and tallies leave their range. In `delegated` a stake and the shares of a pool do.
Users are interchangeable, so the safety runs of `MCFarm` and `delegated` use symmetry, and
the keys of `MCGovernance` are; the liveness run does not, nor does `governed`, where the
two users have different prospects. The runs of `MCGovernedFarm` have a `VIEW`: it leaves out
`signer` and `nominators`, which no action reads and which only action properties mention,
and those are evaluated on every step, also one to a state seen before. The clock of
`governed` stands, since who may sign does not depend on it; a lock (with its penalty) and a
cooldown begin at that instant and the farm without them lets tokens out as well.

**Deadlock** is checked in `governance`, where some office can always act. In the
other runs it is not: at the end of the clock all instructions may be disabled.

**Mutants.** Each property is checked against a plausible bug in the definition it
depends on (the `Mut*` operators, each next to the definition it changes): with
the bug, TLC finds the property violated.

**Fairness** (`LiveSpec`). `Tick` is fair, as time passes. `refresh_user_state` may be sent by anyone
without the user's signature, and the operators of the program run a crank that
does; `withdraw_unstaked_deposits` is sent by a user who wants the tokens.
Neither has weak fairness that its code would not give: both are enabled as soon
as the deadline is over and stay enabled until they are taken
(`DueWithdrawalGoesThrough` is the safety half of it). No fairness is assumed of stake,
unstake or any authority; that a user does not restart a warmup or a cooldown
forever is the bound `HORIZON`. `DepositEventuallyActive` excepts a farm that was emptied
(`frozen`), in which activation fails for good.

## 4. What is proved

For every set of users, number of rewards, scale, machine width, argument set and
configuration set (under the named assumptions of the modules, which
only give the constants their types and say that the users of a farm are finitely many,
that a new farm is empty, its counters and last issuance at zero, and that a new
delegated farm has neither warmup nor cooldown; its account is zeroed when it is created):

| Theorem (in `FarmProofs` unless named) | Statement |
|---|---|
| `AlwaysCustody` | `Spec => []Custody`, the inductive invariant |
| `TypeCorrect` | `Spec => []TypeOK`: no counter of an account or token account goes below zero |
| `VaultSolvent` | `Spec => []VaultBacksLiabilities` |
| `RewardsFunded` | `Spec => []RewardsBacked` |
| `WaitingNeverCosts` | `Spec => []PenaltyOnlyShrinks`: waiting never raises a penalty, and a penalty never takes all of an amount |
| `NoOrphans` | `Spec => []NoOrphanShares`: rounding leaves no shares without tokens |
| `DelegatedBalances` | `Spec => []DelegatedFarmBalances`: what `set_stake` asserts always holds |
| `ParIsKept` | `Spec => SharesKeepPar`: no rounding makes a share cheaper than a token |
| `WithoutAuthorityAtPar` | `Spec /\ []~farm.config.withdraw_authority => []SharesAtPar` |
| `TallyNeverBlocks` (`RewardProofs`) | `Spec => []TallyNeverBlocksUnstake`: after a refresh the check of the tally in `unstake` passes |
| `TallyOvershoot` (`RewardProofs`) | `Spec => []TallyOvershootsByOneUnit`: roundings of the tally do not add up |
| `SharesAddUp` (`ShareProofs`) | `Spec => []SharesMatchPools`: the shares of a pool are those of its users, however many |
| `NoneLosesToOthers` (`ShareProofs`) | `Spec => OthersKeepTheirValue`: no instruction costs a user it does not touch a token, unless the withdraw authority takes some |
| `DueWithdrawalsGoThrough` (`ShareProofs`) | `Spec => []DueWithdrawalGoesThrough`: a withdrawal whose cooldown is over is never refused |
| `CountersInRange` (`ShareProofs`) | `Spec => []CountersFit`: every counter fits its machine integer |
| `ClaimsIssued` (`RewardProofs`) | `Spec => []ClaimsWithinIssued`: what all users can claim was issued, but for the roundings counted |
| `TokensConserved` (`ExitProofs`) | `Spec => []Conserved`: users, authorities and farm together hold the tokens there were at first |
| `StakersLeave` (`ExitProofs`) | `Spec => []StakersCanLeave`, if `IntegersSuffice`: the tokens that exist fit `u64` |
| `DepositsActivate` (`ExitProofs`) | `Spec => []MaturedDepositsActivate`, if `IntegersSuffice` |
| `ParLeavesRoom` (`ExitProofs`) | `Spec => [](~Delegated /\ SharesAtPar => SharesFit)`, if `IntegersSuffice` and `WAD * u64::MAX` fits `u128`: pools at par have room for each other's tokens |
| `StakesAreAccepted` (`ExitProofs`) | `Spec => []DictatedStakeIsAccepted` |
| `CumulativeIsPaid` (`IssuanceProofs`) | between two instants the code's sum over the periods of a curve is the sum of the rates instant by instant |
| `IssuanceTypes`, `NoInstantTwice`, `NoInstantSkipped`, `SharesAreCovered` (`IssuanceProofs`) | `Spec => []TypeOK`, `[]NeverIssuesTwice`, `[]NeverSkipsAnInstant`, `[]PerShareCovered` of `RewardIssuance`, for every schedule, stake and clock |
| `FarmImplementsCustodian` | `Spec => BooksFollowTokens`: every farm implements `FarmCustody` |
| `OfficesAreHeld`, `OnlyTheAdminNominates` (`GovernanceProofs`) | `Spec => []NobodyIsLockedOut`, `Spec => []NominationsStand`, for any set of keys |
| `SignaturesOnlyRestrict` (`GovernedFarmProofs`) | `GovernedSpec => Spec`: every theorem about `Farm` holds whoever signs |
| `OwnersAreAsked`, `VaultIsGuarded` (`GovernedFarmProofs`) | `GovernedSpec => OwnersDecide`, `GovernedSpec => OnlyPenaltiesAndWithdrawals` |
| `RatesAreAllTheySet` (`GovernedFarmProofs`) | `GovernedSpec => RpsAdminSetsRates`: who is admin of the rates only changes nothing else |

`Custody` is `TypeOK /\ VaultBacksLiabilities /\ RewardsBacked /\ UnusedRewardsEmpty`.

* `TypeOK` alone is not inductive by inspection: fields of the accounts are natural
  numbers because a pool never gives up more than it has (`AmountForBound`), a
  penalty is at most the amount (`PenaltyBound`), a refresh issues at most what is
  available (`IssuedAmountBound`) and a withdrawal takes at most each pool
  (`FractionOfBound`).
* `VaultBacksLiabilities` needs each operation's effect on
  `Liabilities`: the lemmas `...Books` of `OperationsProofs` say by how much it changes
  them, and the lemma of each instruction compares that with its transfer.
* `RewardsBacked` needs the effect on `Promised`, the lemmas `...Promises`. Most
  operations only issue (`OnlyIssues`): they move funds from available to unclaimed.
* `UnusedRewardsEmpty` is the strengthening: `initialize_reward` sets
  `rewards_available` of the next slot to 0, which keeps `RewardsBacked` only
  because nothing can be funded, issued or withdrawn in a slot that is not
  initialised. (`reward_user_once` may credit such a slot, and the invariant covers it:
  `initialize_reward` leaves the unclaimed rewards alone.)

* `PenaltyOnlyShrinks` follows from `TypeOK` in any one state. The penalty is two floored
  quotients, so the proof is about those: a quotient grows with its dividend
  (`QuotientMonotone`), hence the rate falls with time (`PenaltyBpsFalls`, to 0 when the
  lock ends) and so does the penalty of a fixed amount (`PenaltyFalls`); it is less
  than the amount because an allowed rate is below 100 % (`PenaltyLeavesSomething`).

* `NoOrphanShares` and `DelegatedFarmBalances` share the invariant `PoolInv`: `TypeOK`;
  `Balanced`, both pools are backed, a delegated farm balances and has no tokens; and `Timely`,
  the configuration is one of those allowed and nothing that happened lies ahead of the clock. A
  quotient `shares * amount / stake` with `shares < stake` is less than `amount`, so who leaves a
  pool leaves a token to those who stay (`RemoveSharesKeepsPool`), and so does a withdrawal that
  does not take all (`WithdrawFarmBacked`). On a delegated farm only `set_stake` reaches the pools,
  and it moves shares and tokens by the same difference (`SetStakeBalances`).
* `SharesKeepPar` is shown along with them, one lemma per instruction. A deposit into a pool at
  par buys at most `WAD` shares per token; of a pool at par `shares` take at most the floor of
  their part, and what the others keep stays at par (`AmountLeavesPar`).
* The tallies rest on one fact about rounding: the floor of a sum is the sum of the floors
  or one more (`QuotientOfSum`, `RewardValueOfSum`). A refresh leaves the tally at most
  the entitlement and less than `WAD` below it; then shares that leave are worth at most the
  tally plus `WAD`, which is `TallyNeverBlocksUnstake` (from `TypeOK` in any one state).
  For `TallyOvershootsByOneUnit` the invariant is `TalliesWithin`, for every user and
  reward: shares that come add at most what they are worth together; shares
  that leave do so after a refresh, so the one unit they may cost does not add to an
  older one; `set_stake` of a delegated farm, where the scale of stakes is 1, is exact. It holds for
  users whom an instruction does not touch because reward per share only grows (`RewardsGrow`).
* `BooksFollowTokens`: by `Custody` the books equal the token accounts, so a step of
  the farm is mapped by its *tokens*: for each instruction the proof names the
  custodian's action (`Stake` is `PutIn`, a harvest is `Release` with the treasury's
  part as `fee`, ...) or shows that no token account changed. Without `Custody` the
  safe and the funds of a state could be anything.
* `NobodyIsLockedOut` and `NominationsStand` are not inductive alone. `Offices` adds that the
  keys are addresses and that the accounts which do not exist yet are zeroed; an acceptance
  makes the nominee equal to the admin because the signer, a key somebody holds, is the nominee.
* `OnlyPenaltiesAndWithdrawals` uses `Custody` for the arithmetic of a sweep (the vault gives
  exactly what `slashed` loses) and otherwise one fact per instruction about `admin_ata`.
* `OwnersDecide` has, per instruction that touches a user, a lemma of the form "the accounts
  of others keep their claims" (`KeepsClaims`): a refresh of one user activates a deposit
  and so only raises `active_stake`, a transfer only adds to the heir, a credit touches
  rewards only.

* **Sums over the users.** `SumFunction` is a fold, defined by recursion over a finite set, and
  the induction theorems of the library take an operator, which no installed prover instantiates.
  `TotalUnfold` therefore unfolds the definition once, `SumsExist` and `SumsAgree` show that the function it
  chooses exists and is unique, and these and the facts about sums (`SumTakeOut`: the sum
  without one summand, `SumUpdate`: one summand changes, `SumMember`: a summand is at most the
  sum, ...) take a smallest counterexample and remove an element from it (`WFMin`, which is
  about sets and relations). The schedule is summed the same way: `CumulativeIsPaid`
  looks at the first instant at which the two sums differ.
* `SharesMatchPools` is inductive with `TypeOK` (`SharesInv`): every operation moves shares of a
  pool and of its user by the same number, and a user who leaves takes no more than there is
  in the pool, because a summand is at most the sum.
  It is what `OthersKeepTheirValue` needs: the shares of the others are in the pool that a
  user leaves, so what the pool keeps per share does not fall (a deposit buys at a price
  rounded for the pool, a withdrawal is paid rounded down). With `VaultBacksLiabilities` it gives
  `DueWithdrawalGoesThrough`.
* `CountersFit` is inductive with `TypeOK` (`CounterInv`) and uses `SharesInv` for the counters the
  operations do not check themselves: the shares of a user are at most those of the pool.
* `ClaimsWithinIssued` is proved from `ClaimInv`: per reward, the *slack* of the farm (what was
  issued and not claimed, less what all its stake has earned since the beginning) and the slacks
  of the users (their tallies, less what was credited to them) add up to no less than zero, but for
  the roundings counted. A refresh of the farm never lowers the farm's slack
  (`RefreshGlobalRewardSlack`), one of a user raises the tally by at least what it credits, and
  stake that comes or goes changes farm and tally together. In the end `SharesMatchPools`
  turns the stake of the farm into the sum over its users. Two strengthenings carry it: rewards not yet
  initialised have no reward per share, and on a delegated farm a tally is at most the
  entitlement, as there `set_stake` is exact.
* `IssuanceInv` adds to the four properties of `RewardIssuance` that the last issuance is not in the
  future and that a reward with an issuance after instant 0 has a schedule that began
  by 0. Each refresh then extends the schedule by `CumulativeIsPaid` and loses less than one
  token to the decimals; funds that fall short only lower what is issued, and set `dry`.

* `TokensConserved` goes over the custodian: each of its steps moves one amount between two
  owners (`CustodianConserves`), and by `FarmImplementsCustodian` each step of the farm is one of them.

`NextCustody` has one lemma per instruction (`StakeCustody`, `HarvestCustody`, ...), and so have the
other invariants of the farm. `transfer_ownership` is proved by composing the effects of its three operations.

**That an instruction does not fail.** `StakersCanLeave`, `MaturedDepositsActivate` and
`DictatedStakeIsAccepted` say of every check, assertion and sum in `unstake`, `refresh_user_state` and
`set_stake` that it holds. They need no invariant of their own: in `ExitProofs` they follow, in any
one state, from `ExitInv`, the conjunction of the invariants above.

* The pools: a user's shares are in the pool (`SharesMatchPools`), a pool is not without tokens
  (`NoOrphanShares`), and tokens that come back fit, because both pools together hold no more than the
  tokens that exist (`LiabilitiesExist`, from `TokensConserved` and `VaultBacksLiabilities`) and
  a part of the other pool's tokens buys no more shares than all of them (`TokensEnterPool`).
* The penalty: its division is by a positive duration and its rate is below 100 %
  (`PenaltyAccepted`).
* The rewards: what a refresh issues is at most what is available (`IssuanceAccepted`); what is due to
  a user is part of what was issued to all, up to the roundings, and so fits where that fits
  (`DueFits`: no user's part is below minus the one
  unit of `TallyOvershootsByOneUnit`, and `ClaimInv` bounds the sum), and the tally stays in range
  when new shares are counted (`NewSharesCounted`).
* `set_stake` without a price does what it would do with one, if rewards are issued up to now or no
  oracle is set (`PriceMakesNoDifference`).

What the code does not, and could not, guarantee is a condition inside the property: a state in
which an instruction does fail. Each is a fact about the farm or the user as they are before the
instruction. The conditions, with the code that fails outside them:

| Condition | The instruction fails when | Who can bring it about |
|---|---|---|
| `~WithdrawalDue` | an earlier withdrawal is due and not yet withdrawn (`farm_operations.rs:695`) | the user, who can withdraw it |
| `~farm.frozen` | the vault was emptied under the shares (`stake_operations.rs:175`) | the withdraw authority |
| penalty rate in 1 .. 9999 | a lock has a rate of 0 or 100 % (`withdrawal_penalty.rs:37`) | the farm admin |
| the oracle is unset (`Unpriced`) | a price is missing, too old, of the future, or its id or account is not set (`farm_operations.rs:799-801`, `scope.rs:11-28`) | the oracle or the farm admin, who can unset it |
| `TalliesCounted` | a tally is one unit too high (`:582`, section 5) | the user's own partial unstake, until more is issued |
| `SchedulesInRange` | the schedule has not begun, the decimals are beyond `ten_pow` (`:794`), or an accumulated amount or the reward per share leaves its integer | the admins of farm and rates, who set these options without validation and whose repair refreshes first |
| `CountersHaveRoom`, `PenaltiesHaveRoom` | a counter of rewards or penalties is full: unclaimed (`:844`), cumulative (`:850`, `:722`) | the farm admin by crediting any `u64` (`:663`); the cumulative ones also by passing time, as they never decrease |
| `EarningsFit` | shares times reward per share exceeds `u128` for the shares of a user, or for a stake that may be dictated | time: the product is what the shares would have earned since the farm began; the code multiplies it out, although most of it was never theirs to claim |
| `SharesFit` | one pool has no room for the shares of the other's tokens | the withdraw authority: each of its withdrawals makes new shares cheaper (`ParIsKept`, `ParLeavesRoom`: nothing else does) |
| `DeadlinesFit` | the end of a cooldown or a lock overflows | the farm admin, whose periods are not validated |

The one assumption about constants is `IntegersSuffice`, that all farm tokens that exist
fit `u64`, as the supply of an SPL mint does; `StakesAreAccepted` needs none. No bound of the runs
(`MAX_CREDIT`, `MAX_SLASHED`, `MAX_ROUNDINGS`) enters: credits and cumulative counters are as large
as the code lets them become, and `CountersHaveRoom` is evaluated on the counters of the state.

The runs visit both sides of those that depend on a history: `rewards` reaches states without room in
a counter, with earnings beyond `u128` and with a schedule out of range, `funding` schedules out of range (decimals
beyond the table), `delegated` earnings beyond `u128`, and `staking` emptied farms and shares below par.

Only model-checked:

* `WithdrawalEventuallyPaid` and `DepositEventuallyActive`: liveness under fairness is beyond the
  prover. `DueWithdrawalsGoThrough` is the part of the first that is a safety property.

## 5. Disagreements found

* `frozen`: `withdraw_farm` logs that an emptied farm is "left frozen", but the flag it
  sets is read nowhere: with a warmup, users can still deposit, and what they
  deposit cannot become active.
* `cooldown_lowered`: `unstake` logs that a pending withdrawal "will be extended", but it
  overwrites the deadline, which moves back if the cooldown was lowered.
* `future_curve`: a schedule that starts in the future, "invalid" to
  `most_recent_curve_starting_point`, passes `validate`; installed on a farm with
  stakers it makes every refresh at a later instant fail, the one with which `update_farm_config`
  would replace it included.
* `tally`: a partial unstake may leave the tally one unit of the last decimal above the
  entitlement; until more is issued, `user_refresh_reward` underflows and the
  user's stake, unstake, refresh and harvest fail. The code's own tolerance of one in `unstake`
  comes after that subtraction. `TallyOvershootsByOneUnit`, checked in `rewards` and proved,
  shows that it is never more.

## 6. Not modelled

* Which token accounts are passed to an instruction (seeds, `has_one` on vaults and mints),
  their delegates and close authorities, the token-2022 filter, the refusal of remaining
  accounts, another price account than the configured one, error codes, logs: checks that refuse an
  instruction and keep no state. The model sends each instruction with the right accounts.
* The ids of a strategy and of a vault, which are stored and never read.
* Account creation by the runtime, and the order in which accounts are created besides the
  global configuration, the farm and its users.
* Tokens sent to a vault outside the program: they only add to the vault, and
  `farm_vault = Liabilities` would become `>=`.
* A farm counts time in seconds or slots; the model's clock is the farm's, and the
  price is dated in it. A farm that counts slots and has an oracle compares the
  price's seconds with slots; it is outside the model.
* Reward configuration that changes several options at once: one option per instruction, as
  in the code.

## 7. Plan

Done, in this order: schedule and issuance; share accounting; the farm's
operations and instructions; custody, the penalty, the pools and the tallies proved; the abstract custodian and
the refinement; governance and the governed farm, with their proofs; the limits of the machine
integers; the states in which a user cannot leave; proofs of the sums over the users, the counters,
the claims, the issuance and the powers of the rates' admin; the price of a share, the conservation
of tokens, and that users can leave, deposits become active and stakes can be dictated. What would
extend it: runs with two rewards of different schedules in one farm, and progress under an oracle
that stops and resumes.
