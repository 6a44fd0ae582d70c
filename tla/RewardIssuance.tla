--------------------------- MODULE RewardIssuance ---------------------------
(* How much of one reward a farm with a steady stake issues, depending on    *)
(* when it happens to be refreshed.  Any instruction on the farm refreshes   *)
(* it, so the instants of the refreshes are arbitrary.                       *)
EXTENDS FarmOperations

CONSTANTS
  IssuanceConfigs,   \* reward configurations: curve, type, decimals
  STAKED,            \* tokens staked
  FUNDS,             \* what the reward is funded with, and topped up by
  MAX_TOPUPS,        \* bound of the number of top-ups
  MAX_TIME           \* bound of the clock

ASSUME IssuanceAssumption ==
  /\ IssuanceConfigs \subseteq RewardConfig
  /\ STAKED \in Nat \ {0} /\ FUNDS \in Nat /\ MAX_TOPUPS \in Nat /\ MAX_TIME \in Nat

VARIABLES
  now,
  reward,     \* the RewardInfo
  issues,     \* history: refreshes that issued
  dry,        \* history: whether funds ever fell short of the schedule
  topups      \* history: how often funds were added

vars == <<now, reward, issues, dry, topups>>

steadyFarm == [NewFarm EXCEPT !.active = [stake |-> STAKED * WAD, amount |-> STAKED]]

unpriced == [ts |-> now, price |-> [value |-> 1, exp |-> 0, unix_timestamp |-> 0]]

Init ==
  /\ now = 0
  /\ \E config \in IssuanceConfigs :
       reward = [NewReward EXCEPT !.config = config, !.rewards_available = FUNDS]
  /\ issues = 0 /\ dry = FALSE /\ topups = 0

Refresh ==
  /\ RefreshGlobalRewardOk(steadyFarm, reward, unpriced)
  /\ reward' = RefreshGlobalReward(steadyFarm, reward, unpriced)
  /\ issues' = IF reward'.rewards_issued_unclaimed > reward.rewards_issued_unclaimed
               THEN issues + 1 ELSE issues
  /\ dry' = (dry \/ /\ now # reward.last_issuance_ts
                    /\ IssuableAmount(steadyFarm, reward, unpriced) > reward.rewards_available)
  /\ UNCHANGED <<now, topups>>

TopUp ==
  /\ topups < MAX_TOPUPS
  /\ topups' = topups + 1
  /\ reward' = [reward EXCEPT !.rewards_available = @ + FUNDS]
  /\ UNCHANGED <<now, issues, dry>>

Tick == now < MAX_TIME /\ now' = now + 1 /\ UNCHANGED <<reward, issues, dry, topups>>

Next == Refresh \/ TopUp \/ Tick

Spec == Init /\ [][Next]_vars

-----------------------------------------------------------------------------
(* The reference: at each instant the rate of the curve at that instant.     *)
Owed(ts) ==
  LET curve == reward.config.reward_schedule_curve
      perToken == SumFunction([t \in 0 .. ts - 1 |-> CurrentRps(curve, t)])
  IN  IF reward.config.reward_type = "Constant" THEN perToken * STAKED ELSE perToken

(* The farm keeps the amounts it issued as unclaimed, as nobody claims here. *)
Decimals == TenPow(reward.config.rewards_per_second_decimals)

IssuedSoFar == Decimals * reward.rewards_issued_unclaimed

TypeOK ==
  /\ now \in 0 .. MAX_TIME
  /\ reward \in RewardInfo
  /\ issues \in Nat /\ dry \in BOOLEAN /\ topups \in 0 .. MAX_TOPUPS

(* However refreshes and changes of the rate interleave, no instant is paid  *)
(* twice: what was issued never exceeds the schedule up to the last issuance.*)
NeverIssuesTwice == IssuedSoFar =< Owed(reward.last_issuance_ts)

(* And none is skipped while there are funds: each issuance loses less than  *)
(* one token to the decimals of the rate, and a refresh too early to issue a *)
(* whole token loses nothing.                                                *)
NeverSkipsAnInstant ==
  ~dry => Owed(reward.last_issuance_ts) - IssuedSoFar =< issues * (Decimals - 1)

(* The users' claims on each share never exceed the tokens issued.           *)
PerShareCovered ==
  STAKED * reward.reward_per_share_scaled =< reward.rewards_issued_unclaimed * WAD
=============================================================================
