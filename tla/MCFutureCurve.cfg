CONSTANTS
  u1 = u1
  u2 = u2
  Users = {u1, u2}
  WAD = 4
  U64_MAX = 1000000
  U128_MAX = 10000000
  POWERS_OF_TEN <- Powers
  MAX_REWARDS_TOKENS = 1
  Delegated = FALSE
  InitFarms <- RewardFarms
  WALLET = 2
  ADMIN_FUNDS = 0
  REWARD_SUPPLY = 5
  StakeAmounts <- StakingAmounts
  UnstakeShares <- StakingShares
  DelegatedStakes <- None
  VaultDeposits <- None
  VaultWithdrawals <- None
  RewardAmounts <- FiveTokens
  CreditAmounts <- None
  FarmConfigs <- None
  RewardConfigs <- FutureCurve
  TreasuryFees <- NoFee
  InitPrice <- UnitPrice
  Prices <- None
  MAX_CREDIT = 0
  MAX_SLASHED = 0
  MAX_ROUNDINGS = 4
  MAX_TIME = 2
  HORIZON = 2
SPECIFICATION Spec
CHECK_DEADLOCK FALSE
INVARIANTS
  ScheduleHasBegun
