CONSTANTS
  u1 = u1
  u2 = u2
  Users = {u1, u2}
  WAD = 4
  U64_MAX = 1000000
  U128_MAX = 10000000
  POWERS_OF_TEN <- Powers
  MAX_REWARDS_TOKENS = 0
  Delegated = FALSE
  InitFarms <- StakingFarms
  WALLET = 2
  ADMIN_FUNDS = 1
  REWARD_SUPPLY = 0
  StakeAmounts <- StakingAmounts
  UnstakeShares <- StakingShares
  DelegatedStakes <- None
  VaultDeposits <- OneToken
  VaultWithdrawals <- TwoTokens
  RewardAmounts <- None
  CreditAmounts <- None
  FarmConfigs <- None
  RewardConfigs <- None
  TreasuryFees <- NoFee
  InitPrice <- UnitPrice
  Prices <- None
  MAX_CREDIT = 0
  MAX_SLASHED = 0
  MAX_ROUNDINGS = 0
  MAX_TIME = 2
  HORIZON = 1
SPECIFICATION Spec
CHECK_DEADLOCK FALSE
PROPERTIES
  FrozenTakesNoStake
