CONSTANTS
  u1 = u1
  u2 = u2
  Users = {u1}
  WAD = 4
  U64_MAX = 1000000
  U128_MAX = 10000000
  POWERS_OF_TEN <- Powers
  MAX_REWARDS_TOKENS = 1
  Delegated = FALSE
  InitFarms <- FundingFarms
  WALLET = 1
  ADMIN_FUNDS = 0
  REWARD_SUPPLY = 4
  StakeAmounts <- AllTokens
  UnstakeShares <- AllShares
  DelegatedStakes <- None
  VaultDeposits <- None
  VaultWithdrawals <- None
  RewardAmounts <- TwoTokens
  CreditAmounts <- OneToken
  FarmConfigs <- None
  RewardConfigs <- FundingConfigs
  TreasuryFees <- BothFees
  InitPrice <- UnitPrice
  Prices <- DoublePrice
  MAX_CREDIT = 1
  MAX_SLASHED = 0
  MAX_ROUNDINGS = 2
  MAX_TIME = 2
  HORIZON = 1
SPECIFICATION Spec
CHECK_DEADLOCK FALSE
PROPERTIES
  BooksFollowTokens
INVARIANTS
  StakersCanLeave
  TypeOK
  RewardsBacked
