CONSTANTS
  u1 = u1
  u2 = u2
  Users = {u1, u2}
  WAD = 4
  U64_MAX = 1000000
  U128_MAX = 10000000
  POWERS_OF_TEN <- Powers
  MAX_REWARDS_TOKENS = 0
  Delegated = FALSE
  InitFarms <- AllFarms
  WALLET = 2
  ADMIN_FUNDS = 1
  REWARD_SUPPLY = 0
  StakeAmounts <- OneToken
  UnstakeShares <- StakingShares
  DelegatedStakes <- None
  VaultDeposits <- OneToken
  VaultWithdrawals <- TwoTokens
  RewardAmounts <- None
  CreditAmounts <- None
  FarmConfigs <- LockingConfigs
  RewardConfigs <- None
  TreasuryFees <- NoFee
  InitPrice <- UnitPrice
  Prices <- None
  MAX_CREDIT = 0
  MAX_SLASHED = 1
  MAX_ROUNDINGS = 0
  MAX_TIME = 2
  HORIZON = 1
SPECIFICATION Spec
SYMMETRY Symmetry
CHECK_DEADLOCK FALSE
INVARIANTS
  PenaltyOnlyShrinks
  StakersCanLeave
  MaturedDepositsActivate
  VaultBacksLiabilities
  SharesMatchPools
  NoOrphanShares
  DueWithdrawalGoesThrough
PROPERTIES
  BooksFollowTokens
  SharesKeepPar
  OthersKeepTheirValue
