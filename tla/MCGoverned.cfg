CONSTANTS
  u1 = u1
  u2 = u2
  k1 = k1
  k2 = k2
  NoKey = NoKey
  Users = {u1, u2}
  Keys = {u1, u2, k1}
  Founders = {k1}
  Candidates <- CandidatesForVault
  WAD = 2
  U64_MAX = 1000000
  U128_MAX = 10000000
  POWERS_OF_TEN <- Powers
  MAX_REWARDS_TOKENS = 0
  Delegated = FALSE
  InitFarms <- VaultFarms
  WALLET = 1
  ADMIN_FUNDS = 1
  REWARD_SUPPLY = 0
  StakeAmounts <- AllTokens
  UnstakeShares <- AllShares
  DelegatedStakes <- None
  VaultDeposits <- OneToken
  VaultWithdrawals <- OneToken
  RewardAmounts <- None
  CreditAmounts <- None
  FarmConfigs <- VaultConfigs
  RewardConfigs <- None
  TreasuryFees <- NoFee
  InitPrice <- UnitPrice
  Prices <- None
  MAX_CREDIT = 0
  MAX_SLASHED = 2
  MAX_ROUNDINGS = 4
  MAX_TIME = 0
  HORIZON = 0
SPECIFICATION GovernedSpec
VIEW View
CHECK_DEADLOCK FALSE
PROPERTIES
  OwnersDecide
  OnlyPenaltiesAndWithdrawals
