CONSTANTS
  k1 = k1
  k2 = k2
  NoKey = NoKey
  Keys = {u1, u2, k1, k2}
  Founders = {k1}
  Candidates <- CandidatesForRates
  u1 = u1
  u2 = u2
  Users = {u1, u2}
  WAD = 4
  U64_MAX = 4
  U128_MAX = 20
  POWERS_OF_TEN <- Powers
  MAX_REWARDS_TOKENS = 1
  Delegated = TRUE
  InitFarms <- DelegatedFarms
  WALLET = 0
  ADMIN_FUNDS = 0
  REWARD_SUPPLY = 2
  StakeAmounts <- None
  UnstakeShares <- None
  DelegatedStakes <- DictatedStakes
  VaultDeposits <- None
  VaultWithdrawals <- None
  RewardAmounts <- OneToken
  CreditAmounts <- None
  FarmConfigs <- DelegatedConfigs
  RewardConfigs <- Rates
  TreasuryFees <- HalfFee
  InitPrice <- UnitPrice
  Prices <- None
  MAX_CREDIT = 0
  MAX_SLASHED = 0
  MAX_ROUNDINGS = 4
  MAX_TIME = 1
  HORIZON = 1
SPECIFICATION GovernedSpec
SYMMETRY Symmetry
VIEW View
CHECK_DEADLOCK FALSE
PROPERTIES
  OwnersDecide
  RpsAdminSetsRates
INVARIANTS
  DictatedStakeIsAccepted
  DelegatedFarmBalances
  ClaimsWithinIssued
  SharesMatchPools
