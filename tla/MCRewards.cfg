CONSTANTS
  u1 = u1
  u2 = u2
  Users = {u1, u2}
  WAD = 4
  U64_MAX = 6
  U128_MAX = 24
  POWERS_OF_TEN <- Powers
  MAX_REWARDS_TOKENS = 1
  Delegated = FALSE
  InitFarms <- WarmupFarms
  WALLET = 2
  ADMIN_FUNDS = 0
  REWARD_SUPPLY = 6
  StakeAmounts <- StakingAmounts
  UnstakeShares <- StakingShares
  DelegatedStakes <- None
  VaultDeposits <- None
  VaultWithdrawals <- None
  RewardAmounts <- AllTokens
  CreditAmounts <- OneToken
  FarmConfigs <- None
  RewardConfigs <- None
  TreasuryFees <- NoFee
  InitPrice <- UnitPrice
  Prices <- None
  MAX_CREDIT = 1
  MAX_SLASHED = 0
  MAX_ROUNDINGS = 4
  MAX_TIME = 2
  HORIZON = 1
SPECIFICATION Spec
SYMMETRY Symmetry
CHECK_DEADLOCK FALSE
INVARIANTS
  CountersFit
  StakersCanLeave
  MaturedDepositsActivate
  ClaimsWithinIssued
  TallyNeverBlocksUnstake
  TallyOvershootsByOneUnit
