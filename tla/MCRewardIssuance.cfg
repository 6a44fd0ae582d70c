CONSTANTS
  WAD = 4
  U64_MAX = 1000000
  U128_MAX = 10000000
  POWERS_OF_TEN <- Scales
  MAX_REWARDS_TOKENS = 1
  Delegated = FALSE
  IssuanceConfigs <- ConfigsChecked
  STAKED = 3
  FUNDS = 6
  MAX_TOPUPS = 3
  MAX_TIME = 6
SPECIFICATION Spec
CHECK_DEADLOCK FALSE
INVARIANTS
  TypeOK
  NeverIssuesTwice
  NeverSkipsAnInstant
  PerShareCovered
