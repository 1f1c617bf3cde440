SPECIFICATION FairSpec
CONSTANTS
  CODE_LENGTH = 3
  CODE_PHASES = 2
  CarrSrchWidth = 4
  N_CONFIRM = 1
  M_HITS = 2
  MS_PER_BIT = 3
  PullInTime = 4
  AVG_BITS = 2
  BITS_IN_WEEK = 3
INVARIANT TypeOK
INVARIANT BitAligned
INVARIANT EpochAligned
PROPERTY SearchCovers
PROPERTY BitStreamSpec
PROPERTY OnlyFalseHitsDelay
