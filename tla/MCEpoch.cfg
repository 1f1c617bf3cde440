SPECIFICATION Spec
CONSTANTS
  MAX_CODE_PHASE = 2
  MS_PER_BIT = 2
  BITS_IN_WEEK = 100
  ULONG = 1000
  TIC_PERIOD = 5
  DELAY = 7
  MAX_MISSED = 5
INVARIANT TypeOK
INVARIANT SatTimeAgrees
INVARIANT RangeOneMsLong
