SPECIFICATION FairSpec
CONSTANTS
  N_CHANNELS = 1
  WORD = 2
  WORDS = 3
  SUBFRAMES = 2
  TOWS = 4
  TOW_LIMIT = 5
  EPOCHS = 2
  MAX_BAD_PARITY = 1
  MAX_MISHAPS = 1
  Lookalikes <- MCLookalikes
  Starts <- MCStarts
INVARIANT TypeOK
INVARIANT TimeRight
INVARIANT EpochRight
INVARIANT WordsRight
PROPERTY TimeReturns
PROPERTY KilledOnlyUnsynced
